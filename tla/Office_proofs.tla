---------------------------- MODULE Office_proofs ----------------------------
(***************************************************************************)
(* Proofs about the office, for constants of any size.  The privileges:    *)
(* for any order of migrations, provisioning runs (interrupted ones        *)
(* included) and maintenance.  The pool: no call reaches another           *)
(* organisation's rows.  The ledger: numbers and audit positions follow    *)
(* the commits, and the rows that calls lock never close a circle.  The    *)
(* imports: each file whole or not at all, and every stock figure          *)
(* explained by its movements.                                             *)
(***************************************************************************)
EXTENDS Office, Inquiries_proofs, Sums_proofs, SequenceTheorems

-----------------------------------------------------------------------------
(* The privileges of the application's role                                *)

Steps == {"IDLE", "GRANTED", "DEFAULTED", "REVOKING"}

\* The privileges are sets of write privileges, one per table.
GrantsTyped ==
    /\ grants \in [Tables -> SUBSET WRITES]
    /\ provisioning \in [step : Steps, left : SUBSET Tables]
    /\ existing \subseteq Tables
    /\ protected \subseteq existing \cap DOMAIN REVOKED
    /\ provisioning.left \subseteq DOMAIN APPEND_ONLY

\* No statement takes INSERT away and leaves another write: what a table may still have
\* done to it is visible to the status of the kill switch.
InsertGoesLast == \A t \in Tables : grants[t] = {} \/ "INSERT" \in grants[t]

\* Once provisioning has read the list, a protected table is either still on it or the
\* way its migration left it.
WorkedOffIsProtected ==
    provisioning.step = "REVOKING" =>
        \A t \in protected \ provisioning.left : grants[t] \cap REVOKED[t] = {}

GrantsInvariant == GrantsTyped /\ InsertGoesLast /\ WorkedOffIsProtected

-----------------------------------------------------------------------------

\* The lists name the same tables and privileges, and none of them holds INSERT
\* (the migrations' REVOKE statements, appendOnlyRevokes, RESTORE_SQL).
LEMMA ListsSpareInsert ==
    /\ \A t \in DOMAIN REVOKED : REVOKED[t] \subseteq {"UPDATE", "DELETE"}
    /\ \A t \in DOMAIN RESTORE_REVOKES : RESTORE_REVOKES[t] \subseteq {"UPDATE", "DELETE"}
    /\ APPEND_ONLY = REVOKED
BY DEF REVOKED, RESTORE_REVOKES, APPEND_ONLY

\* Taking UPDATE or DELETE from a table that has INSERT, or has nothing, leaves it so.
LEMMA RevokingSparesInsert ==
    ASSUME NEW g \in SUBSET WRITES, NEW r \in SUBSET {"UPDATE", "DELETE"},
           g = {} \/ "INSERT" \in g
    PROVE  /\ g \ r \in SUBSET WRITES
           /\ g \ r = {} \/ "INSERT" \in g \ r
OBVIOUS

\* Leaving maintenance grants INSERT to every table.
LEMMA WithoutKeepsInsert ==
    ASSUME NEW t
    PROVE  /\ Without(RESTORE_REVOKES, t) \in SUBSET WRITES
           /\ "INSERT" \in Without(RESTORE_REVOKES, t)
BY ListsSpareInsert DEF Without, WRITES

\* The progress of provisioning, taken apart.
LEMMA ProgressTyped ==
    ASSUME NEW s \in Steps, NEW l \in SUBSET Tables
    PROVE  LET p == [step |-> s, left |-> l]
           IN  p \in [step : Steps, left : SUBSET Tables] /\ p.step = s /\ p.left = l
OBVIOUS

LEMMA InitialGrants == GrantsInit => GrantsInvariant
<1>1. GrantsInit => /\ provisioning \in [step : Steps, left : SUBSET Tables]
                    /\ provisioning.step = "IDLE" /\ provisioning.left = {}
  BY ProgressTyped DEF Steps, GrantsInit, Idle
<1>2. GrantsInit => GrantsTyped
  BY <1>1 DEF GrantsInit, GrantsTyped
<1>3. GrantsInit => InsertGoesLast
  BY DEF GrantsInit, InsertGoesLast
<1>4. GrantsInit => WorkedOffIsProtected
  BY <1>1 DEF WorkedOffIsProtected
<1>. QED BY <1>2, <1>3, <1>4 DEF GrantsInvariant

\* Every statement of a migration and of either script keeps the invariant.
LEMMA StatementsKeepInvariant ==
    ASSUME GrantsInvariant, [GrantsNext]_grantVars
    PROVE  GrantsInvariant'
<1> USE DEF GrantsInvariant, GrantsTyped, InsertGoesLast, WorkedOffIsProtected
<1>1. ASSUME NEW t \in Tables, CreateTable(t) PROVE GrantsInvariant'
  <2>1. t \notin protected /\ protected' = protected /\ provisioning' = provisioning
    BY <1>1 DEF CreateTable
  <2>2. /\ grants' \in [Tables -> SUBSET WRITES]
        /\ \A u \in Tables : grants'[u] = {} \/ "INSERT" \in grants'[u]
    BY <1>1 DEF CreateTable, WRITES
  <2>3. \A u \in protected : grants'[u] = grants[u]
    BY <1>1, <2>1 DEF CreateTable
  <2>. QED BY <1>1, <2>1, <2>2, <2>3 DEF CreateTable
<1>2. ASSUME NEW t \in Tables, ProtectTable(t) PROVE GrantsInvariant'
  <2>1. REVOKED[t] \in SUBSET {"UPDATE", "DELETE"} /\ t \in existing /\ t \in DOMAIN REVOKED
    BY <1>2, ListsSpareInsert DEF ProtectTable
  <2>2. /\ grants' = [grants EXCEPT ![t] = grants[t] \ REVOKED[t]]
        /\ protected' = protected \cup {t} /\ UNCHANGED <<existing, provisioning>>
    BY <1>2 DEF ProtectTable
  <2>3. \A u \in Tables : grants'[u] = IF u = t THEN grants[t] \ REVOKED[t] ELSE grants[u]
    BY <2>2
  <2>4. grants' \in [Tables -> SUBSET WRITES] /\ InsertGoesLast'
    BY <2>1, <2>2, <2>3, RevokingSparesInsert
  <2>5. WorkedOffIsProtected'
    BY <2>2, <2>3
  <2>. QED BY <2>1, <2>2, <2>4, <2>5
<1>3. ASSUME NEW t \in Tables, RevokeNext(t) PROVE GrantsInvariant'
  <2>1. t \in DOMAIN REVOKED /\ REVOKED[t] \in SUBSET {"UPDATE", "DELETE"}
    BY <1>3, ListsSpareInsert DEF RevokeNext
  <2>2. /\ grants' = [grants EXCEPT ![t] = grants[t] \ REVOKED[t]]
        /\ provisioning' = [provisioning EXCEPT !.left = provisioning.left \ {t}]
        /\ UNCHANGED <<existing, protected>>
    BY <1>3, ListsSpareInsert DEF RevokeNext
  <2>3. \A u \in Tables : grants'[u] = IF u = t THEN grants[t] \ REVOKED[t] ELSE grants[u]
    BY <2>2
  <2>4. grants' \in [Tables -> SUBSET WRITES] /\ InsertGoesLast'
    BY <2>1, <2>2, <2>3, RevokingSparesInsert
  <2>5. provisioning'.step = provisioning.step /\ provisioning'.left = provisioning.left \ {t}
    BY <2>2
  <2>6. WorkedOffIsProtected'
    BY <2>2, <2>3, <2>5
  <2>. QED BY <2>2, <2>4, <2>5, <2>6
<1>4. CASE GrantAllTables
  <2>1. /\ provisioning' \in [step : Steps, left : SUBSET Tables]
        /\ provisioning'.step = "GRANTED" /\ provisioning'.left = {}
        /\ UNCHANGED <<existing, protected>>
    BY <1>4, ProgressTyped DEF Steps, GrantAllTables, Idle
  <2>2. \A t \in Tables : grants'[t] = IF t \in existing THEN WRITES ELSE grants[t]
    BY <1>4 DEF GrantAllTables
  <2>3. grants' \in [Tables -> SUBSET WRITES]
    BY <1>4 DEF GrantAllTables
  <2>4. InsertGoesLast'
    BY <2>2 DEF WRITES
  <2>. QED BY <2>1, <2>3, <2>4
<1>5. CASE SetDefaultPrivileges
  <2>1. /\ provisioning' \in [step : Steps, left : SUBSET Tables]
        /\ provisioning'.step = "DEFAULTED" /\ provisioning'.left = {}
    BY <1>5, ProgressTyped DEF Steps, SetDefaultPrivileges, Idle
  <2>2. UNCHANGED <<existing, protected, grants>>
    BY <1>5 DEF SetDefaultPrivileges
  <2>. QED BY <2>1, <2>2
<1>6. CASE appendOnlyRevokes
  <2>1. /\ provisioning' \in [step : Steps, left : SUBSET Tables]
        /\ provisioning'.step = "REVOKING" /\ provisioning'.left = existing \cap DOMAIN REVOKED
    BY <1>6, ListsSpareInsert, ProgressTyped DEF Steps, appendOnlyRevokes
  <2>2. UNCHANGED <<existing, protected, grants>>
    BY <1>6 DEF appendOnlyRevokes
  <2>3. protected \ provisioning'.left = {}
    BY <2>1
  <2>4. GrantsTyped'
    BY <2>1, <2>2, ListsSpareInsert
  <2>5. InsertGoesLast'
    BY <2>2
  <2>6. WorkedOffIsProtected'
    BY <2>2, <2>3
  <2>. QED BY <2>4, <2>5, <2>6
<1>7. CASE FinishProvisioning
  <2>1. /\ provisioning' \in [step : Steps, left : SUBSET Tables]
        /\ provisioning'.step = "IDLE" /\ provisioning'.left = {}
        /\ UNCHANGED <<existing, protected, grants>>
    BY <1>7, ProgressTyped DEF Steps, FinishProvisioning, Idle
  <2>. QED BY <2>1
<1>8. CASE LoseProvisioning
  <2>1. /\ provisioning' \in [step : Steps, left : SUBSET Tables]
        /\ provisioning'.step = "IDLE" /\ provisioning'.left = {}
        /\ UNCHANGED <<existing, protected, grants>>
    BY <1>8, ProgressTyped DEF Steps, LoseProvisioning, Idle
  <2>. QED BY <2>1
<1>9. CASE EnterMaintenance
  <2>1. \A t \in Tables : grants'[t] = IF t \in existing THEN grants[t] \ WRITES ELSE grants[t]
    BY <1>9 DEF EnterMaintenance, REVOKE_SQL
  <2>2. grants' \in [Tables -> SUBSET WRITES]
    BY <1>9 DEF EnterMaintenance, REVOKE_SQL
  <2>3. \A t \in existing : grants[t] \ WRITES = {}
    OBVIOUS
  <2>4. InsertGoesLast'
    BY <2>1, <2>3
  <2>5. provisioning.step = "IDLE" /\ UNCHANGED <<existing, protected, provisioning>>
    BY <1>9 DEF EnterMaintenance
  <2>. QED BY <2>2, <2>4, <2>5
<1>10. CASE LeaveMaintenance
  <2>1. \A t \in Tables : grants'[t] = IF t \in existing THEN Without(RESTORE_REVOKES, t) ELSE grants[t]
    BY <1>10 DEF LeaveMaintenance
  <2>2. grants' \in [Tables -> SUBSET WRITES]
    BY <1>10, WithoutKeepsInsert DEF LeaveMaintenance
  <2>3. InsertGoesLast'
    BY <2>1, WithoutKeepsInsert
  <2>4. provisioning.step = "IDLE" /\ UNCHANGED <<existing, protected, provisioning>>
    BY <1>10 DEF LeaveMaintenance
  <2>. QED BY <2>2, <2>3, <2>4
<1>11. CASE UNCHANGED grantVars
  BY <1>11 DEF grantVars
<1>. QED BY <1>1, <1>2, <1>3, <1>4, <1>5, <1>6, <1>7, <1>8, <1>9, <1>10, <1>11 DEF GrantsNext

\* The invariant holds in every reachable state.
THEOREM GrantsAreConsistent == GrantsSpec => []GrantsInvariant
<1>1. GrantsInit => GrantsInvariant
  BY InitialGrants
<1>2. GrantsInvariant /\ [GrantsNext]_grantVars => GrantsInvariant'
  BY StatementsKeepInvariant
<1>. QED BY <1>1, <1>2, PTL DEF GrantsSpec

\* When maintenance-mode.ts reports that maintenance is on, the role can write nothing at
\* all, although the status only counts tables with INSERT.
THEOREM StatusCanBeTrusted == GrantsSpec => []StatusIsTruthful
<1>1. GrantsInvariant => StatusIsTruthful
  BY DEF GrantsInvariant, InsertGoesLast, StatusIsTruthful, MaintenanceIsOn
<1>. QED BY <1>1, GrantsAreConsistent, PTL

\* A run of provision-app-role.ts that reaches its end leaves every append-only table as
\* its migration left it, however often it was cut short before.
THEOREM ProvisioningIsSafeToRepeat == GrantsSpec => ProvisioningReprotects
<1>1. ASSUME GrantsInvariant, FinishProvisioning
      PROVE  \A t \in protected : grants'[t] \cap REVOKED[t] = {}
  BY <1>1 DEF GrantsInvariant, WorkedOffIsProtected, FinishProvisioning
<1>2. GrantsInvariant /\ [GrantsNext]_grantVars =>
         [FinishProvisioning => \A t \in protected : grants'[t] \cap REVOKED[t] = {}]_grantVars
  BY <1>1
<1>. QED BY <1>2, GrantsAreConsistent, PTL DEF GrantsSpec, ProvisioningReprotects

-----------------------------------------------------------------------------
(* The tenants' connection pool                                            *)

CallSteps == {"NEW", "WAITING", "OPEN", "ENDED"}

CallRow == [step : CallSteps, org : Orgs \cup {None}, conn : Connections \cup {None},
            seen : SUBSET Orgs, wrote : SUBSET Orgs]

PoolTyped ==
    /\ setting \in [Connections -> Orgs \cup {"unset", ""}]
    /\ work \in [Calls -> CallRow]

\* A connection belongs to one open call, and that call has one.
LentOnce ==
    /\ \A k \in Calls : work[k].step = "OPEN" => work[k].conn \in Connections
    /\ \A j, k \in Calls : /\ j # k /\ work[j].step = "OPEN" /\ work[k].step = "OPEN"
                           => work[j].conn # work[k].conn

\* The setting of a lent connection is its call's organisation, and no organisation where
\* the call has none; a connection that nobody has is set to no organisation.
SettingIsTheBorrowers ==
    /\ \A k \in Calls : work[k].step = "OPEN" =>
           \/ work[k].org \in Orgs /\ setting[work[k].conn] = work[k].org
           \/ work[k].org = None /\ setting[work[k].conn] \notin Orgs
    /\ \A c \in Free : setting[c] \notin Orgs

\* Nothing is read before the call has begun.
NewCallsSawNothing ==
    \A k \in Calls : work[k].step = "NEW" => work[k].seen = {} /\ work[k].wrote = {}

PoolInvariant ==
    PoolTyped /\ LentOnce /\ SettingIsTheBorrowers /\ NewCallsSawNothing /\ OwnRowsOnly

-----------------------------------------------------------------------------

LEMMA InitialPool == PoolInit => PoolInvariant
<1> SUFFICES ASSUME PoolInit PROVE PoolInvariant
  OBVIOUS
<1>1. NewCall \in CallRow
  BY DEF NewCall, CallRow, CallSteps
<1>2. \A k \in Calls : work[k] = NewCall
  BY DEF PoolInit
<1>3. PoolTyped
  BY <1>1 DEF PoolInit, PoolTyped
<1>4. \A k \in Calls : work[k].step = "NEW" /\ work[k].seen = {} /\ work[k].wrote = {}
  BY <1>2 DEF NewCall
<1>5. \A c \in Connections : setting[c] = "unset"
  BY DEF PoolInit
<1>6. LentOnce /\ NewCallsSawNothing /\ OwnRowsOnly
  BY <1>4 DEF LentOnce, NewCallsSawNothing, OwnRowsOnly
<1>7. SettingIsTheBorrowers
  BY <1>4, <1>5, OrgsAreOrgs DEF SettingIsTheBorrowers, Free
<1>. QED BY <1>3, <1>6, <1>7 DEF PoolInvariant

\* What a statement of an open call reaches belongs to the call's organisation: row-level
\* security alone is enough, whatever the client extension injects.
LEMMA PolicyConfines ==
    ASSUME PoolInvariant, NEW k \in Calls, work[k].step = "OPEN",
           NEW raw \in BOOLEAN, NEW named \in Orgs \cup {None}
    PROVE  Reached(k, raw, named) \subseteq {work[k].org} \cap Orgs
BY OrgsAreOrgs DEF Reached, policy, PoolInvariant, SettingIsTheBorrowers

LEMMA PoolStepsKeepInvariant ==
    ASSUME PoolInvariant, [PoolNext]_poolVars
    PROVE  PoolInvariant'
<1> USE DEF PoolInvariant
<1>1. ASSUME NEW k \in Calls, request(k) PROVE PoolInvariant'
  <2>1. PICK org \in Orgs \cup {None} :
            work' = [work EXCEPT ![k].step = "WAITING", ![k].org = org]
    BY <1>1 DEF request
  <2>2. work[k] \in CallRow /\ work[k].step = "NEW" /\ setting' = setting
    BY <1>1 DEF request, PoolTyped
  <2>3. \A j \in Calls : j # k => work'[j] = work[j]
    BY <2>1 DEF PoolTyped
  <2>4. /\ work'[k] \in CallRow /\ work'[k].step = "WAITING"
        /\ work'[k].seen = {} /\ work'[k].wrote = {}
    BY <2>1, <2>2 DEF PoolTyped, CallRow, CallSteps, NewCallsSawNothing
  <2>5. PoolTyped'
    BY <2>1, <2>2, <2>4 DEF PoolTyped, CallRow, CallSteps
  <2>6. Free' = Free
    BY <2>2, <2>3, <2>4 DEF Free, Lent
  <2>. QED BY <2>2, <2>3, <2>4, <2>5, <2>6
         DEF LentOnce, SettingIsTheBorrowers, NewCallsSawNothing, OwnRowsOnly
<1>2. ASSUME NEW k \in Calls, connect(k) PROVE PoolInvariant'
  <2>1. PICK c \in Free :
            /\ work' = [work EXCEPT ![k].step = "OPEN", ![k].conn = c]
            /\ setting' = IF work[k].org = None THEN setting
                          ELSE [setting EXCEPT ![c] = work[k].org]
    BY <1>2 DEF connect
  <2>2. work[k] \in CallRow /\ c \in Connections /\ work[k].step = "WAITING"
    BY <1>2, <2>1 DEF PoolTyped, Free, connect
  <2>3. \A j \in Calls : j # k => work'[j] = work[j]
    BY <2>1 DEF PoolTyped
  <2>4. /\ work'[k] \in CallRow /\ work'[k].step = "OPEN" /\ work'[k].conn = c
        /\ work'[k].org = work[k].org /\ work'[k].seen = work[k].seen /\ work'[k].wrote = work[k].wrote
    BY <2>1, <2>2 DEF PoolTyped, CallRow, CallSteps
  <2>5. PoolTyped'
    <3>1. work' \in [Calls -> CallRow]
      BY <2>1, <2>3, <2>4 DEF PoolTyped
    <3>2. setting' \in [Connections -> Orgs \cup {"unset", ""}]
      BY <2>1, <2>2 DEF PoolTyped, CallRow
    <3>. QED BY <3>1, <3>2 DEF PoolTyped
  <2>6. \A d \in Connections : d # c => setting'[d] = setting[d]
    BY <2>1 DEF PoolTyped
  <2>7. \A j \in Calls : work[j].step = "OPEN" => work[j].conn # c
    BY <2>1 DEF Free, Lent
  <2>8. LentOnce'
    BY <2>2, <2>3, <2>4, <2>7 DEF LentOnce
  <2>9. \/ work[k].org \in Orgs /\ setting'[c] = work[k].org
        \/ work[k].org = None /\ setting'[c] \notin Orgs
    BY <2>1, <2>2, OrgsAreOrgs DEF PoolTyped, CallRow, SettingIsTheBorrowers
  <2>10. Free' \subseteq Free \ {c}
    BY <2>2, <2>3, <2>4 DEF Free, Lent
  <2>11. \A d \in Free' : d # c /\ d \in Free /\ d \in Connections
    BY <2>10 DEF Free
  <2>12. SettingIsTheBorrowers'
    <3>1. ASSUME NEW j \in Calls, work'[j].step = "OPEN"
          PROVE  \/ work'[j].org \in Orgs /\ setting'[work'[j].conn] = work'[j].org
                 \/ work'[j].org = None /\ setting'[work'[j].conn] \notin Orgs
      <4>1. CASE j = k
        BY <4>1, <2>4, <2>9
      <4>2. CASE j # k
        BY <4>2, <3>1, <2>3, <2>6, <2>7 DEF SettingIsTheBorrowers, LentOnce
      <4>. QED BY <4>1, <4>2
    <3>2. \A d \in Free' : setting'[d] \notin Orgs
      BY <2>6, <2>11 DEF SettingIsTheBorrowers
    <3>. QED BY <3>1, <3>2 DEF SettingIsTheBorrowers
  <2>13. NewCallsSawNothing' /\ OwnRowsOnly'
    BY <2>3, <2>4 DEF NewCallsSawNothing, OwnRowsOnly
  <2>. QED BY <2>5, <2>8, <2>12, <2>13
<1>3. ASSUME NEW k \in Calls, poolTimeout(k) PROVE PoolInvariant'
  <2>1. work' = [work EXCEPT ![k].step = "ENDED"] /\ setting' = setting
    BY <1>3 DEF poolTimeout
  <2>2. work[k] \in CallRow /\ work[k].step = "WAITING"
    BY <1>3 DEF PoolTyped, poolTimeout
  <2>3. \A j \in Calls : j # k => work'[j] = work[j]
    BY <2>1 DEF PoolTyped
  <2>4. /\ work'[k] \in CallRow /\ work'[k].step = "ENDED" /\ work'[k].org = work[k].org
        /\ work'[k].seen = work[k].seen /\ work'[k].wrote = work[k].wrote
    BY <2>1, <2>2 DEF PoolTyped, CallRow, CallSteps
  <2>5. PoolTyped'
    BY <2>1, <2>3, <2>4 DEF PoolTyped
  <2>6. Free' = Free
    BY <2>2, <2>3, <2>4 DEF Free, Lent
  <2>. QED BY <2>1, <2>3, <2>4, <2>5, <2>6
         DEF LentOnce, SettingIsTheBorrowers, NewCallsSawNothing, OwnRowsOnly
<1>4. ASSUME NEW k \in Calls, statement(k) PROVE PoolInvariant'
  <2>1. PICK raw \in BOOLEAN, named \in Orgs \cup {None} :
            \/ work' = [work EXCEPT ![k].seen = work[k].seen \cup Reached(k, raw, named)]
            \/ work' = [work EXCEPT ![k].wrote = work[k].wrote \cup Reached(k, raw, named)]
    BY <1>4 DEF statement
  <2>2. work[k] \in CallRow /\ work[k].step = "OPEN" /\ setting' = setting
    BY <1>4 DEF PoolTyped, statement
  <2>3. Reached(k, raw, named) \subseteq {work[k].org} \cap Orgs
    BY <2>2, PolicyConfines
  <2>4. \A j \in Calls : j # k => work'[j] = work[j]
    BY <2>1 DEF PoolTyped
  <2>5. /\ work'[k] \in CallRow /\ work'[k].step = "OPEN" /\ work'[k].org = work[k].org
        /\ work'[k].conn = work[k].conn
        /\ work'[k].seen \cup work'[k].wrote \subseteq {work[k].org}
    <3>1. CASE work' = [work EXCEPT ![k].seen = work[k].seen \cup Reached(k, raw, named)]
      <4>1. work'[k] = [work[k] EXCEPT !.seen = work[k].seen \cup Reached(k, raw, named)]
        BY <3>1 DEF PoolTyped
      <4>. QED BY <4>1, <2>2, <2>3 DEF CallRow, OwnRowsOnly
    <3>2. CASE work' = [work EXCEPT ![k].wrote = work[k].wrote \cup Reached(k, raw, named)]
      <4>1. work'[k] = [work[k] EXCEPT !.wrote = work[k].wrote \cup Reached(k, raw, named)]
        BY <3>2 DEF PoolTyped
      <4>. QED BY <4>1, <2>2, <2>3 DEF CallRow, OwnRowsOnly
    <3>. QED BY <2>1, <3>1, <3>2
  <2>6. PoolTyped'
    BY <2>1, <2>2, <2>4, <2>5 DEF PoolTyped
  <2>7. Free' = Free
    BY <2>2, <2>4, <2>5 DEF Free, Lent
  <2>. QED BY <2>2, <2>4, <2>5, <2>6, <2>7
         DEF LentOnce, SettingIsTheBorrowers, NewCallsSawNothing, OwnRowsOnly
<1>5. ASSUME NEW k \in Calls, end(k) PROVE PoolInvariant'
  <2>1. /\ \/ work' = [work EXCEPT ![k].step = "ENDED"]
           \/ work' = [work EXCEPT ![k].step = "ENDED", ![k].wrote = {}]
        /\ setting' = IF work[k].org = None THEN setting
                      ELSE [setting EXCEPT ![work[k].conn] = ""]
    BY <1>5 DEF end, Reverted
  <2>2. work[k] \in CallRow /\ work[k].step = "OPEN" /\ work[k].conn \in Connections
    BY <1>5 DEF PoolTyped, LentOnce, end
  <2>3. \A j \in Calls : j # k => work'[j] = work[j]
    BY <2>1 DEF PoolTyped
  <2>4. /\ work'[k] \in CallRow /\ work'[k].step = "ENDED" /\ work'[k].org = work[k].org
        /\ work'[k].seen \subseteq work[k].seen /\ work'[k].wrote \subseteq work[k].wrote
    <3>1. CASE work' = [work EXCEPT ![k].step = "ENDED"]
      <4>1. work'[k] = [work[k] EXCEPT !.step = "ENDED"]
        BY <3>1 DEF PoolTyped
      <4>. QED BY <4>1, <2>2 DEF CallRow, CallSteps
    <3>2. CASE work' = [work EXCEPT ![k].step = "ENDED", ![k].wrote = {}]
      <4>1. work'[k] = [work[k] EXCEPT !.step = "ENDED", !.wrote = {}]
        BY <3>2 DEF PoolTyped
      <4>. QED BY <4>1, <2>2 DEF CallRow, CallSteps
    <3>. QED BY <2>1, <3>1, <3>2
  <2>5. PoolTyped'
    <3>1. work' \in [Calls -> CallRow]
      BY <2>1, <2>3, <2>4 DEF PoolTyped
    <3>2. setting' \in [Connections -> Orgs \cup {"unset", ""}]
      BY <2>1, <2>2 DEF PoolTyped
    <3>. QED BY <3>1, <3>2 DEF PoolTyped
  <2>6. \A d \in Connections : d # work[k].conn => setting'[d] = setting[d]
    BY <2>1 DEF PoolTyped
  <2>7. setting'[work[k].conn] \notin Orgs
    BY <2>1, <2>2, OrgsAreOrgs DEF PoolTyped, SettingIsTheBorrowers
  <2>8. LentOnce'
    BY <2>3, <2>4 DEF LentOnce
  <2>9. \A d \in Free' : d \in Connections /\ (d = work[k].conn \/ d \in Free)
    BY <2>3, <2>4 DEF Free, Lent
  <2>10. SettingIsTheBorrowers'
    <3>1. ASSUME NEW j \in Calls, work'[j].step = "OPEN"
          PROVE  \/ work'[j].org \in Orgs /\ setting'[work'[j].conn] = work'[j].org
                 \/ work'[j].org = None /\ setting'[work'[j].conn] \notin Orgs
      <4>1. j # k /\ work'[j] = work[j] /\ work[j].conn # work[k].conn /\ work[j].conn \in Connections
        BY <3>1, <2>2, <2>3, <2>4 DEF LentOnce
      <4>2. setting'[work[j].conn] = setting[work[j].conn]
        BY <4>1, <2>6
      <4>. QED BY <3>1, <4>1, <4>2 DEF SettingIsTheBorrowers
    <3>2. \A d \in Free' : setting'[d] \notin Orgs
      BY <2>6, <2>7, <2>9 DEF SettingIsTheBorrowers
    <3>. QED BY <3>1, <3>2 DEF SettingIsTheBorrowers
  <2>11. NewCallsSawNothing' /\ OwnRowsOnly'
    BY <2>3, <2>4 DEF NewCallsSawNothing, OwnRowsOnly
  <2>. QED BY <2>5, <2>8, <2>10, <2>11
<1>6. CASE UNCHANGED poolVars
  BY <1>6 DEF poolVars, PoolTyped, LentOnce, SettingIsTheBorrowers, NewCallsSawNothing,
              OwnRowsOnly, Free, Lent
<1>. QED BY <1>1, <1>2, <1>3, <1>4, <1>5, <1>6 DEF PoolNext

\* However connections are lent and given back, a call reads and writes rows of its own
\* organisation only, and none where it has no organisation (withTenant, the policies).
THEOREM OrganisationsAreApart == PoolSpec => []OwnRowsOnly
<1>1. PoolInit => PoolInvariant
  BY InitialPool
<1>2. PoolInvariant /\ [PoolNext]_poolVars => PoolInvariant'
  BY PoolStepsKeepInvariant
<1>3. PoolInvariant => OwnRowsOnly
  BY DEF PoolInvariant
<1>. QED BY <1>1, <1>2, <1>3, PTL DEF PoolSpec

-----------------------------------------------------------------------------
(* Numbers and audit positions                                             *)

LedgerTyped ==
    /\ DOMAIN call = Requests
    /\ \A r \in Requests : /\ DOMAIN call[r] = {"state", "order", "plan", "drawn"}
                           /\ call[r].drawn \in [Series -> Seq(Nat)]
    /\ DOMAIN holder = Resources
    /\ nextValue \in [SequenceKind -> Nat]
    /\ published \in [Series -> Seq(Nat)]

\* The lock of a series is held by a transaction under way, and who has drawn from
\* the series holds it.
SeriesAreLocked ==
    /\ \A s \in Series : holder[s] # Nobody => holder[s] \in Requests /\ Running(holder[s])
    /\ \A r \in Requests, s \in Series : Running(r) /\ call[r].drawn[s] # <<>> => holder[s] = r

\* What is drawn goes on where the committed rows end.
DrawnFollows ==
    \A r \in Requests, s \in Series : Running(r) =>
        \A k \in DOMAIN call[r].drawn[s] : call[r].drawn[s][k] = Len(published[s]) + k

\* A counter stands after what is committed and what its holder has drawn.
CountersFollow ==
    \A kind \in SequenceKind :
        LET s == Number(kind)
        IN  nextValue[kind] = 1 + Len(published[s])
                + (IF holder[s] = Nobody THEN 0 ELSE Len(call[holder[s]].drawn[s]))

LedgerInvariant ==
    LedgerTyped /\ SeriesAreLocked /\ DrawnFollows /\ CountersFollow /\ NumberedInCommitOrder

\* Every number has a series of its own, and the audit log another.
LEMMA SeriesDiffer ==
    /\ Series \subseteq Resources
    /\ Audit \in Series
    /\ \A kind \in SequenceKind : Number(kind) \in Series /\ Number(kind) # Audit
    /\ \A j, k \in SequenceKind : Number(j) = Number(k) => j = k
    /\ \A s \in Series : s = Audit \/ \E kind \in SequenceKind : s = Number(kind) /\ s[2] = kind
BY DEF Series, Resources, Audit, Number, SequenceKind

LEMMA LedgerStarts == LedgerInit => LedgerInvariant
<1> SUFFICES ASSUME LedgerInit PROVE LedgerInvariant
  OBVIOUS
<1>1. NothingDrawn \in [Series -> Seq(Nat)] /\ \A s \in Series : NothingDrawn[s] = <<>>
  BY DEF NothingDrawn
<1>2. LedgerTyped
  BY <1>1 DEF LedgerInit, LedgerTyped
<1>3. \A s \in Series : holder[s] = Nobody
  BY SeriesDiffer DEF LedgerInit
<1>4. \A kind \in SequenceKind : nextValue[kind] = 1 + Len(published[Number(kind)]) + 0
  BY SeriesDiffer DEF LedgerInit
<1>5. \A r \in Requests : ~Running(r)
  BY DEF LedgerInit, Running
<1>6. CountersFollow
  <2>1. \A kind \in SequenceKind : Number(kind) \in Series
    BY SeriesDiffer
  <2>2. \A kind \in SequenceKind : holder[Number(kind)] = Nobody
    BY <1>3, <2>1
  <2>3. QED
    BY <1>4, <2>2 DEF CountersFollow
<1>7. NumberedInCommitOrder
  BY DEF LedgerInit, NumberedInCommitOrder
<1>8. QED
  BY <1>2, <1>3, <1>5, <1>6, <1>7 DEF LedgerInvariant, SeriesAreLocked, DrawnFollows

\* One more than the highest position that is committed or drawn.
LEMMA HighestPosition ==
    ASSUME NEW n \in Nat, NEW m \in Nat,
           NEW rows \in Seq(Nat), Len(rows) = n, \A k \in 1..n : rows[k] = k,
           NEW drawn \in Seq(Nat), Len(drawn) = m, \A k \in 1..m : drawn[k] = n + k
    PROVE  Max({0} \cup ToSet(rows) \cup ToSet(drawn)) = n + m
<1> DEFINE seen == {0} \cup ToSet(rows) \cup ToSet(drawn)
<1>1. ASSUME NEW x \in seen PROVE x \in Nat /\ x <= n + m
  <2>1. CASE x = 0
    BY <2>1
  <2>2. CASE x \in ToSet(rows)
    BY <2>2 DEF ToSet
  <2>3. CASE x \in ToSet(drawn)
    BY <2>3 DEF ToSet
  <2>4. QED
    BY <1>1, <2>1, <2>2, <2>3
<1>2. n + m \in seen
  <2>1. CASE m > 0
    <3>1. m \in DOMAIN drawn /\ drawn[m] = n + m
      BY <2>1
    <3>2. QED
      BY <3>1 DEF ToSet
  <2>2. CASE m = 0 /\ n > 0
    <3>1. n \in DOMAIN rows /\ rows[n] = n + m
      BY <2>2
    <3>2. QED
      BY <3>1 DEF ToSet
  <2>3. CASE m = 0 /\ n = 0
    BY <2>3
  <2>4. QED
    BY <2>1, <2>2, <2>3
<1> HIDE DEF seen
<1>3. \A y \in seen : n + m >= y
  BY <1>1
<1>4. Max(seen) \in seen /\ \A y \in seen : Max(seen) >= y
  BY <1>2, <1>3 DEF Max
<1>5. Max(seen) \in Nat /\ Max(seen) <= n + m /\ Max(seen) >= n + m
  BY <1>1, <1>2, <1>4
<1>6. Max(seen) = n + m
  BY <1>5
<1>7. QED
  BY <1>6 DEF seen

\* Who may take a number's lock finds the counter after the committed numbers and its own.
LEMMA CounterOf ==
    ASSUME LedgerInvariant, NEW r \in Requests, Running(r), NEW kind \in SequenceKind,
           holder[Number(kind)] \in {Nobody, r}
    PROVE  nextValue[kind]
               = 1 + Len(published[Number(kind)]) + Len(call[r].drawn[Number(kind)])
<1> DEFINE s == Number(kind)
<1>1. s \in Series
  BY SeriesDiffer
<1>2. CASE holder[s] = r
  BY <1>2, NobodyIsNoRequest DEF LedgerInvariant, CountersFollow
<1>3. CASE holder[s] = Nobody
  <2>1. call[r].drawn[s] = <<>>
    BY <1>1, <1>3, NobodyIsNoRequest DEF LedgerInvariant, SeriesAreLocked
  <2>2. nextValue[kind] = 1 + Len(published[s]) + 0
    BY <1>3 DEF LedgerInvariant, CountersFollow
  <2>3. Len(call[r].drawn[s]) = 0
    BY <2>1
  <2>4. QED
    BY <2>2, <2>3
<1>4. QED
  BY <1>2, <1>3

\* The step draws the value after the last one of the series.
LEMMA DrawsTheNext ==
    ASSUME LedgerInvariant, NEW r \in Requests, NEW s \in Series, Running(r), MayTake(r, s)
    PROVE  NextOf(r, s) = Len(published[s]) + Len(call[r].drawn[s]) + 1
<1>1. /\ published[s] \in Seq(Nat) /\ call[r].drawn[s] \in Seq(Nat)
      /\ Len(published[s]) \in Nat /\ Len(call[r].drawn[s]) \in Nat
  BY DEF LedgerInvariant, LedgerTyped
<1>2. /\ \A k \in 1..Len(published[s]) : published[s][k] = k
      /\ \A k \in 1..Len(call[r].drawn[s]) : call[r].drawn[s][k] = Len(published[s]) + k
  BY <1>1 DEF LedgerInvariant, NumberedInCommitOrder, DrawnFollows
<1>s. \A i, j \in Nat : 1 + (i + j) = i + j + 1 /\ 1 + i + j = i + j + 1
  OBVIOUS
<1>3. CASE s = Audit
  <2>1. Max({0} \cup ToSet(published[s]) \cup ToSet(call[r].drawn[s]))
            = Len(published[s]) + Len(call[r].drawn[s])
    BY <1>1, <1>2, HighestPosition
  <2>2. NextOf(r, s) = 1 + (Len(published[s]) + Len(call[r].drawn[s]))
    BY <1>3, <2>1 DEF NextOf, nextSequence
  <2>3. QED
    BY <1>1, <1>s, <2>2
<1>4. CASE s # Audit
  <2>1. PICK kind \in SequenceKind : s = Number(kind) /\ s[2] = kind
    BY <1>4, SeriesDiffer
  <2>2. nextValue[kind] = 1 + Len(published[s]) + Len(call[r].drawn[s])
    BY <2>1, CounterOf DEF MayTake
  <2>3. NextOf(r, s) = nextValue[kind]
    BY <1>4, <2>1 DEF NextOf, allocateDocumentNumber
  <2>4. QED
    BY <1>1, <1>s, <2>2, <2>3
<1>5. QED
  BY <1>3, <1>4

\* The values of a call stay consecutive.
LEMMA ConsecutiveGrows ==
    ASSUME NEW n \in Nat, NEW values \in Seq(Nat), \A k \in DOMAIN values : values[k] = n + k
    PROVE  LET grown == Append(values, n + Len(values) + 1)
           IN  /\ grown \in Seq(Nat) /\ Len(grown) = Len(values) + 1
               /\ \A k \in DOMAIN grown : grown[k] = n + k
<1> DEFINE grown == Append(values, n + Len(values) + 1)
<1>1. Len(values) \in Nat /\ n + Len(values) + 1 \in Nat
  OBVIOUS
<1>2. grown \in Seq(Nat) /\ Len(grown) = Len(values) + 1
  BY <1>1
<1>3. \A k \in DOMAIN values : grown[k] = values[k]
  OBVIOUS
<1>4. grown[Len(values) + 1] = n + Len(values) + 1
  OBVIOUS
<1>5. \A k \in DOMAIN grown : k \in DOMAIN values \/ k = Len(values) + 1
  BY <1>1, <1>2
<1> HIDE DEF grown
<1>6. ASSUME NEW k \in DOMAIN grown PROVE grown[k] = n + k
  <2>1. CASE k \in DOMAIN values
    BY <1>3, <2>1
  <2>2. CASE k = Len(values) + 1
    BY <1>1, <1>4, <2>2
  <2>3. QED
    BY <1>5, <2>1, <2>2
<1>7. QED
  BY <1>2, <1>6 DEF grown

LEMMA TakingKeeps ==
    ASSUME LedgerInvariant, NEW r \in Requests, Take(r)
    PROVE  LedgerInvariant'
<1> DEFINE res == Head(call[r].plan)
           d   == Drawn(r, res)
<1>t. LedgerTyped /\ call[r].drawn \in [Series -> Seq(Nat)]
  BY DEF LedgerInvariant, LedgerTyped
<1>1. /\ Running(r) /\ MayTake(r, res)
      /\ holder' = [holder EXCEPT ![res] = r]
      /\ nextValue' = [kind \in SequenceKind |->
                          nextValue[kind] + (IF res = Number(kind) THEN 1 ELSE 0)]
      /\ call' = [call EXCEPT ![r].plan = Tail(@), ![r].drawn = d]
      /\ published' = published
  BY DEF Take
<1> HIDE DEF res
<1>2. res \in Series => NextOf(r, res) = Len(published[res]) + Len(call[r].drawn[res]) + 1
  BY <1>1, DrawsTheNext
<1>3. \A s \in Series : /\ call[r].drawn[s] \in Seq(Nat) /\ published[s] \in Seq(Nat)
                       /\ Len(call[r].drawn[s]) \in Nat /\ Len(published[s]) \in Nat
                       /\ Len(published[s]) + Len(call[r].drawn[s]) + 1 \in Nat
  BY <1>t DEF LedgerTyped
<1>4. /\ d \in [Series -> Seq(Nat)]
      /\ \A s \in Series : s # res => d[s] = call[r].drawn[s]
      /\ res \in Series =>
            d[res] = Append(call[r].drawn[res], Len(published[res]) + Len(call[r].drawn[res]) + 1)
  <2>1. CASE res \in Series
    <3>1. NextOf(r, res) \in Nat
      BY <1>2, <1>3, <2>1
    <3>2. d = [call[r].drawn EXCEPT ![res] = Append(call[r].drawn[res], NextOf(r, res))]
      BY <2>1 DEF Drawn
    <3> HIDE DEF d
    <3>3. Append(call[r].drawn[res], NextOf(r, res)) \in Seq(Nat)
      <4>1. call[r].drawn[res] \in Seq(Nat)
        BY <1>3, <2>1
      <4>2. QED
        BY <3>1, <4>1
    <3>4. /\ d \in [Series -> Seq(Nat)]
          /\ \A s \in Series : s # res => d[s] = call[r].drawn[s]
          /\ d[res] = Append(call[r].drawn[res], NextOf(r, res))
      BY <1>t, <2>1, <3>2, <3>3
    <3>5. QED
      BY <1>2, <2>1, <3>4
  <2>2. CASE res \notin Series
    BY <1>t, <2>2 DEF Drawn
  <2>3. QED
    BY <2>1, <2>2
<1> HIDE DEF d
<1>5. /\ DOMAIN call' = Requests
      /\ \A q \in Requests : q # r => call'[q] = call[q]
      /\ DOMAIN call'[r] = {"state", "order", "plan", "drawn"}
      /\ call'[r].drawn = d /\ call'[r].state = "RUNNING"
  BY <1>t, <1>1 DEF LedgerTyped, Running
<1>6. /\ DOMAIN holder' = Resources
      /\ \A s \in Series : s # res => holder'[s] = holder[s]
      /\ res \in Series => holder'[res] = r
  BY <1>t, <1>1, SeriesDiffer DEF LedgerTyped
<1>7. \A q \in Requests : call'[q].state = "RUNNING" <=> Running(q)
  BY <1>1, <1>5 DEF Running
<1>8. LedgerTyped'
  <2>1. nextValue' \in [SequenceKind -> Nat]
    BY <1>t, <1>1 DEF LedgerTyped
  <2>2. \A q \in Requests : DOMAIN call'[q] = {"state", "order", "plan", "drawn"}
                                /\ call'[q].drawn \in [Series -> Seq(Nat)]
    BY <1>t, <1>4, <1>5 DEF LedgerTyped
  <2>3. QED
    BY <1>t, <1>1, <1>5, <1>6, <2>1, <2>2 DEF LedgerTyped
<1>9. SeriesAreLocked'
  <2>1. ASSUME NEW s \in Series, holder'[s] # Nobody
        PROVE  holder'[s] \in Requests /\ call'[holder'[s]].state = "RUNNING"
    <3>1. CASE s = res
      BY <1>5, <1>6, <3>1
    <3>2. CASE s # res
      <4>1. holder[s] \in Requests /\ Running(holder[s]) /\ holder'[s] = holder[s]
        BY <1>6, <2>1, <3>2 DEF LedgerInvariant, SeriesAreLocked
      <4>2. QED
        BY <1>7, <4>1
    <3>3. QED
      BY <3>1, <3>2
  <2>2. ASSUME NEW q \in Requests, NEW s \in Series, Running(q), call'[q].drawn[s] # <<>>
        PROVE  holder'[s] = q
    <3>1. CASE s = res
      <4>1. q # r => holder[s] = q
        BY <1>5, <1>7, <2>2 DEF LedgerInvariant, SeriesAreLocked
      <4>2. QED
        BY <1>1, <1>6, <3>1, <4>1, NobodyIsNoRequest DEF MayTake
    <3>2. CASE s # res
      <4>1. call'[q].drawn[s] = call[q].drawn[s]
        BY <1>4, <1>5, <3>2
      <4>2. QED
        BY <1>6, <1>7, <2>2, <3>2, <4>1 DEF LedgerInvariant, SeriesAreLocked
    <3>3. QED
      BY <3>1, <3>2
  <2>3. QED
    BY <1>7, <2>1, <2>2 DEF SeriesAreLocked, Running
<1>10. DrawnFollows'
  <2>1. ASSUME NEW q \in Requests, NEW s \in Series, Running(q)
        PROVE  \A k \in DOMAIN call'[q].drawn[s] : call'[q].drawn[s][k] = Len(published[s]) + k
    <3>1. \A j \in DOMAIN call[q].drawn[s] : call[q].drawn[s][j] = Len(published[s]) + j
      BY <2>1 DEF LedgerInvariant, DrawnFollows
    <3>2. CASE q = r /\ s = res
      <4>1. call'[q].drawn[s]
                = Append(call[q].drawn[s], Len(published[s]) + Len(call[q].drawn[s]) + 1)
        BY <1>4, <1>5, <3>2
      <4>2. call[q].drawn[s] \in Seq(Nat) /\ Len(published[s]) \in Nat
        BY <1>3, <3>2
      <4> DEFINE n == Len(published[s])
                 values == call[q].drawn[s]
      <4> HIDE DEF n, values
      <4>3. \A k \in DOMAIN Append(values, n + Len(values) + 1) :
                Append(values, n + Len(values) + 1)[k] = n + k
        <5>1. n \in Nat /\ values \in Seq(Nat) /\ \A k \in DOMAIN values : values[k] = n + k
          BY <3>1, <4>2 DEF n, values
        <5>2. QED
          BY <5>1, ConsecutiveGrows
      <4>4. call'[q].drawn[s] = Append(values, n + Len(values) + 1)
        BY <4>1 DEF n, values
      <4>5. \A k \in DOMAIN call'[q].drawn[s] : call'[q].drawn[s][k] = n + k
        BY <4>3, <4>4
      <4>6. QED
        BY <4>5 DEF n
    <3>3. CASE ~(q = r /\ s = res)
      <4>1. call'[q].drawn[s] = call[q].drawn[s]
        BY <1>4, <1>5, <3>3
      <4>2. QED
        BY <3>1, <4>1
    <3>4. QED
      BY <3>2, <3>3
  <2>2. published' = published
    BY <1>1
  <2>3. QED
    BY <1>7, <2>1, <2>2 DEF DrawnFollows, Running
<1>11. CountersFollow'
  <2>1. ASSUME NEW kind \in SequenceKind
        PROVE  LET s == Number(kind)
               IN  nextValue'[kind] = 1 + Len(published[s])
                       + (IF holder'[s] = Nobody THEN 0 ELSE Len(call'[holder'[s]].drawn[s]))
    <3> DEFINE s == Number(kind)
    <3>0. s \in Series
      BY SeriesDiffer
    <3>1. CASE s = res
      <4>1. nextValue[kind] = 1 + Len(published[s]) + Len(call[r].drawn[s])
        BY <1>1, <3>1, CounterOf DEF MayTake
      <4>2. nextValue'[kind] = nextValue[kind] + 1
        BY <1>1, <3>1
      <4>3. holder'[s] = r /\ r # Nobody
        BY <1>6, <3>0, <3>1, NobodyIsNoRequest
      <4>4. Len(call'[r].drawn[s]) = Len(call[r].drawn[s]) + 1
        BY <1>3, <1>4, <1>5, <3>0, <3>1
      <4>5. \A i, j \in Nat : (1 + i + j) + 1 = 1 + i + (j + 1)
        OBVIOUS
      <4>6. Len(published[s]) \in Nat /\ Len(call[r].drawn[s]) \in Nat
        BY <1>3, <3>0
      <4> HIDE DEF s
      <4>7. nextValue'[kind] = 1 + Len(published[s]) + Len(call'[holder'[s]].drawn[s])
        BY <4>1, <4>2, <4>3, <4>4, <4>5, <4>6
      <4>8. QED
        BY <4>3, <4>7 DEF s
    <3>2. CASE s # res
      <4>1. nextValue'[kind] = nextValue[kind] /\ holder'[s] = holder[s]
        BY <1>t, <1>1, <1>6, <3>0, <3>2 DEF LedgerTyped
      <4>2. holder[s] # Nobody => call'[holder[s]].drawn[s] = call[holder[s]].drawn[s]
        BY <1>4, <1>5, <3>0, <3>2 DEF LedgerInvariant, SeriesAreLocked
      <4>3. QED
        BY <4>1, <4>2 DEF LedgerInvariant, CountersFollow
    <3>3. QED
      BY <3>1, <3>2
  <2>2. QED
    BY <1>1, <2>1 DEF CountersFollow
<1>12. NumberedInCommitOrder'
  BY <1>1 DEF LedgerInvariant, NumberedInCommitOrder
<1>13. QED
  BY <1>8, <1>9, <1>10, <1>11, <1>12 DEF LedgerInvariant

\* The committed rows go on with the values of the call that commits.
LEMMA ConsecutiveJoins ==
    ASSUME NEW rows \in Seq(Nat), \A k \in DOMAIN rows : rows[k] = k,
           NEW drawn \in Seq(Nat), \A k \in DOMAIN drawn : drawn[k] = Len(rows) + k
    PROVE  /\ rows \o drawn \in Seq(Nat) /\ Len(rows \o drawn) = Len(rows) + Len(drawn)
           /\ \A k \in DOMAIN (rows \o drawn) : (rows \o drawn)[k] = k
           /\ drawn = <<>> => rows \o drawn = rows
<1>1. Len(rows) \in Nat /\ Len(drawn) \in Nat
  OBVIOUS
<1>2. rows \o drawn \in Seq(Nat) /\ Len(rows \o drawn) = Len(rows) + Len(drawn)
  OBVIOUS
<1>3. ASSUME NEW k \in DOMAIN (rows \o drawn) PROVE (rows \o drawn)[k] = k
  <2>1. k \in 1..(Len(rows) + Len(drawn))
    BY <1>2
  <2>2. CASE k <= Len(rows)
    <3>1. k \in DOMAIN rows /\ (rows \o drawn)[k] = rows[k]
      BY <1>1, <2>1, <2>2
    <3>2. QED
      BY <3>1
  <2>3. CASE ~(k <= Len(rows))
    <3>1. k - Len(rows) \in DOMAIN drawn /\ (rows \o drawn)[k] = drawn[k - Len(rows)]
      BY <1>1, <2>1, <2>3
    <3>2. QED
      BY <1>1, <2>1, <3>1
  <2>4. QED
    BY <2>2, <2>3
<1>4. drawn = <<>> => rows \o drawn = rows
  OBVIOUS
<1>5. QED
  BY <1>2, <1>3, <1>4

\* An ending gives back the caller's locks and nobody else's.
LEMMA EndingReleases ==
    ASSUME LedgerInvariant, NEW r \in Requests, Running(r), holder' = Released(r),
           DOMAIN call' = Requests, \A q \in Requests : q # r => call'[q] = call[q],
           call'[r].state # "RUNNING"
    PROVE  /\ SeriesAreLocked' /\ DOMAIN holder' = Resources
           /\ \A q \in Requests : call'[q].state = "RUNNING" => q # r /\ Running(q)
           /\ \A s \in Series :
                \/ holder[s] = r /\ holder'[s] = Nobody
                \/ holder[s] # r /\ holder'[s] = holder[s] /\ call[r].drawn[s] = <<>>
<1>1. DOMAIN holder' = Resources /\ \A s \in Series :
          holder'[s] = IF holder[s] = r THEN Nobody ELSE holder[s]
  BY SeriesDiffer DEF Released
<1>2. \A q \in Requests : call'[q].state = "RUNNING" => q # r /\ Running(q)
  BY DEF Running
<1>3. \A s \in Series : holder[s] # r => call[r].drawn[s] = <<>>
  BY DEF LedgerInvariant, SeriesAreLocked
<1>4. ASSUME NEW s \in Series, holder'[s] # Nobody
      PROVE  holder'[s] \in Requests /\ call'[holder'[s]].state = "RUNNING"
  <2>1. holder'[s] = holder[s] /\ holder[s] # r /\ holder[s] # Nobody
    BY <1>1, <1>4
  <2>2. holder[s] \in Requests /\ call[holder[s]].state = "RUNNING"
    BY <2>1 DEF LedgerInvariant, SeriesAreLocked, Running
  <2>3. QED
    BY <2>1, <2>2
<1>5. ASSUME NEW q \in Requests, NEW s \in Series, call'[q].state = "RUNNING",
             call'[q].drawn[s] # <<>>
      PROVE  holder'[s] = q
  <2>1. q # r /\ Running(q) /\ call[q].drawn[s] # <<>>
    BY <1>2, <1>5
  <2>2. holder[s] = q
    BY <2>1 DEF LedgerInvariant, SeriesAreLocked
  <2>3. QED
    BY <1>1, <2>1, <2>2
<1>6. SeriesAreLocked'
  BY <1>4, <1>5 DEF SeriesAreLocked, Running
<1>7. QED
  BY <1>1, <1>2, <1>3, <1>6

LEMMA CommitKeeps ==
    ASSUME LedgerInvariant, NEW r \in Requests, Commit(r)
    PROVE  LedgerInvariant'
<1>t. LedgerTyped /\ call[r].drawn \in [Series -> Seq(Nat)]
  BY DEF LedgerInvariant, LedgerTyped
<1>1. /\ Running(r) /\ holder' = Released(r) /\ UNCHANGED nextValue
      /\ published' = [s \in Series |-> published[s] \o call[r].drawn[s]]
      /\ call' = [call EXCEPT ![r].state = "COMMITTED"]
  BY DEF Commit
<1>2. /\ DOMAIN call' = Requests /\ \A q \in Requests : q # r => call'[q] = call[q]
      /\ DOMAIN call'[r] = {"state", "order", "plan", "drawn"}
      /\ call'[r].drawn = call[r].drawn /\ call'[r].state # "RUNNING"
  BY <1>t, <1>1 DEF LedgerTyped
<1>3. /\ SeriesAreLocked' /\ DOMAIN holder' = Resources
      /\ \A q \in Requests : call'[q].state = "RUNNING" => q # r /\ Running(q)
      /\ \A s \in Series :
           \/ holder[s] = r /\ holder'[s] = Nobody
           \/ holder[s] # r /\ holder'[s] = holder[s] /\ call[r].drawn[s] = <<>>
  BY <1>1, <1>2, EndingReleases
<1>4. ASSUME NEW s \in Series
      PROVE  /\ published'[s] \in Seq(Nat)
             /\ Len(published'[s]) = Len(published[s]) + Len(call[r].drawn[s])
             /\ \A k \in DOMAIN published'[s] : published'[s][k] = k
             /\ call[r].drawn[s] = <<>> => published'[s] = published[s]
  <2>1. /\ published[s] \in Seq(Nat) /\ call[r].drawn[s] \in Seq(Nat)
        /\ \A k \in DOMAIN published[s] : published[s][k] = k
        /\ \A k \in DOMAIN call[r].drawn[s] : call[r].drawn[s][k] = Len(published[s]) + k
    BY <1>t, <1>1 DEF LedgerInvariant, LedgerTyped, NumberedInCommitOrder, DrawnFollows
  <2>2. published'[s] = published[s] \o call[r].drawn[s]
    BY <1>1
  <2>3. /\ published[s] \o call[r].drawn[s] \in Seq(Nat)
        /\ Len(published[s] \o call[r].drawn[s]) = Len(published[s]) + Len(call[r].drawn[s])
        /\ \A k \in DOMAIN (published[s] \o call[r].drawn[s]) :
                (published[s] \o call[r].drawn[s])[k] = k
        /\ call[r].drawn[s] = <<>> => published[s] \o call[r].drawn[s] = published[s]
    BY <2>1, ConsecutiveJoins
  <2>4. QED
    BY <2>2, <2>3
<1>5. LedgerTyped'
  <2>1. published' \in [Series -> Seq(Nat)]
    BY <1>1, <1>4
  <2>2. \A q \in Requests : DOMAIN call'[q] = {"state", "order", "plan", "drawn"}
                                /\ call'[q].drawn \in [Series -> Seq(Nat)]
    BY <1>t, <1>2 DEF LedgerTyped
  <2>3. QED
    BY <1>t, <1>1, <1>2, <1>3, <2>1, <2>2 DEF LedgerTyped
<1>6. DrawnFollows'
  <2>1. ASSUME NEW q \in Requests, NEW s \in Series, call'[q].state = "RUNNING",
               NEW k \in DOMAIN call'[q].drawn[s]
        PROVE  call'[q].drawn[s][k] = Len(published'[s]) + k
    <3>1. q # r /\ Running(q) /\ call'[q] = call[q]
      BY <1>2, <1>3, <2>1
    <3>2. call[q].drawn[s][k] = Len(published[s]) + k
      BY <2>1, <3>1 DEF LedgerInvariant, DrawnFollows
    <3>3. call[q].drawn[s] # <<>>
      BY <2>1, <3>1
    <3>4. holder[s] = q
      BY <3>1, <3>3 DEF LedgerInvariant, SeriesAreLocked
    <3>5. published'[s] = published[s]
      BY <1>3, <1>4, <3>1, <3>4
    <3>6. QED
      BY <3>1, <3>2, <3>5
  <2>2. QED
    BY <2>1 DEF DrawnFollows, Running
<1>7. CountersFollow'
  <2>1. ASSUME NEW kind \in SequenceKind
        PROVE  LET s == Number(kind)
               IN  nextValue'[kind] = 1 + Len(published'[s])
                       + (IF holder'[s] = Nobody THEN 0 ELSE Len(call'[holder'[s]].drawn[s]))
    <3> DEFINE s == Number(kind)
    <3>0. s \in Series
      BY SeriesDiffer
    <3>1. CASE holder[s] = r \/ holder[s] = Nobody
      <4>1. nextValue[kind] = 1 + Len(published[s]) + Len(call[r].drawn[s])
        BY <1>1, <3>1, CounterOf
      <4>2. Len(published'[s]) = Len(published[s]) + Len(call[r].drawn[s]) /\ holder'[s] = Nobody
        BY <1>3, <1>4, <3>0, <3>1
      <4>3. \A i, j \in Nat : 1 + i + j = 1 + (i + j) + 0
        OBVIOUS
      <4>4. Len(published[s]) \in Nat /\ Len(call[r].drawn[s]) \in Nat
        BY <1>t, <3>0 DEF LedgerTyped
      <4> HIDE DEF s
      <4>5. nextValue'[kind] = 1 + Len(published'[s]) + 0
        BY <1>1, <4>1, <4>2, <4>3, <4>4
      <4>6. QED
        BY <4>2, <4>5 DEF s
    <3>2. CASE holder[s] # r /\ holder[s] # Nobody
      <4>1. /\ holder'[s] = holder[s] /\ published'[s] = published[s]
            /\ call'[holder[s]] = call[holder[s]]
        BY <1>2, <1>3, <1>4, <3>0, <3>2 DEF LedgerInvariant, SeriesAreLocked
      <4>2. QED
        BY <1>1, <4>1 DEF LedgerInvariant, CountersFollow
    <3>3. QED
      BY <3>1, <3>2
  <2>2. QED
    BY <2>1 DEF CountersFollow
<1>8. NumberedInCommitOrder'
  BY <1>4 DEF NumberedInCommitOrder
<1>9. QED
  BY <1>3, <1>5, <1>6, <1>7, <1>8 DEF LedgerInvariant

\* A call that fails gives its numbers back; nobody has drawn after it.
LEMMA RollbackKeeps ==
    ASSUME LedgerInvariant, NEW r \in Requests, Running(r), Rollback(r)
    PROVE  LedgerInvariant'
<1>t. LedgerTyped /\ call[r].drawn \in [Series -> Seq(Nat)]
  BY DEF LedgerInvariant, LedgerTyped
<1>1. /\ holder' = Released(r) /\ published' = published
      /\ nextValue' = [kind \in SequenceKind |->
                          nextValue[kind] - Len(call[r].drawn[Number(kind)])]
      /\ call' = [call EXCEPT ![r].state = "FAILED", ![r].plan = <<>>]
  BY DEF Rollback
<1>2. /\ DOMAIN call' = Requests /\ \A q \in Requests : q # r => call'[q] = call[q]
      /\ DOMAIN call'[r] = {"state", "order", "plan", "drawn"}
      /\ call'[r].drawn = call[r].drawn /\ call'[r].state # "RUNNING"
  BY <1>t, <1>1 DEF LedgerTyped
<1>3. /\ SeriesAreLocked' /\ DOMAIN holder' = Resources
      /\ \A q \in Requests : call'[q].state = "RUNNING" => q # r /\ Running(q)
      /\ \A s \in Series :
           \/ holder[s] = r /\ holder'[s] = Nobody
           \/ holder[s] # r /\ holder'[s] = holder[s] /\ call[r].drawn[s] = <<>>
  BY <1>1, <1>2, EndingReleases
<1>4. ASSUME NEW kind \in SequenceKind
      PROVE  LET s == Number(kind)
             IN  /\ nextValue'[kind] \in Nat
                 /\ nextValue'[kind] = 1 + Len(published[s])
                       + (IF holder'[s] = Nobody THEN 0 ELSE Len(call'[holder'[s]].drawn[s]))
  <2> DEFINE s == Number(kind)
  <2>0. /\ s \in Series /\ Len(published[s]) \in Nat /\ Len(call[r].drawn[s]) \in Nat
        /\ nextValue'[kind] = nextValue[kind] - Len(call[r].drawn[s])
        /\ nextValue[kind] \in Nat
    BY <1>t, <1>1, SeriesDiffer DEF LedgerTyped
  <2>1. CASE holder[s] = r \/ holder[s] = Nobody
    <3>1. nextValue[kind] = 1 + Len(published[s]) + Len(call[r].drawn[s])
      BY <2>1, CounterOf
    <3>2. holder'[s] = Nobody
      BY <1>3, <2>0, <2>1
    <3>3. \A i, j \in Nat : (1 + i + j) - j = 1 + i + 0 /\ 1 + i + 0 \in Nat
      OBVIOUS
    <3> HIDE DEF s
    <3>4. nextValue'[kind] = 1 + Len(published[s]) + 0 /\ nextValue'[kind] \in Nat
      BY <2>0, <3>1, <3>3
    <3>5. QED
      BY <3>2, <3>4 DEF s
  <2>2. CASE holder[s] # r /\ holder[s] # Nobody
    <3>1. /\ holder'[s] = holder[s] /\ Len(call[r].drawn[s]) = 0
          /\ call'[holder[s]] = call[holder[s]]
      BY <1>2, <1>3, <2>0, <2>2 DEF LedgerInvariant, SeriesAreLocked
    <3>2. nextValue'[kind] = nextValue[kind]
      <4>1. \A i \in Nat : i - 0 = i
        OBVIOUS
      <4>2. QED
        BY <2>0, <3>1, <4>1
    <3>3. QED
      BY <2>0, <3>1, <3>2 DEF LedgerInvariant, CountersFollow
  <2>3. QED
    BY <2>1, <2>2
<1>5. LedgerTyped'
  <2>1. nextValue' \in [SequenceKind -> Nat]
    BY <1>1, <1>4
  <2>2. \A q \in Requests : DOMAIN call'[q] = {"state", "order", "plan", "drawn"}
                                /\ call'[q].drawn \in [Series -> Seq(Nat)]
    BY <1>t, <1>2 DEF LedgerTyped
  <2>3. QED
    BY <1>t, <1>1, <1>2, <1>3, <2>1, <2>2 DEF LedgerTyped
<1>6. DrawnFollows'
  BY <1>1, <1>2, <1>3 DEF LedgerInvariant, DrawnFollows, Running
<1>7. CountersFollow'
  BY <1>1, <1>4 DEF CountersFollow
<1>8. NumberedInCommitOrder'
  BY <1>1 DEF LedgerInvariant, NumberedInCommitOrder
<1>9. QED
  BY <1>3, <1>5, <1>6, <1>7, <1>8 DEF LedgerInvariant

LEMMA OpeningKeeps ==
    ASSUME LedgerInvariant, NEW r \in Requests, withTenant(r)
    PROVE  LedgerInvariant'
<1>t. LedgerTyped
  BY DEF LedgerInvariant
<1>1. PICK operation \in Operations, o \in Orders, p \in Stocked :
        /\ p \in ToSet(Lines[o])
        /\ call' = [call EXCEPT ![r] = [state |-> "RUNNING", order |-> o,
                                        plan |-> Plan(operation, o, p), drawn |-> NothingDrawn]]
  BY DEF withTenant, Stocked
<1>2. /\ UNCHANGED <<holder, nextValue, published>> /\ ~Running(r)
      /\ DOMAIN call' = Requests /\ \A q \in Requests : q # r => call'[q] = call[q]
      /\ DOMAIN call'[r] = {"state", "order", "plan", "drawn"}
      /\ call'[r].drawn = NothingDrawn
  BY <1>t, <1>1 DEF withTenant, LedgerTyped, Running
<1>3. NothingDrawn \in [Series -> Seq(Nat)] /\ \A s \in Series : NothingDrawn[s] = <<>>
  BY DEF NothingDrawn
<1>4. LedgerTyped'
  BY <1>t, <1>2, <1>3 DEF LedgerTyped
<1>5. \A s \in Series : holder[s] # Nobody =>
          holder[s] \in Requests /\ holder[s] # r /\ call'[holder[s]] = call[holder[s]]
  BY <1>2 DEF LedgerInvariant, SeriesAreLocked
<1>6. SeriesAreLocked'
  BY <1>2, <1>3, <1>5 DEF LedgerInvariant, SeriesAreLocked, Running
<1>7. DrawnFollows'
  <2>1. ASSUME NEW q \in Requests, NEW s \in Series, call'[q].state = "RUNNING",
               NEW k \in DOMAIN call'[q].drawn[s]
        PROVE  call'[q].drawn[s][k] = Len(published[s]) + k
    <3>1. q # r
      BY <1>2, <1>3, <2>1
    <3>2. QED
      BY <1>2, <2>1, <3>1 DEF LedgerInvariant, DrawnFollows, Running
  <2>2. QED
    BY <1>2, <2>1 DEF DrawnFollows, Running
<1>8. CountersFollow'
  <2>1. \A kind \in SequenceKind : Number(kind) \in Series
    BY SeriesDiffer
  <2>2. QED
    BY <1>2, <1>5, <2>1 DEF LedgerInvariant, CountersFollow
<1>9. NumberedInCommitOrder'
  BY <1>2 DEF LedgerInvariant, NumberedInCommitOrder
<1>10. QED
  BY <1>4, <1>6, <1>7, <1>8, <1>9 DEF LedgerInvariant

\* Sharing a row draws nothing.
LEMMA SharingKeeps ==
    ASSUME LedgerInvariant, NEW r \in Requests, KeyShare(r)
    PROVE  LedgerInvariant'
<1>t. LedgerTyped
  BY DEF LedgerInvariant
<1>1. /\ holder' = holder /\ nextValue' = nextValue /\ published' = published
      /\ call' = [call EXCEPT ![r].plan = Tail(@)]
  BY DEF KeyShare
<1>2. /\ DOMAIN call' = Requests
      /\ \A q \in Requests : /\ DOMAIN call'[q] = DOMAIN call[q]
                             /\ call'[q].drawn = call[q].drawn
                             /\ call'[q].state = call[q].state
  BY <1>t, <1>1 DEF LedgerTyped
<1>3. LedgerTyped'
  BY <1>t, <1>1, <1>2 DEF LedgerTyped
<1>4. SeriesAreLocked'
  BY <1>1, <1>2 DEF LedgerInvariant, SeriesAreLocked, Running
<1>5. DrawnFollows'
  BY <1>1, <1>2 DEF LedgerInvariant, DrawnFollows, Running
<1>6. CountersFollow'
  <2>1. ASSUME NEW kind \in SequenceKind
        PROVE  holder[Number(kind)] # Nobody =>
                   call'[holder[Number(kind)]].drawn = call[holder[Number(kind)]].drawn
    BY <1>2, SeriesDiffer DEF LedgerInvariant, SeriesAreLocked
  <2>2. QED
    BY <1>1, <2>1 DEF LedgerInvariant, CountersFollow
<1>7. NumberedInCommitOrder'
  BY <1>1 DEF LedgerInvariant, NumberedInCommitOrder
<1>8. QED
  BY <1>3, <1>4, <1>5, <1>6, <1>7 DEF LedgerInvariant

LEMMA LedgerStep == LedgerInvariant /\ [LedgerNext]_ledgerVars => LedgerInvariant'
<1> SUFFICES ASSUME LedgerInvariant, [LedgerNext]_ledgerVars PROVE LedgerInvariant'
  OBVIOUS
<1>1. ASSUME NEW r \in Requests, withTenant(r) \/ Take(r) \/ KeyShare(r) \/ Commit(r)
      PROVE  LedgerInvariant'
  BY <1>1, OpeningKeeps, TakingKeeps, SharingKeeps, CommitKeeps
<1>2. ASSUME NEW r \in Requests, Fail(r) PROVE LedgerInvariant'
  BY <1>2, RollbackKeeps DEF Fail
<1>3. ASSUME NEW r \in Requests, AbortDeadlock(r) PROVE LedgerInvariant'
  <2>1. WaitsFor(r) # {}
    BY <1>3 DEF AbortDeadlock, Circles, Closed
  <2>2. Running(r)
    BY <2>1 DEF WaitsFor
  <2>3. QED
    BY <1>3, <2>2, RollbackKeeps DEF AbortDeadlock
<1>4. CASE UNCHANGED ledgerVars
  <2>1. UNCHANGED <<call, holder, nextValue, published>>
    BY <1>4 DEF ledgerVars
  <2>2. LedgerTyped' /\ NumberedInCommitOrder'
    BY <2>1 DEF LedgerInvariant, LedgerTyped, NumberedInCommitOrder
  <2>3. SeriesAreLocked'
    BY <2>1 DEF LedgerInvariant, SeriesAreLocked, Running
  <2>4. DrawnFollows'
    BY <2>1 DEF LedgerInvariant, DrawnFollows, Running
  <2>5. CountersFollow'
    BY <2>1 DEF LedgerInvariant, CountersFollow
  <2>6. QED
    BY <2>2, <2>3, <2>4, <2>5 DEF LedgerInvariant
<1>5. QED
  BY <1>1, <1>2, <1>3, <1>4 DEF LedgerNext

\* numbering/index.ts "Never a duplicate" and audit/index.ts "gapless": in every series
\* the committed rows are numbered 1, 2, 3, ... in the order of their commits.
THEOREM NumbersFollowCommits == LedgerSpec => []NumberedInCommitOrder
<1>1. LedgerSpec => []LedgerInvariant
  BY LedgerStarts, LedgerStep, PTL DEF LedgerSpec
<1>2. LedgerInvariant => NumberedInCommitOrder
  BY DEF LedgerInvariant
<1>3. QED
  BY <1>1, <1>2, PTL

-----------------------------------------------------------------------------
(* The order in which products are locked                                  *)

Sorts(s, ids) ==
    /\ s \in [1..Cardinality(ids) -> ids]
    /\ \A j, k \in DOMAIN s : j < k => s[j] < s[k]

Unsortable == {n \in Nat : \E ids \in SUBSET Nat :
                    IsFiniteSet(ids) /\ Cardinality(ids) = n /\ ~\E s : Sorts(s, ids)}

\* Every finite set of ids can be sorted: the least size of one that could not be
\* has a least id, and the rest can be sorted.
LEMMA SetsCanBeSorted ==
    ASSUME NEW ids \in SUBSET Nat, IsFiniteSet(ids)
    PROVE  \E s : Sorts(s, ids)
<1>1. SUFFICES ASSUME Unsortable # {} PROVE FALSE
  BY FS_CardinalityType DEF Unsortable
<1>2. PICK n \in Unsortable : \A m \in Unsortable : n <= m
  BY <1>1, LeastNatural DEF Unsortable
<1>3. PICK all \in SUBSET Nat : IsFiniteSet(all) /\ Cardinality(all) = n /\ ~\E s : Sorts(s, all)
  BY <1>2 DEF Unsortable
<1>4. all # {}
  <2>1. ASSUME all = {} PROVE FALSE
    <3>1. Sorts([k \in {} |-> 0], all)
      BY <2>1, FS_EmptySet DEF Sorts
    <3>2. QED
      BY <1>3, <3>1
  <2>2. QED
    BY <2>1
<1>5. PICK x \in all : \A y \in all : x <= y
  BY <1>3, <1>4, LeastNatural
<1> DEFINE rest == all \ {x}
<1>6. IsFiniteSet(rest) /\ Cardinality(rest) = n - 1 /\ n - 1 \in Nat
  <2>1. IsFiniteSet(rest) /\ Cardinality(rest) = n - 1
    BY <1>3, FS_RemoveElement
  <2>2. QED
    BY <2>1, FS_CardinalityType
<1>7. \E s : Sorts(s, rest)
  <2>1. n \in Nat /\ rest \in SUBSET Nat
    BY <1>2, <1>3 DEF Unsortable
  <2>2. n - 1 \notin Unsortable
    BY <1>2, <1>6, <2>1
  <2>3. QED
    BY <1>6, <2>1, <2>2 DEF Unsortable
<1>8. PICK s : Sorts(s, rest)
  BY <1>7
<1> DEFINE longer == [k \in 1..n |-> IF k = 1 THEN x ELSE s[k - 1]]
<1>9. Sorts(longer, all)
  <2>0. n \in Nat /\ n >= 1
    <3>1. n \in Nat
      BY <1>2 DEF Unsortable
    <3>2. QED
      BY <3>1, <1>6
  <2>1. n \in Nat /\ n >= 1 /\ DOMAIN s = 1..(n - 1) /\ \A k \in 1..(n - 1) : s[k] \in rest
    <3>1. s \in [1..(n - 1) -> rest]
      BY <1>6, <1>8 DEF Sorts
    <3> HIDE DEF rest
    <3>2. QED
      BY <2>0, <3>1
  <2>2. \A k \in 1..(n - 1) : s[k] \in all /\ x < s[k] /\ s[k] \in Nat /\ x \in Nat
    <3>1. SUFFICES ASSUME NEW k \in 1..(n - 1) PROVE s[k] \in all /\ x < s[k] /\ s[k] \in Nat /\ x \in Nat
      OBVIOUS
    <3>2. s[k] \in all /\ s[k] # x
      BY <2>1
    <3>3. x \in Nat /\ s[k] \in Nat /\ x <= s[k]
      BY <1>3, <1>5, <3>2
    <3>4. QED
      BY <3>2, <3>3
  <2>3. longer \in [1..n -> all]
    BY <1>5, <2>1, <2>2
  <2>4. ASSUME NEW j \in 1..n, NEW k \in 1..n, j < k PROVE longer[j] < longer[k]
    <3>1. k # 1 /\ k - 1 \in 1..(n - 1)
      BY <2>1, <2>4
    <3>2. CASE j = 1
      BY <2>2, <3>1, <3>2
    <3>3. CASE j # 1
      <4>1. j - 1 \in 1..(n - 1) /\ j - 1 < k - 1
        BY <2>1, <2>4, <3>3
      <4>2. s[j - 1] < s[k - 1]
        BY <1>8, <2>1, <3>1, <4>1 DEF Sorts
      <4>3. QED
        BY <3>1, <3>3, <4>2
    <3>4. QED
      BY <3>2, <3>3
  <2>5. DOMAIN longer = 1..Cardinality(all)
    BY <1>3
  <2>6. QED
    BY <1>3, <2>3, <2>4, <2>5 DEF Sorts
<1>10. QED
  BY <1>3, <1>9

\* The products of an order, in the order they are locked in.
LEMMA LockOrderAscends ==
    ASSUME NEW o \in Orders
    PROVE  /\ lockOrder(o) \in Seq(Resources)
           /\ \A k \in DOMAIN lockOrder(o) :
                  \E n \in Nat : lockOrder(o)[k] = ProductRow(n)
           /\ \A j, k \in DOMAIN lockOrder(o) : j < k => lockOrder(o)[j][2] < lockOrder(o)[k][2]
<1> DEFINE ids == ToSet(Lines[o])
           s   == Sorted(ids)
<1>1. ids \in SUBSET Nat /\ ids \subseteq Stocked
  BY LinesNameProducts DEF ToSet, Stocked
<1>2. IsFiniteSet(ids)
  <2>1. Lines[o] \in [1..Len(Lines[o]) -> Nat] /\ Len(Lines[o]) \in Nat
    BY LinesNameProducts
  <2>2. Lines[o] \in Surjection(1..Len(Lines[o]), ids)
    BY <2>1 DEF Surjection, ToSet
  <2>3. IsFiniteSet(1..Len(Lines[o]))
    <3>1. 1 \in Int /\ Len(Lines[o]) \in Int
      BY <2>1
    <3>2. QED
      BY <3>1, FS_Interval, Zenon
  <2>4. QED
    BY <2>2, <2>3, FS_Surjection
<1>3. Cardinality(ids) \in Nat
  BY <1>2, FS_CardinalityType
<1>4. Sorts(s, ids)
  <2>1. \E t : Sorts(t, ids)
    BY <1>1, <1>2, SetsCanBeSorted
  <2>2. QED
    BY <2>1 DEF Sorts, Sorted
<1>5. lockOrder(o) = [k \in DOMAIN s |-> ProductRow(s[k])]
  BY DEF lockOrder
<1> HIDE DEF s
<1>6. /\ DOMAIN s = 1..Cardinality(ids)
      /\ \A k \in DOMAIN s : s[k] \in ids /\ s[k] \in Nat /\ ProductRow(s[k]) \in Resources
  BY <1>1, <1>4 DEF Sorts, Resources
<1>7. lockOrder(o) \in Seq(Resources)
  BY <1>3, <1>5, <1>6
<1>8. \A k \in DOMAIN lockOrder(o) : lockOrder(o)[k] = ProductRow(s[k])
  BY <1>5
<1>9. \A j, k \in DOMAIN lockOrder(o) : j < k => lockOrder(o)[j][2] < lockOrder(o)[k][2]
  BY <1>4, <1>5, <1>8 DEF Sorts, ProductRow
<1>10. QED
  BY <1>5, <1>6, <1>7, <1>8, <1>9

-----------------------------------------------------------------------------
(* The order in which an operation takes what it needs                     *)

\* Where a row stands in the chain of locks; products come last, by id.
Place(res) ==
    CASE res[1] = "payment" -> 0
      [] res[1] = "sales_order" -> 1
      [] res[1] \in {"warehouse_task", "delivery"} -> 2
      [] res[1] = "discrepancy" -> 3
      [] res[1] = "product" -> 4 + res[2]
      [] OTHER -> 0

Delivery == Number("DELIVERY")

\* Rows along the chain, then a number, then the audit log.  Only a delivery's number
\* is drawn after the audit lock, and only under the lock of the order.
InOrder(P, j, k) ==
    /\ P[j] \in Series \ {Audit} => P[k] = Audit
    /\ P[j] = Audit /\ P[k] # Audit => P[k] = Delivery
    /\ P[j] \notin Series /\ P[k] \notin Series => Place(P[j]) < Place(P[k])

\* What a plan is made of.
Entries == Resources \cup Shares

\* What a foreign key shares has no place of its own.
WellOrdered(P, o) ==
    /\ P \in Seq(Entries)
    /\ \A k \in 1..Len(P) : P[k] = Delivery => k > 1 /\ P[1] = Row("sales_order", o)
    /\ \A j, k \in 1..Len(P) :
          j < k /\ P[j] \in Resources /\ P[k] \in Resources => InOrder(P, j, k)

\* The rows an operation locks before the products.
Opens(A, o) ==
    /\ A \in Seq(Resources)
    /\ \A k \in 1..Len(A) : A[k] \notin Series /\ Place(A[k]) \in 0..3
    /\ \A j, k \in 1..Len(A) : j < k => Place(A[j]) < Place(A[k])

\* The numbers and audit positions it takes after them.
Closes(B, A, o) ==
    /\ B \in Seq(Resources)
    /\ \A k \in 1..Len(B) : B[k] \in Series
    /\ \A k \in 1..Len(B) : B[k] = Delivery => Len(A) > 0 /\ A[1] = Row("sales_order", o)
    /\ \A j, k \in 1..Len(B) : j < k => InOrder(B, j, k)

LEMMA SeriesAreNoRows ==
    /\ Series \subseteq Resources /\ Audit \in Series /\ Delivery \in Series /\ Audit # Delivery
    /\ \A n : ProductRow(n) \notin Series /\ Place(ProductRow(n)) = 4 + n
    /\ \A o : Row("payment", o) \notin Series /\ Place(Row("payment", o)) = 0
    /\ \A o : Row("sales_order", o) \notin Series /\ Place(Row("sales_order", o)) = 1
    /\ \A o : Row("warehouse_task", o) \notin Series /\ Place(Row("warehouse_task", o)) = 2
    /\ \A o : Row("delivery", o) \notin Series /\ Place(Row("delivery", o)) = 2
    /\ \A o : Row("discrepancy", o) \notin Series /\ Place(Row("discrepancy", o)) = 3
<1>1. \A s \in Series : s[1] \in {"number", "audit"}
  BY DEF Series, Audit, Number
<1>2. QED
  BY <1>1 DEF Resources, Series, Audit, Delivery, Number, SequenceKind, ProductRow, Row, Place

\* To share a row is another step than to lock it.
LEMMA SharesAreNoResources == Shares \cap Resources = {}
BY DEF Shares, Share, Resources, Series, Number, Audit, ProductRow

LEMMA RowsAreResources ==
    ASSUME NEW o \in Orders
    PROVE  /\ Row("payment", o) \in Resources
           /\ Row("sales_order", o) \in Resources
           /\ Row("warehouse_task", o) \in Resources
           /\ Row("delivery", o) \in Resources
           /\ Row("discrepancy", o) \in Resources
           /\ \A kind \in SequenceKind : Number(kind) \in Resources \cap Series /\ Number(kind) # Audit
BY DEF Row, Resources, Series, Number, Audit

\* Rows, then products, then series: such a plan is in order.
LEMMA PartsMakeAPlan ==
    ASSUME NEW o \in Orders, NEW A, NEW B, Opens(A, o), Closes(B, A, o)
    PROVE  WellOrdered(A \o (lockOrder(o) \o B), o)
<1> DEFINE L == lockOrder(o)
           T == L \o B
           P == A \o T
<1>1. /\ A \in Seq(Resources) /\ L \in Seq(Resources) /\ B \in Seq(Resources)
      /\ Len(A) \in Nat /\ Len(L) \in Nat /\ Len(B) \in Nat
  BY LockOrderAscends DEF Opens, Closes
<1>2. /\ \A k \in 1..Len(L) : L[k] \notin Series /\ Place(L[k]) \in Nat /\ Place(L[k]) > 3
      /\ \A j, k \in 1..Len(L) : j < k => Place(L[j]) < Place(L[k])
  <2>1. \A k \in 1..Len(L) : L[k] \notin Series /\ L[k][2] \in Nat /\ Place(L[k]) = 4 + L[k][2]
    <3>1. SUFFICES ASSUME NEW k \in 1..Len(L)
                   PROVE  L[k] \notin Series /\ L[k][2] \in Nat /\ Place(L[k]) = 4 + L[k][2]
      OBVIOUS
    <3>2. PICK n \in Nat : L[k] = ProductRow(n)
      BY <1>1, LockOrderAscends
    <3>3. L[k][2] = n
      BY <3>2 DEF ProductRow
    <3>4. QED
      BY <3>2, <3>3, SeriesAreNoRows
  <2>2. \A j, k \in 1..Len(L) : j < k => L[j][2] < L[k][2]
    BY <1>1, LockOrderAscends
  <2> HIDE DEF L
  <2>3. \A k \in 1..Len(L) : Place(L[k]) \in Nat /\ Place(L[k]) > 3
    BY <2>1
  <2>4. ASSUME NEW j \in 1..Len(L), NEW k \in 1..Len(L), j < k PROVE Place(L[j]) < Place(L[k])
    <3>1. L[j][2] < L[k][2]
      BY <2>2, <2>4
    <3>2. /\ L[j][2] \in Nat /\ Place(L[j]) = 4 + L[j][2]
          /\ L[k][2] \in Nat /\ Place(L[k]) = 4 + L[k][2]
      BY <2>1
    <3>3. QED
      BY <3>1, <3>2
  <2>5. QED
    BY <2>1, <2>3, <2>4
<1> HIDE DEF L
<1>3. /\ T \in Seq(Resources) /\ Len(T) = Len(L) + Len(B)
      /\ \A k \in 1..Len(T) : T[k] = IF k <= Len(L) THEN L[k] ELSE B[k - Len(L)]
  BY <1>1, ConcatProperties
<1> HIDE DEF T
<1>4. /\ P \in Seq(Resources) /\ Len(P) = Len(A) + Len(T)
      /\ \A k \in 1..Len(P) : P[k] = IF k <= Len(A) THEN A[k] ELSE T[k - Len(A)]
  <2>1. A \in Seq(Resources) /\ T \in Seq(Resources)
    BY <1>1, <1>3
  <2>2. QED
    BY <2>1, ConcatProperties
<1> HIDE DEF P
<1> DEFINE a == Len(A)
           l == Len(L)
<1>n. a \in Nat /\ l \in Nat /\ Len(B) \in Nat /\ Len(P) = a + l + Len(B)
  BY <1>1, <1>3, <1>4
<1>a. ASSUME NEW k \in 1..Len(P), k <= a PROVE k \in 1..a /\ P[k] = A[k]
  BY <1>4, <1>n, <1>a
<1>b. ASSUME NEW k \in 1..Len(P), k > a, k <= a + l PROVE k - a \in 1..l /\ P[k] = L[k - a]
  <2>1. k - a \in 1..Len(T) /\ k - a <= l
    BY <1>1, <1>3, <1>n, <1>b
  <2>2. P[k] = T[k - a]
    BY <1>4, <1>n, <1>b
  <2>3. QED
    BY <1>3, <2>1, <2>2
<1>c. ASSUME NEW k \in 1..Len(P), k > a + l PROVE k - (a + l) \in 1..Len(B) /\ P[k] = B[k - (a + l)]
  <2>1. k - a \in 1..Len(T) /\ ~(k - a <= l) /\ (k - a) - l = k - (a + l)
    BY <1>1, <1>3, <1>n, <1>c
  <2>2. P[k] = T[k - a]
    BY <1>4, <1>n, <1>c
  <2>3. T[k - a] = B[k - (a + l)]
    BY <1>3, <2>1
  <2>4. QED
    BY <1>n, <1>c, <2>2, <2>3
<1> HIDE DEF a, l
<1>r. ASSUME NEW k \in 1..Len(P), k <= a
      PROVE  P[k] \notin Series /\ Place(P[k]) \in 0..3
  BY <1>a, <1>r DEF Opens, a
<1>p. ASSUME NEW k \in 1..Len(P), k > a, k <= a + l
      PROVE  P[k] \notin Series /\ Place(P[k]) \in Nat /\ Place(P[k]) > 3
  BY <1>2, <1>b, <1>p DEF l
<1>s. ASSUME NEW k \in 1..Len(P), k > a + l PROVE P[k] \in Series
  BY <1>c, <1>s DEF Closes
<1>6. ASSUME NEW k \in 1..Len(P), P[k] = Delivery PROVE k > 1 /\ P[1] = Row("sales_order", o)
  <2>1. k > a + l
    BY <1>n, <1>r, <1>p, <1>6, SeriesAreNoRows
  <2>2. a > 0 /\ A[1] = Row("sales_order", o)
    BY <1>c, <1>6, <2>1 DEF Closes, a
  <2>3. 1 \in 1..Len(P) /\ 1 <= a
    BY <1>n, <2>2
  <2>4. QED
    BY <1>a, <1>n, <2>1, <2>2, <2>3
<1>7. ASSUME NEW j \in 1..Len(P), NEW k \in 1..Len(P), j < k PROVE InOrder(P, j, k)
  <2>2. CASE j > a + l
    <3> DEFINE m == j - (a + l)
               n == k - (a + l)
    <3>1. k > a + l
      BY <1>n, <1>7, <2>2
    <3>2. m \in 1..Len(B) /\ P[j] = B[m]
      BY <1>c, <2>2
    <3>3. n \in 1..Len(B) /\ P[k] = B[n]
      BY <1>c, <3>1
    <3>4. m < n
      BY <1>n, <1>7
    <3> HIDE DEF m, n
    <3>5. InOrder(B, m, n)
      BY <3>2, <3>3, <3>4 DEF Closes
    <3>6. QED
      BY <3>2, <3>3, <3>5 DEF InOrder
  <2>3. CASE k > a + l /\ ~(j > a + l)
    <3>1. P[k] \in Series
      BY <1>s, <2>3
    <3>2. P[j] \notin Series
      <4>1. j <= a \/ (j > a /\ j <= a + l)
        BY <1>n, <2>3
      <4>2. QED
        BY <4>1, <1>r, <1>p
    <3>3. QED
      BY <3>1, <3>2, SeriesAreNoRows DEF InOrder
  <2>4. CASE ~(k > a + l)
    <3>1. P[j] \notin Series /\ P[k] \notin Series /\ Place(P[j]) < Place(P[k])
      <4>1. CASE k <= a
        <5>1. j <= a
          BY <1>n, <1>7, <4>1
        <5>2. j \in 1..Len(A) /\ k \in 1..Len(A) /\ P[j] = A[j] /\ P[k] = A[k]
          BY <1>a, <4>1, <5>1 DEF a
        <5>3. QED
          BY <1>7, <5>2 DEF Opens
      <4>2. CASE k > a /\ j <= a
        <5>1. P[j] \notin Series /\ Place(P[j]) \in 0..3
          BY <1>r, <4>2
        <5>2. P[k] \notin Series /\ Place(P[k]) \in Nat /\ Place(P[k]) > 3
          BY <1>n, <1>p, <2>4, <4>2
        <5>3. QED
          BY <5>1, <5>2
      <4>3. CASE j > a
        <5> DEFINE m == j - a
                   n == k - a
        <5>1. k > a /\ k <= a + l /\ j <= a + l
          BY <1>n, <1>7, <2>4, <4>3
        <5>2. m \in 1..Len(L) /\ P[j] = L[m]
          BY <1>b, <4>3, <5>1 DEF l
        <5>3. n \in 1..Len(L) /\ P[k] = L[n]
          BY <1>b, <5>1 DEF l
        <5>4. m < n
          BY <1>n, <1>7
        <5> HIDE DEF m, n
        <5>5. QED
          BY <1>2, <5>2, <5>3, <5>4
      <4>4. QED
        BY <1>n, <4>1, <4>2, <4>3
    <3>2. QED
      BY <3>1, SeriesAreNoRows DEF InOrder
  <2>5. QED
    BY <2>2, <2>3, <2>4
<1>8. P \in Seq(Entries)
  BY <1>4 DEF Entries
<1>9. QED
  BY <1>4, <1>6, <1>7, <1>8 DEF WellOrdered, P, T, L

\* The products of the lines, in line order, for an insert that names them.
LEMMA LinesAreShared ==
    ASSUME NEW o \in Orders
    PROVE  InsertedLines(o) \in Seq(Shares)
<1>1. Lines[o] \in Seq(Nat) /\ Len(Lines[o]) \in Nat
  BY LinesNameProducts
<1>2. ASSUME NEW k \in 1..Len(Lines[o]) PROVE Share(ProductRow(Lines[o][k])) \in Shares
  <2>1. Lines[o][k] \in Stocked
    BY <1>1 DEF Stocked, ToSet
  <2>2. ProductRow(Lines[o][k]) \in Resources \ Series
    BY <2>1, SeriesAreNoRows DEF Resources
  <2>3. QED
    BY <2>2 DEF Shares
<1>3. DOMAIN Lines[o] = 1..Len(Lines[o])
  BY <1>1
<1>4. QED
  BY <1>1, <1>2, <1>3 DEF InsertedLines

\* Rows and a number, then the lines an insert shares, then the audit log.
LEMMA InsertsMakeAPlan ==
    ASSUME NEW o \in Orders, NEW A \in Seq(Resources),
           \A k \in 1..Len(A) : A[k] # Audit /\ A[k] # Delivery,
           \A j, k \in 1..Len(A) : j < k => InOrder(A, j, k)
    PROVE  WellOrdered(A \o InsertedLines(o) \o <<Audit>>, o)
<1> DEFINE L == InsertedLines(o)
           T == A \o L
           B == <<Audit>>
           P == T \o B
           a == Len(A)
           n == Len(T)
<1>1. A \in Seq(Entries) /\ L \in Seq(Entries) /\ B \in Seq(Entries) /\ L \in Seq(Shares)
  BY LinesAreShared, SeriesAreNoRows DEF Entries
<1>2. Len(B) = 1 /\ B[1] = Audit
  OBVIOUS
<1> HIDE DEF L, B
<1>3. /\ T \in Seq(Entries) /\ Len(T) = Len(A) + Len(L)
      /\ \A k \in 1..Len(T) : T[k] = IF k <= Len(A) THEN A[k] ELSE L[k - Len(A)]
  BY <1>1, ConcatProperties
<1> HIDE DEF T
<1>4. /\ P \in Seq(Entries) /\ Len(P) = Len(T) + Len(B)
      /\ \A k \in 1..Len(P) : P[k] = IF k <= Len(T) THEN T[k] ELSE B[k - Len(T)]
  <2>1. T \in Seq(Entries) /\ B \in Seq(Entries)
    BY <1>1, <1>3
  <2>2. QED
    BY <2>1, ConcatProperties
<1> HIDE DEF P
<1>5. a \in Nat /\ Len(L) \in Nat /\ n = a + Len(L) /\ Len(P) = n + 1
  BY <1>1, <1>2, <1>3, <1>4
<1>a. ASSUME NEW k \in 1..Len(P), k <= a PROVE k \in 1..a /\ P[k] = A[k]
  BY <1>3, <1>4, <1>5, <1>a
<1>b. ASSUME NEW k \in 1..Len(P), k > a, k <= n PROVE P[k] \in Shares
  <2>1. k - a \in 1..Len(L) /\ P[k] = L[k - a]
    BY <1>3, <1>4, <1>5, <1>b
  <2>2. QED
    BY <1>1, <2>1
<1>c. ASSUME NEW k \in 1..Len(P), k > n PROVE P[k] = Audit
  <2>1. k - n = 1 /\ P[k] = B[k - n]
    BY <1>3, <1>4, <1>5, <1>c
  <2>2. QED
    BY <1>2, <2>1
<1> HIDE DEF a, n
<1>6. ASSUME NEW k \in 1..Len(P) PROVE P[k] # Delivery
  <2>1. CASE k <= a
    BY <1>a, <2>1 DEF a
  <2>2. CASE k > a /\ k <= n
    BY <1>b, <2>2, SharesAreNoResources, SeriesAreNoRows
  <2>3. CASE k > n
    BY <1>c, <2>3, SeriesAreNoRows
  <2>4. n \in Nat
    BY <1>5
  <2>5. QED
    BY <1>5, <2>1, <2>2, <2>3, <2>4
<1>7. ASSUME NEW j \in 1..Len(P), NEW k \in 1..Len(P), j < k,
             P[j] \in Resources, P[k] \in Resources
      PROVE  InOrder(P, j, k)
  <2>0. n \in Nat /\ a \in Nat
    BY <1>5
  <2>1. j <= a
    <3>1. ~(j > a /\ j <= n)
      BY <1>7, <1>b, SharesAreNoResources
    <3>2. j <= n
      BY <1>5, <1>7
    <3>3. QED
      BY <2>0, <3>1, <3>2
  <2>2. P[j] = A[j] /\ j \in 1..a
    BY <1>a, <2>1
  <2>3. CASE k <= a
    <3>1. P[k] = A[k] /\ k \in 1..a
      BY <1>a, <2>3
    <3>2. InOrder(A, j, k)
      BY <1>7, <2>2, <3>1 DEF a
    <3>3. QED
      BY <2>2, <3>1, <3>2 DEF InOrder
  <2>4. CASE k > n
    <3>1. P[k] = Audit
      BY <1>c, <2>4
    <3>2. P[j] # Audit
      BY <2>2 DEF a
    <3>3. QED
      BY <3>1, <3>2, SeriesAreNoRows DEF InOrder
  <2>5. ~(k > a /\ k <= n)
    BY <1>7, <1>b, SharesAreNoResources
  <2>6. QED
    BY <2>0, <2>3, <2>4, <2>5
<1>8. QED
  BY <1>4, <1>6, <1>7 DEF WellOrdered, P, T, L, B

\* Every operation takes what it takes in that order.
LEMMA PlansAreInOrder ==
    ASSUME NEW operation \in Operations, NEW o \in Orders, NEW p \in ToSet(Lines[o])
    PROVE  WellOrdered(Plan(operation, o, p), o)
<1> DEFINE order == Row("sales_order", o)
<1>s. /\ \A kind \in SequenceKind : Number(kind) \in Series \cap Resources /\ Number(kind) # Audit
      /\ Audit \in Resources
  BY RowsAreResources, SeriesAreNoRows
<1>k. /\ \A kind \in SequenceKind \ {"DELIVERY"} : Number(kind) # Delivery
      /\ order # Delivery /\ order # Audit
  BY SeriesAreNoRows DEF Number, Delivery
<1>p. p \in Nat /\ ProductRow(p) \in Resources
  <2>1. p \in Stocked /\ p \in Nat
    BY LinesNameProducts DEF Stocked, ToSet
  <2>2. QED
    BY <2>1 DEF Resources
<1>h. \A res \in Resources : res \notin Series =>
          Share(res) \in Shares /\ Share(res) \notin Resources /\ Share(res) # Delivery
  BY SharesAreNoResources, SeriesAreNoRows DEF Shares
<1>r. \A res \in Resources : res \in Entries
  BY DEF Entries
<1>1. CASE operation = "createFromInquiry"
  <2> DEFINE A == <<Number("QUOTATION")>>
  <2>1. Plan(operation, o, p) = A \o InsertedLines(o) \o <<Audit>>
    BY <1>1 DEF Plan
  <2>2. /\ A \in Seq(Resources)
        /\ \A k \in 1..Len(A) : A[k] # Audit /\ A[k] # Delivery
        /\ \A j, k \in 1..Len(A) : j < k => InOrder(A, j, k)
    BY <1>s, <1>k DEF InOrder, SequenceKind
  <2> HIDE DEF A
  <2>3. QED
    BY <2>1, <2>2, InsertsMakeAPlan
<1>2. CASE operation = "reportDiscrepancy"
  <2> DEFINE a == Share(ProductRow(p))
             b == Share(Row("warehouse_task", o))
             c == Share(order)
  <2>1. Plan(operation, o, p) = <<Number("DISCREPANCY"), a, b, c, Audit>>
    BY <1>2 DEF Plan
  <2>2. /\ a \in Shares /\ a \notin Resources /\ a # Delivery
        /\ b \in Shares /\ b \notin Resources /\ b # Delivery
        /\ c \in Shares /\ c \notin Resources /\ c # Delivery
    BY <1>p, <1>h, SeriesAreNoRows, RowsAreResources
  <2> HIDE DEF a, b, c
  <2>3. QED
    BY <1>s, <1>k, <2>1, <2>2, SeriesAreNoRows DEF WellOrdered, InOrder, SequenceKind, Entries
<1>3. CASE operation = "confirmPayment"
  <2>1. Plan(operation, o, p) = <<Row("payment", o), order, Audit, Audit>>
    BY <1>3 DEF Plan
  <2>2. QED
    BY <1>s, <1>k, <2>1, SeriesAreNoRows, RowsAreResources DEF WellOrdered, InOrder, SequenceKind, Entries
<1>4. CASE operation = "createWarehouseTask"
  <2> DEFINE A == <<order, Number("WAREHOUSE_TASK")>>
  <2>1. Plan(operation, o, p) = A \o InsertedLines(o) \o <<Audit>>
    BY <1>4 DEF Plan
  <2>2. /\ A \in Seq(Resources)
        /\ \A k \in 1..Len(A) : A[k] # Audit /\ A[k] # Delivery
        /\ \A j, k \in 1..Len(A) : j < k => InOrder(A, j, k)
    BY <1>s, <1>k, SeriesAreNoRows, RowsAreResources DEF InOrder, SequenceKind
  <2> HIDE DEF A
  <2>3. QED
    BY <2>1, <2>2, InsertsMakeAPlan
<1>5. CASE operation = "createDeliveryRetry"
  <2> DEFINE b == Share(Row("warehouse_task", o))
  <2>1. Plan(operation, o, p) = <<order, Row("delivery", o), Delivery, b, Audit>>
    BY <1>5 DEF Plan, Delivery
  <2>2. b \in Shares /\ b \notin Resources /\ b # Delivery
    BY <1>h, SeriesAreNoRows, RowsAreResources
  <2> HIDE DEF b
  <2>3. QED
    BY <1>s, <1>k, <2>1, <2>2, SeriesAreNoRows, RowsAreResources
       DEF WellOrdered, InOrder, SequenceKind, Entries
<1>6. CASE operation = "createReturn"
  <2> DEFINE A == <<order, Row("delivery", o), Number("RETURN")>>
  <2>1. Plan(operation, o, p) = A \o InsertedLines(o) \o <<Audit>>
    BY <1>6 DEF Plan
  <2>2. /\ A \in Seq(Resources)
        /\ \A k \in 1..Len(A) : A[k] # Audit /\ A[k] # Delivery
        /\ \A j, k \in 1..Len(A) : j < k => InOrder(A, j, k)
    BY <1>s, <1>k, SeriesAreNoRows, RowsAreResources DEF InOrder, SequenceKind
  <2> HIDE DEF A
  <2>3. QED
    BY <2>1, <2>2, InsertsMakeAPlan
<1>7. CASE operation = "createFromQuotation"
  <2> DEFINE A == <<>>
             B == <<Number("ORDER"), Audit, Audit>>
  <2>1. Opens(A, o)
    BY DEF Opens
  <2>2. B \in Seq(Resources)
    BY <1>s DEF SequenceKind
  <2>3. Closes(B, A, o)
    BY <1>s, <1>k, <2>2, SeriesAreNoRows DEF Closes, InOrder, SequenceKind
  <2>4. Plan(operation, o, p) = A \o (lockOrder(o) \o B)
    <3>1. Plan(operation, o, p) = lockOrder(o) \o B
      BY <1>7 DEF Plan
    <3>2. lockOrder(o) \o B \in Seq(Resources)
      BY <2>2, LockOrderAscends, ConcatProperties
    <3>3. QED
      BY <3>1, <3>2, ConcatEmptySeq
  <2>5. QED
    BY <2>1, <2>3, <2>4, PartsMakeAPlan
<1>8. CASE operation = "cancelOrder"
  <2> DEFINE A == <<order>>
             B == <<Audit, Audit>>
  <2>0. A \in Seq(Resources) /\ B \in Seq(Resources)
    BY <1>s, RowsAreResources
  <2>1. Opens(A, o)
    BY <2>0, SeriesAreNoRows DEF Opens
  <2>3. Closes(B, A, o)
    BY <1>s, <1>k, <2>0, SeriesAreNoRows DEF Closes, InOrder
  <2>4. Plan(operation, o, p) = (A \o lockOrder(o)) \o B
    BY <1>8 DEF Plan
  <2>5. Plan(operation, o, p) = A \o (lockOrder(o) \o B)
    BY <2>0, <2>4, LockOrderAscends, ConcatAssociative
  <2>6. QED
    BY <2>1, <2>3, <2>5, PartsMakeAPlan
<1>9. CASE operation = "completeWarehouseTask"
  <2> DEFINE A == <<order, Row("warehouse_task", o), Row("discrepancy", o)>>
             B == <<Audit, Delivery, Audit>>
  <2>0. A \in Seq(Resources) /\ B \in Seq(Resources)
    BY <1>s, RowsAreResources, SeriesAreNoRows
  <2>1. Opens(A, o)
    BY <2>0, SeriesAreNoRows DEF Opens
  <2>3. Closes(B, A, o)
    BY <1>s, <1>k, <2>0, SeriesAreNoRows DEF Closes, InOrder
  <2>4. Plan(operation, o, p) = (A \o lockOrder(o)) \o B
    BY <1>9 DEF Plan, Delivery
  <2>5. Plan(operation, o, p) = A \o (lockOrder(o) \o B)
    BY <2>0, <2>4, LockOrderAscends, ConcatAssociative
  <2>6. QED
    BY <2>1, <2>3, <2>5, PartsMakeAPlan
<1>10. CASE operation = "reconcileDiscrepancy"
  <2> DEFINE row == ProductRow(p)
  <2>1. Plan(operation, o, p) = <<order, Row("discrepancy", o), row, Audit>>
    BY <1>10 DEF Plan
  <2>2. row \in Resources /\ row \notin Series /\ Place(row) \in Nat /\ Place(row) > 3
    <3>1. row \notin Series /\ Place(row) = 4 + p
      BY SeriesAreNoRows
    <3>2. QED
      BY <1>p, <3>1
  <2> HIDE DEF row
  <2>3. row # Delivery /\ row # Audit
    BY <2>2, SeriesAreNoRows
  <2>4. QED
    BY <1>s, <1>k, <2>1, <2>2, <2>3, SeriesAreNoRows, RowsAreResources DEF WellOrdered, InOrder, Entries
<1>11. QED
  BY <1>1, <1>2, <1>3, <1>4, <1>5, <1>6, <1>7, <1>8, <1>9, <1>10, OperationsAreModelled

-----------------------------------------------------------------------------
(* What a transaction under way holds                                      *)

LocksTyped ==
    /\ DOMAIN call = Requests
    /\ \A r \in Requests : /\ DOMAIN call[r] = {"state", "order", "plan", "drawn"}
                           /\ call[r].state \in {"NEW", "RUNNING", "COMMITTED", "FAILED"}
                           /\ call[r].plan \in Seq(Entries)
    /\ holder \in [Resources -> Requests \cup {Nobody}]
    /\ sharers \in [Resources -> SUBSET Requests]

Held(r) == {res \in Resources : holder[res] = r}

\* The first n entries of P are taken, the resources among them are held, and the rest
\* is still to take.
Follows(P, n, plan, held) ==
    /\ n \in 0..Len(P)
    /\ plan = [k \in 1..(Len(P) - n) |-> P[n + k]]
    /\ held = {P[k] : k \in 1..n} \cap Resources

UnderWay(c, held) ==
    /\ c.order \in Orders
    /\ \E operation \in Operations, p \in ToSet(Lines[c.order]), n \in Nat :
          Follows(Plan(operation, c.order, p), n, c.plan, held)

\* A transaction under way holds what its operation has taken so far, and nothing else;
\* any other request holds nothing.
PlansFollowed ==
    \A r \in Requests : IF Running(r) THEN UnderWay(call[r], Held(r)) ELSE Held(r) = {}

LocksInvariant == LocksTyped /\ PlansFollowed

LEMMA LocksStart == LedgerInit => LocksInvariant
<1> SUFFICES ASSUME LedgerInit PROVE LocksInvariant
  OBVIOUS
<1>1. LocksTyped
  <2>1. \A r \in Requests : call[r] = [state |-> "NEW", order |-> Nobody, plan |-> <<>>, drawn |-> NothingDrawn]
    BY DEF LedgerInit
  <2>2. <<>> \in Seq(Entries)
    OBVIOUS
  <2>3. /\ DOMAIN call = Requests /\ holder \in [Resources -> Requests \cup {Nobody}]
        /\ sharers \in [Resources -> SUBSET Requests]
    BY DEF LedgerInit
  <2> HIDE DEF NothingDrawn
  <2>4. \A r \in Requests : /\ DOMAIN call[r] = {"state", "order", "plan", "drawn"}
                            /\ call[r].state = "NEW" /\ call[r].plan = <<>>
    BY <2>1
  <2>5. QED
    BY <2>2, <2>3, <2>4 DEF LocksTyped
<1>2. PlansFollowed
  BY NobodyIsNoRequest DEF LedgerInit, PlansFollowed, Running, Held
<1>3. QED
  BY <1>1, <1>2 DEF LocksInvariant

\* A transaction that begins has taken nothing.
LEMMA NothingTaken ==
    ASSUME NEW operation \in Operations, NEW o \in Orders, NEW p \in ToSet(Lines[o])
    PROVE  Follows(Plan(operation, o, p), 0, Plan(operation, o, p), {})
<1> DEFINE P == Plan(operation, o, p)
<1>1. P \in Seq(Entries)
  BY PlansAreInOrder DEF WellOrdered
<1> HIDE DEF P
<1>2. Len(P) \in Nat /\ P = [k \in 1..Len(P) |-> P[k]]
  BY <1>1
<1>3. [k \in 1..(Len(P) - 0) |-> P[0 + k]] = [k \in 1..Len(P) |-> P[k]]
  BY <1>2
<1>4. Follows(P, 0, P, {})
  BY <1>2, <1>3 DEF Follows
<1>5. QED
  BY <1>4 DEF P

\* What is left of a sequence after n of its entries, and after one more.
LEMMA RestOfSequence ==
    ASSUME NEW R, NEW P \in Seq(R), NEW n \in 0..Len(P), NEW plan,
           plan = [k \in 1..(Len(P) - n) |-> P[n + k]], plan # <<>>
    PROVE  /\ n + 1 \in 1..Len(P)
           /\ Head(plan) = P[n + 1]
           /\ Tail(plan) \in Seq(R)
           /\ Tail(plan) = [k \in 1..(Len(P) - (n + 1)) |-> P[(n + 1) + k]]
<1> DEFINE l == Len(P) - n
<1>1. l \in Nat /\ n \in Nat /\ Len(P) \in Nat /\ l = Len(P) - n
  <2>1. Len(P) \in Nat
    OBVIOUS
  <2>2. QED
    BY <2>1
<1>2. \A k \in 1..l : n + k \in 1..Len(P)
  BY <1>1
<1>3. \A k \in 1..l : P[n + k] \in R
  BY <1>2
<1>4. plan = [k \in 1..l |-> P[n + k]]
  OBVIOUS
<1> HIDE DEF l
<1>5. plan \in [1..l -> R]
  BY <1>3, <1>4
<1>6. plan \in Seq(R) /\ Len(plan) = l
  BY <1>1, <1>5
<1>7. l # 0
  BY <1>6, EmptySeq
<1>8. n + 1 \in 1..Len(P) /\ 1 \in 1..l /\ l - 1 \in Nat /\ l - 1 = Len(P) - (n + 1)
  BY <1>1, <1>7
<1>9. plan[1] = P[n + 1]
  BY <1>4, <1>8
<1>10. Head(plan) = plan[1]
  BY <1>6
<1>11. Tail(plan) \in Seq(R) /\ Len(Tail(plan)) = l - 1
  BY <1>6, HeadTailProperties
<1>12. \A k \in 1..(l - 1) : Tail(plan)[k] = plan[k + 1]
  BY <1>6, <1>7, <1>11, HeadTailProperties
<1>13. \A k \in 1..(l - 1) : plan[k + 1] = P[(n + 1) + k]
  <2>1. SUFFICES ASSUME NEW k \in 1..(l - 1) PROVE plan[k + 1] = P[(n + 1) + k]
    OBVIOUS
  <2>2. k + 1 \in 1..l /\ n + (k + 1) = (n + 1) + k
    BY <1>1, <1>8
  <2>3. plan[k + 1] = P[n + (k + 1)]
    BY <1>4, <2>2
  <2>4. QED
    BY <2>2, <2>3
<1>14. Tail(plan) = [k \in 1..(l - 1) |-> Tail(plan)[k]]
  BY <1>11
<1>15. Tail(plan) = [k \in 1..(l - 1) |-> P[(n + 1) + k]]
  BY <1>12, <1>13, <1>14
<1>16. QED
  BY <1>8, <1>9, <1>10, <1>11, <1>15

\* The first of what is left is what the plan takes after n entries.
NextUp(P, n, plan) ==
    n + 1 \in 1..Len(P) /\ Head(plan) = P[n + 1] /\ Head(plan) \in Entries

\* One step along a plan.
LEMMA NextTaken ==
    ASSUME NEW operation \in Operations, NEW o \in Orders, NEW p \in ToSet(Lines[o]),
           NEW n \in Nat, NEW plan, NEW held,
           Follows(Plan(operation, o, p), n, plan, held), plan # <<>>
    PROVE  /\ NextUp(Plan(operation, o, p), n, plan)
           /\ Head(plan) \in Entries
           /\ Tail(plan) \in Seq(Entries)
           /\ Follows(Plan(operation, o, p), n + 1, Tail(plan), held \cup ({Head(plan)} \cap Resources))
<1> DEFINE P == Plan(operation, o, p)
<1>1. P \in Seq(Entries)
  BY PlansAreInOrder DEF WellOrdered
<1>2. /\ n \in 0..Len(P)
      /\ plan = [k \in 1..(Len(P) - n) |-> P[n + k]]
      /\ held = {P[k] : k \in 1..n} \cap Resources
  BY DEF Follows
<1> HIDE DEF P
<1>3. /\ n + 1 \in 1..Len(P)
      /\ Head(plan) = P[n + 1]
      /\ Tail(plan) \in Seq(Entries)
      /\ Tail(plan) = [k \in 1..(Len(P) - (n + 1)) |-> P[(n + 1) + k]]
  BY <1>1, <1>2, RestOfSequence
<1>4. held \cup ({P[n + 1]} \cap Resources) = {P[k] : k \in 1..(n + 1)} \cap Resources
  <2>1. 1..(n + 1) = 1..n \cup {n + 1}
    OBVIOUS
  <2>2. QED
    BY <1>2, <2>1
<1>5. n + 1 \in 0..Len(P) /\ Head(plan) \in Entries
  BY <1>1, <1>3
<1>6. Follows(P, n + 1, Tail(plan), held \cup ({Head(plan)} \cap Resources))
  BY <1>3, <1>4, <1>5 DEF Follows
<1>7. NextUp(P, n, plan)
  BY <1>3, <1>5 DEF NextUp
<1>8. QED
  BY <1>3, <1>5, <1>6, <1>7 DEF P

\* A request whose call and locks a step leaves alone stays as it is.
LEMMA OthersStay ==
    ASSUME PlansFollowed, NEW q \in Requests, call'[q] = call[q], Held(q)' = Held(q)
    PROVE  IF call'[q].state = "RUNNING" THEN UnderWay(call'[q], Held(q)') ELSE Held(q)' = {}
BY DEF PlansFollowed, Running

LEMMA BeginFollows ==
    ASSUME LocksInvariant, NEW r \in Requests, withTenant(r)
    PROVE  LocksInvariant'
<1>t. LocksTyped /\ PlansFollowed
  BY DEF LocksInvariant
<1>1. PICK operation \in Operations, o \in Orders, p \in Stocked :
        /\ p \in ToSet(Lines[o])
        /\ call' = [call EXCEPT ![r] = [state |-> "RUNNING", order |-> o,
                                        plan |-> Plan(operation, o, p), drawn |-> NothingDrawn]]
  BY DEF withTenant, Stocked
<1> HIDE DEF NothingDrawn
<1>2. /\ holder' = holder /\ sharers' = sharers /\ ~Running(r)
      /\ DOMAIN call' = Requests /\ \A q \in Requests : q # r => call'[q] = call[q]
      /\ DOMAIN call'[r] = {"state", "order", "plan", "drawn"}
      /\ call'[r].state = "RUNNING" /\ call'[r].order = o /\ call'[r].plan = Plan(operation, o, p)
  BY <1>t, <1>1 DEF withTenant, LocksTyped, Running
<1>3. Plan(operation, o, p) \in Seq(Entries)
  BY <1>1, PlansAreInOrder DEF WellOrdered
<1>4. LocksTyped'
  BY <1>t, <1>2, <1>3 DEF LocksTyped
<1>5. \A q : Held(q)' = Held(q)
  BY <1>2 DEF Held
<1>6. Held(r)' = {}
  BY <1>t, <1>2, <1>5 DEF PlansFollowed
<1>7. UnderWay(call'[r], Held(r)')
  <2>1. Follows(Plan(operation, o, p), 0, Plan(operation, o, p), {})
    BY <1>1, NothingTaken
  <2>2. QED
    BY <1>1, <1>2, <1>6, <2>1 DEF UnderWay
<1>8. \A q \in Requests :
          IF call'[q].state = "RUNNING" THEN UnderWay(call'[q], Held(q)') ELSE Held(q)' = {}
  BY <1>t, <1>2, <1>5, <1>7, OthersStay
<1>9. QED
  BY <1>4, <1>8 DEF LocksInvariant, PlansFollowed, Running

LEMMA TakeFollows ==
    ASSUME LocksInvariant, NEW r \in Requests, Take(r)
    PROVE  LocksInvariant'
<1> DEFINE res == Head(call[r].plan)
           d   == Drawn(r, res)
<1>t. LocksTyped /\ PlansFollowed
  BY DEF LocksInvariant
<1>1. /\ Running(r) /\ MayTake(r, res) /\ call[r].plan # <<>> /\ res \in Resources
      /\ holder' = [holder EXCEPT ![res] = r] /\ sharers' = sharers
      /\ call' = [call EXCEPT ![r].plan = Tail(@), ![r].drawn = d]
  BY DEF Take
<1>2. UnderWay(call[r], Held(r)) /\ call[r].order \in Orders
  BY <1>t, <1>1 DEF PlansFollowed, UnderWay
<1>3. PICK operation \in Operations, p \in ToSet(Lines[call[r].order]), n \in Nat :
          Follows(Plan(operation, call[r].order, p), n, call[r].plan, Held(r))
  BY <1>2 DEF UnderWay
<1>4. /\ Tail(call[r].plan) \in Seq(Entries)
      /\ Follows(Plan(operation, call[r].order, p), n + 1, Tail(call[r].plan), Held(r) \cup {res})
  <2>1. /\ Tail(call[r].plan) \in Seq(Entries)
        /\ Follows(Plan(operation, call[r].order, p), n + 1, Tail(call[r].plan),
                   Held(r) \cup ({res} \cap Resources))
    BY <1>1, <1>2, <1>3, NextTaken
  <2>2. {res} \cap Resources = {res}
    BY <1>1
  <2>3. QED
    BY <2>1, <2>2
<1> HIDE DEF res, d
<1>5. /\ DOMAIN call' = Requests /\ \A q \in Requests : q # r => call'[q] = call[q]
      /\ DOMAIN call'[r] = {"state", "order", "plan", "drawn"}
      /\ call'[r].state = "RUNNING" /\ call'[r].order = call[r].order
      /\ call'[r].plan = Tail(call[r].plan)
  BY <1>t, <1>1 DEF LocksTyped, Running
<1>6. LocksTyped'
  BY <1>t, <1>1, <1>4, <1>5 DEF LocksTyped
<1>7. Held(r)' = Held(r) \cup {res}
  BY <1>t, <1>1 DEF Held, LocksTyped
<1>8. \A q \in Requests : q # r => Held(q)' = Held(q)
  BY <1>t, <1>1, NobodyIsNoRequest DEF Held, LocksTyped, MayTake
<1>9. UnderWay(call'[r], Held(r)')
  BY <1>2, <1>4, <1>5, <1>7 DEF UnderWay
<1>10. \A q \in Requests :
          IF call'[q].state = "RUNNING" THEN UnderWay(call'[q], Held(q)') ELSE Held(q)' = {}
  BY <1>t, <1>5, <1>8, <1>9, OthersStay
<1>11. QED
  BY <1>6, <1>10 DEF LocksInvariant, PlansFollowed, Running

\* To share a row is to go on with the plan; what is held stays.
LEMMA ShareFollows ==
    ASSUME LocksInvariant, NEW r \in Requests, KeyShare(r)
    PROVE  LocksInvariant'
<1> DEFINE next == Head(call[r].plan)
<1>t. LocksTyped /\ PlansFollowed
  BY DEF LocksInvariant
<1>1. /\ Running(r) /\ call[r].plan # <<>> /\ next \in Shares /\ holder' = holder
      /\ sharers' = [sharers EXCEPT ![next[2]] = @ \cup {r}]
      /\ call' = [call EXCEPT ![r].plan = Tail(@)]
  BY DEF KeyShare
<1>2. UnderWay(call[r], Held(r)) /\ call[r].order \in Orders
  BY <1>t, <1>1 DEF PlansFollowed, UnderWay
<1>3. PICK operation \in Operations, p \in ToSet(Lines[call[r].order]), n \in Nat :
          Follows(Plan(operation, call[r].order, p), n, call[r].plan, Held(r))
  BY <1>2 DEF UnderWay
<1>4. /\ Tail(call[r].plan) \in Seq(Entries)
      /\ Follows(Plan(operation, call[r].order, p), n + 1, Tail(call[r].plan), Held(r))
  <2>1. /\ Tail(call[r].plan) \in Seq(Entries)
        /\ Follows(Plan(operation, call[r].order, p), n + 1, Tail(call[r].plan),
                   Held(r) \cup ({next} \cap Resources))
    BY <1>1, <1>2, <1>3, NextTaken
  <2>2. Held(r) \cup ({next} \cap Resources) = Held(r)
    BY <1>1, SharesAreNoResources
  <2>3. QED
    BY <2>1, <2>2
<1>5. sharers' \in [Resources -> SUBSET Requests]
  <2>1. PICK row \in Resources : next = Share(row)
    BY <1>1 DEF Shares
  <2>2. next[2] = row
    BY <2>1 DEF Share
  <2> HIDE DEF next
  <2>3. sharers[row] \cup {r} \in SUBSET Requests
    BY <1>t, <2>1 DEF LocksTyped
  <2>4. sharers' = [sharers EXCEPT ![row] = sharers[row] \cup {r}]
    BY <1>1, <2>2
  <2>5. QED
    BY <1>t, <2>3, <2>4 DEF LocksTyped
<1> HIDE DEF next
<1>6. /\ DOMAIN call' = Requests /\ \A q \in Requests : q # r => call'[q] = call[q]
      /\ DOMAIN call'[r] = {"state", "order", "plan", "drawn"}
      /\ call'[r].state = "RUNNING" /\ call'[r].order = call[r].order
      /\ call'[r].plan = Tail(call[r].plan)
  BY <1>t, <1>1 DEF LocksTyped, Running
<1>7. LocksTyped'
  BY <1>t, <1>1, <1>4, <1>5, <1>6 DEF LocksTyped
<1>8. \A q : Held(q)' = Held(q)
  BY <1>1 DEF Held
<1>9. UnderWay(call'[r], Held(r)')
  BY <1>2, <1>4, <1>6, <1>8 DEF UnderWay
<1>10. \A q \in Requests :
          IF call'[q].state = "RUNNING" THEN UnderWay(call'[q], Held(q)') ELSE Held(q)' = {}
  BY <1>t, <1>6, <1>8, <1>9, OthersStay
<1>11. QED
  BY <1>7, <1>10 DEF LocksInvariant, PlansFollowed, Running

LEMMA EndingFollows ==
    ASSUME LocksInvariant, NEW r \in Requests, Commit(r) \/ Rollback(r)
    PROVE  LocksInvariant'
<1>t. LocksTyped /\ PlansFollowed
  BY DEF LocksInvariant
<1>1. /\ DOMAIN call' = Requests /\ \A q \in Requests : q # r => call'[q] = call[q]
      /\ DOMAIN call'[r] = {"state", "order", "plan", "drawn"}
      /\ call'[r].state \in {"COMMITTED", "FAILED"} /\ call'[r].plan \in Seq(Entries)
  <2>1. CASE Commit(r)
    BY <1>t, <2>1 DEF Commit, LocksTyped
  <2>2. CASE Rollback(r)
    <3>1. <<>> \in Seq(Entries)
      OBVIOUS
    <3>2. call' = [call EXCEPT ![r].state = "FAILED", ![r].plan = <<>>]
      BY <2>2 DEF Rollback
    <3>3. QED
      BY <1>t, <3>1, <3>2 DEF LocksTyped
  <2>3. QED
    BY <2>1, <2>2
<1>2. holder' = [res \in Resources |-> IF holder[res] = r THEN Nobody ELSE holder[res]]
  BY DEF Commit, Rollback, Released
<1>3. LocksTyped'
  <2>1. sharers' = [res \in Resources |-> sharers[res] \ {r}]
    BY DEF Commit, Rollback, NoLongerShared
  <2>2. sharers' \in [Resources -> SUBSET Requests]
    BY <1>t, <2>1 DEF LocksTyped
  <2>3. QED
    BY <1>t, <1>1, <1>2, <2>2 DEF LocksTyped
<1>4. Held(r)' = {}
  BY <1>2, NobodyIsNoRequest DEF Held
<1>5. \A q \in Requests : q # r => Held(q)' = Held(q)
  BY <1>2, NobodyIsNoRequest DEF Held
<1>6. \A q \in Requests :
          IF call'[q].state = "RUNNING" THEN UnderWay(call'[q], Held(q)') ELSE Held(q)' = {}
  BY <1>t, <1>1, <1>4, <1>5, OthersStay
<1>7. QED
  BY <1>3, <1>6 DEF LocksInvariant, PlansFollowed, Running

LEMMA LocksStep == LocksInvariant /\ [LedgerNext]_ledgerVars => LocksInvariant'
<1> SUFFICES ASSUME LocksInvariant, [LedgerNext]_ledgerVars PROVE LocksInvariant'
  OBVIOUS
<1>1. ASSUME NEW r \in Requests, withTenant(r) \/ Take(r) \/ KeyShare(r) PROVE LocksInvariant'
  BY <1>1, BeginFollows, TakeFollows, ShareFollows
<1>2. ASSUME NEW r \in Requests, Commit(r) \/ Fail(r) \/ AbortDeadlock(r) PROVE LocksInvariant'
  BY <1>2, EndingFollows DEF Fail, AbortDeadlock
<1>3. CASE UNCHANGED ledgerVars
  <2>1. call' = call /\ holder' = holder /\ sharers' = sharers
    BY <1>3 DEF ledgerVars
  <2>2. QED
    BY <2>1, ZenonT(60) DEF LocksInvariant, LocksTyped, PlansFollowed, UnderWay, Held, Running
<1>4. QED
  BY <1>1, <1>2, <1>3 DEF LedgerNext

LEMMA LocksHold == LedgerSpec => []LocksInvariant
BY LocksStart, LocksStep, PTL DEF LedgerSpec
-----------------------------------------------------------------------------
(* Circles of waiting transactions                                         *)

Awaited(r) == Head(call[r].plan)

\* What a transaction holds comes before what it waits for, and whoever deals with the
\* number of a delivery holds the row of its order.
LEMMA HeldAndAwaited ==
    ASSUME LocksInvariant, NEW r \in Requests, Running(r), call[r].plan # <<>>
    PROVE  /\ Awaited(r) \in Entries
           /\ Row("sales_order", call[r].order) \in Resources
           /\ \A h \in Resources : holder[h] = r /\ Awaited(r) \in Resources =>
                  /\ h \in Series \ {Audit} => Awaited(r) = Audit
                  /\ h = Audit /\ Awaited(r) # Audit => Awaited(r) = Delivery
                  /\ h \notin Series /\ Awaited(r) \notin Series => Place(h) < Place(Awaited(r))
           /\ Awaited(r) = Delivery \/ holder[Delivery] = r =>
                  holder[Row("sales_order", call[r].order)] = r
<1>1. UnderWay(call[r], Held(r)) /\ call[r].order \in Orders
  BY DEF LocksInvariant, PlansFollowed, UnderWay
<1>2. PICK operation \in Operations, p \in ToSet(Lines[call[r].order]), n \in Nat :
          Follows(Plan(operation, call[r].order, p), n, call[r].plan, Held(r))
  BY <1>1 DEF UnderWay
<1>n. NextUp(Plan(operation, call[r].order, p), n, call[r].plan)
  BY <1>1, <1>2, NextTaken
<1> DEFINE o == call[r].order
           P == Plan(operation, o, p)
<1>3. WellOrdered(P, o)
  BY <1>1, PlansAreInOrder
<1>4. n + 1 \in 1..Len(P) /\ Awaited(r) = P[n + 1] /\ Awaited(r) \in Entries
  BY <1>n DEF Awaited, NextUp
<1>5. Held(r) = {P[k] : k \in 1..n} \cap Resources
  BY <1>2 DEF Follows
<1>6. Row("sales_order", o) \in Resources
  BY <1>1, RowsAreResources
<1> HIDE DEF o, P
<1>7. P \in Seq(Entries) /\ \A k \in 1..n : k \in 1..Len(P) /\ k < n + 1
  BY <1>3, <1>4 DEF WellOrdered
<1>8. ASSUME NEW h \in Resources, holder[h] = r
      PROVE  \E k \in 1..n : h = P[k] /\ (Awaited(r) \in Resources => InOrder(P, k, n + 1))
  <2>1. PICK k \in 1..n : h = P[k]
    BY <1>5, <1>8 DEF Held
  <2>2. Awaited(r) \in Resources => InOrder(P, k, n + 1)
    BY <1>3, <1>4, <1>7, <1>8, <2>1 DEF WellOrdered
  <2>3. QED
    BY <2>1, <2>2
<1>9. ASSUME NEW h \in Resources, holder[h] = r, Awaited(r) \in Resources
      PROVE  /\ h \in Series \ {Audit} => Awaited(r) = Audit
             /\ h = Audit /\ Awaited(r) # Audit => Awaited(r) = Delivery
             /\ h \notin Series /\ Awaited(r) \notin Series => Place(h) < Place(Awaited(r))
  BY <1>4, <1>8, <1>9 DEF InOrder
<1>10. ASSUME NEW k \in 1..Len(P), P[k] = Delivery, k <= n + 1
       PROVE  holder[Row("sales_order", o)] = r
  <2>1. k > 1 /\ P[1] = Row("sales_order", o)
    BY <1>3, <1>10 DEF WellOrdered
  <2>2. 1 \in 1..n
    BY <1>10, <2>1
  <2>3. QED
    BY <1>5, <1>6, <2>1, <2>2 DEF Held
<1>11. Awaited(r) = Delivery => holder[Row("sales_order", o)] = r
  <2>1. n + 1 <= n + 1
    OBVIOUS
  <2>2. QED
    BY <1>4, <1>10, <2>1
<1>12. holder[Delivery] = r => holder[Row("sales_order", o)] = r
  <2>1. ASSUME holder[Delivery] = r PROVE holder[Row("sales_order", o)] = r
    <3>1. PICK k \in 1..n : Delivery = P[k]
      BY <1>8, <2>1, SeriesAreNoRows
    <3>2. k \in 1..Len(P) /\ k <= n + 1
      BY <1>7
    <3>3. QED
      BY <1>10, <3>1, <3>2
  <2>2. QED
    BY <2>1
<1>13. QED
  BY <1>4, <1>6, <1>9, <1>11, <1>12 DEF o

\* Who holds what r waits for.
Keeper(r) == holder[Awaited(r)]

\* In a circle without a foreign key everybody waits for what another one in it holds.
LEMMA InACircle ==
    ASSUME LocksInvariant, NEW S \in Closed, ~ThroughAForeignKey(S), NEW r \in S
    PROVE  /\ r \in Requests /\ Running(r) /\ call[r].plan # <<>> /\ Awaited(r) \in Resources
           /\ Keeper(r) \in S /\ Keeper(r) # r /\ Keeper(r) \in WaitsFor(r)
<1>1. S \in SUBSET Requests /\ WaitsFor(r) \cap S # {} /\ r \in Requests
  BY DEF Closed
<1>2. Running(r) /\ call[r].plan # <<>>
  BY <1>1 DEF WaitsFor
<1>3. Awaited(r) \notin Shares /\ sharers[Awaited(r)] \cap (S \ {r}) = {}
  BY DEF ThroughAForeignKey, Awaited
<1>4. Awaited(r) \in Resources
  BY <1>1, <1>2, <1>3, HeldAndAwaited DEF Entries
<1>5. WaitsFor(r) = ({Keeper(r)} \cup sharers[Awaited(r)]) \ {Nobody, r}
  BY <1>2, <1>3 DEF WaitsFor, Awaited, Keeper
<1>6. PICK q \in S : q \in WaitsFor(r)
  BY <1>1
<1>7. q # r /\ q = Keeper(r)
  BY <1>3, <1>5, <1>6
<1>8. QED
  BY <1>1, <1>2, <1>4, <1>6, <1>7

\* In such a circle everybody is waited for.
LEMMA EverybodyIsWaitedFor ==
    ASSUME LocksInvariant, NEW S \in Circles, ~ThroughAForeignKey(S), NEW r \in S
    PROVE  \E q \in S : Keeper(q) = r
<1> DEFINE T == {Keeper(q) : q \in S}
<1>1. S \in Closed /\ S \in SUBSET Requests /\ S # {}
  BY DEF Circles, Closed
<1>2. \A q \in S : Keeper(q) \in S /\ Keeper(q) \in WaitsFor(q)
  BY <1>1, InACircle
<1>3. T \subseteq S /\ T # {}
  BY <1>1, <1>2
<1>4. \A q \in T : WaitsFor(q) \cap T # {}
  BY <1>2, <1>3
<1>5. T \in Closed
  BY <1>1, <1>3, <1>4 DEF Closed
<1>6. T = S
  BY <1>3, <1>5 DEF Circles
<1>7. QED
  BY <1>6

\* Every row has a place in the chain.
LEMMA PlaceOfARow ==
    ASSUME NEW res \in Resources, res \notin Series
    PROVE  Place(res) \in Nat
<1>1. CASE \E p \in Stocked : res = ProductRow(p)
  <2>1. Stocked \subseteq Nat
    BY LinesNameProducts DEF Stocked, ToSet
  <2>2. QED
    BY <1>1, <2>1, SeriesAreNoRows
<1>2. CASE res \in {"payment", "sales_order", "warehouse_task", "delivery", "discrepancy"} \X Orders
  BY <1>2 DEF Place
<1>3. QED
  BY <1>1, <1>2 DEF Resources

\* The rows alone never close a circle: somebody in it waits for the audit log.
LEMMA AuditIsAwaited ==
    ASSUME LocksInvariant, NEW S \in Circles, ~ThroughAForeignKey(S)
    PROVE  \E r \in S : Awaited(r) = Audit
<1> SUFFICES ASSUME \A r \in S : Awaited(r) # Audit PROVE FALSE
  OBVIOUS
<1>1. S \in Closed /\ S # {}
  BY DEF Circles, Closed
<1>i. \A r \in S : /\ r \in Requests /\ Running(r) /\ call[r].plan # <<>>
                   /\ Awaited(r) \in Resources /\ Keeper(r) \in S
  BY <1>1, InACircle
<1>2. \A r \in S : Awaited(r) \in Resources /\ Awaited(r) \notin Series
  <2>1. SUFFICES ASSUME NEW r \in S, Awaited(r) \in Series PROVE FALSE
    BY <1>i
  <2>2. Keeper(r) \in S /\ holder[Awaited(r)] = Keeper(r) /\ Awaited(r) \in Resources
    BY <1>i DEF Keeper
  <2>3. Awaited(Keeper(r)) = Audit
    BY <1>i, <2>1, <2>2, HeldAndAwaited
  <2>4. QED
    BY <2>2, <2>3
<1> DEFINE N == {Place(Awaited(r)) : r \in S}
<1>3. N \in SUBSET Nat /\ N # {}
  BY <1>1, <1>2, PlaceOfARow
<1>4. PICK x \in N : \A y \in N : x <= y
  BY <1>3, LeastNatural
<1>5. PICK r \in S : x = Place(Awaited(r))
  OBVIOUS
<1>6. PICK q \in S : Keeper(q) = r
  BY EverybodyIsWaitedFor
<1>7. holder[Awaited(q)] = r
  BY <1>6 DEF Keeper
<1>8. Place(Awaited(q)) < Place(Awaited(r))
  BY <1>i, <1>2, <1>7, HeldAndAwaited
<1>9. Place(Awaited(q)) \in Nat /\ x \in Nat /\ x <= Place(Awaited(q))
  BY <1>3, <1>4
<1>10. QED
  BY <1>5, <1>8, <1>9

\* Without a foreign key, whoever holds the audit log then waits for the number of a
\* delivery, and whoever holds that waits for the audit log: the two are the circle.
LEMMA CirclesAreOfTwoOrders == LocksInvariant => RowChainNeverDeadlocks
<1> SUFFICES ASSUME LocksInvariant, NEW S \in Circles, ~ThroughAForeignKey(S)
             PROVE  /\ \E r \in S : Awaited(r) = Audit
                    /\ \E r \in S : Awaited(r) \in Series \ {Audit}
                    /\ \A q, r \in S : q # r => call[q].order # call[r].order
  BY DEF RowChainNeverDeadlocks, Awaited
<1>1. S \in Closed
  BY DEF Circles
<1>i. \A r \in S : /\ r \in Requests /\ Running(r) /\ call[r].plan # <<>>
                   /\ Awaited(r) \in Resources /\ Keeper(r) \in S /\ Keeper(r) # r
                   /\ Keeper(r) \in WaitsFor(r) /\ holder[Awaited(r)] = Keeper(r)
  BY <1>1, InACircle DEF Keeper
<1>2. PICK r \in S : Awaited(r) = Audit
  BY AuditIsAwaited
<1> DEFINE q == Keeper(r)
           t == Keeper(q)
<1>3. q \in S /\ holder[Audit] = q
  BY <1>i, <1>2
<1>4. t \in S /\ t # q /\ holder[Awaited(q)] = t
  BY <1>i, <1>3
<1> HIDE DEF q, t
<1>5. Awaited(q) = Delivery /\ holder[Row("sales_order", call[q].order)] = q
  <2>1. q \in Requests /\ Running(q) /\ call[q].plan # <<>> /\ Awaited(q) \in Resources
    BY <1>i, <1>3
  <2>2. Awaited(q) # Audit
    BY <1>3, <1>4
  <2>3. QED
    BY <1>3, <2>1, <2>2, HeldAndAwaited, SeriesAreNoRows
<1>6. Awaited(t) = Audit /\ holder[Row("sales_order", call[t].order)] = t
  <2>1. /\ t \in Requests /\ Running(t) /\ call[t].plan # <<>> /\ Awaited(t) \in Resources
        /\ holder[Delivery] = t
    BY <1>i, <1>4, <1>5
  <2>2. QED
    BY <2>1, HeldAndAwaited, SeriesAreNoRows
<1>7. S = {q, t}
  <2>1. Keeper(t) = q /\ Keeper(q) = t
    BY <1>3, <1>6 DEF t, Keeper
  <2>2. q \in WaitsFor(t) /\ t \in WaitsFor(q)
    BY <1>i, <1>3, <1>4, <2>1
  <2>3. {q, t} \in Closed
    BY <1>i, <1>3, <1>4, <2>2 DEF Closed
  <2>4. QED
    BY <1>3, <1>4, <2>3 DEF Circles
<1>8. call[q].order # call[t].order
  BY <1>4, <1>5, <1>6
<1>9. QED
  BY <1>2, <1>3, <1>5, <1>7, <1>8, SeriesAreNoRows

\* fulfillment/index.ts, lock ordering: the rows are locked FOR UPDATE along one chain, so
\* a circle that no foreign key's lock takes part in is not made of rows alone, nor of
\* requests over the same order.
THEOREM OnlyTwoOrdersDeadlock == LedgerSpec => []RowChainNeverDeadlocks
BY LocksHold, CirclesAreOfTwoOrders, PTL

-----------------------------------------------------------------------------
(* The types of the ledger                                                 *)

Positive == Nat \ {0}

DrawnArePositive == \A r \in Requests : call[r].drawn \in [Series -> Seq(Positive)]

LEMMA DrawnStart == LedgerInit => DrawnArePositive
<1> SUFFICES ASSUME LedgerInit PROVE DrawnArePositive
  OBVIOUS
<1>1. NothingDrawn \in [Series -> Seq(Positive)]
  BY DEF NothingDrawn
<1>2. \A r \in Requests : call[r].drawn = NothingDrawn
  BY DEF LedgerInit
<1>3. QED
  BY <1>1, <1>2 DEF DrawnArePositive

\* Whatever a call draws, and when, is positive.
LEMMA DrawnStep ==
    ASSUME LedgerInvariant, DrawnArePositive, [LedgerNext]_ledgerVars
    PROVE  DrawnArePositive'
<1>t. /\ DOMAIN call = Requests
      /\ \A r \in Requests : /\ DOMAIN call[r] = {"state", "order", "plan", "drawn"}
                             /\ call[r].drawn \in [Series -> Seq(Positive)]
  BY DEF LedgerInvariant, LedgerTyped, DrawnArePositive
<1>1. ASSUME NEW r \in Requests, withTenant(r) PROVE DrawnArePositive'
  <2>1. NothingDrawn \in [Series -> Seq(Positive)]
    BY DEF NothingDrawn
  <2>2. PICK operation \in Operations, o \in Orders, p \in Stocked :
          /\ p \in ToSet(Lines[o])
          /\ call' = [call EXCEPT ![r] = [state |-> "RUNNING", order |-> o,
                                          plan |-> Plan(operation, o, p), drawn |-> NothingDrawn]]
    BY <1>1 DEF withTenant, Stocked
  <2> HIDE DEF NothingDrawn
  <2>3. call'[r].drawn = NothingDrawn /\ \A q \in Requests : q # r => call'[q] = call[q]
    BY <1>t, <2>2
  <2>4. QED
    BY <1>t, <2>1, <2>3 DEF DrawnArePositive
<1>2. ASSUME NEW r \in Requests, Take(r) PROVE DrawnArePositive'
  <2> DEFINE res == Head(call[r].plan)
             old == call[r].drawn
             new == Drawn(r, res)
  <2>1. call' = [call EXCEPT ![r].plan = Tail(@), ![r].drawn = new] /\ Running(r) /\ MayTake(r, res)
    BY <1>2 DEF Take
  <2> HIDE DEF res
  <2>2. new \in [Series -> Seq(Positive)]
    <3>1. CASE res \in Series
      <4>1. NextOf(r, res) = Len(published[res]) + Len(old[res]) + 1
        BY <2>1, <3>1, DrawsTheNext
      <4>2. Len(published[res]) \in Nat /\ Len(old[res]) \in Nat
        <5>1. published[res] \in Seq(Nat) /\ old[res] \in Seq(Positive)
          BY <1>t, <3>1 DEF LedgerInvariant, LedgerTyped
        <5>2. QED
          BY <5>1
      <4>3. NextOf(r, res) \in Positive
        <5>1. \A i, j \in Nat : i + j + 1 \in Positive
          BY DEF Positive
        <5>2. QED
          BY <4>1, <4>2, <5>1
      <4>4. Append(old[res], NextOf(r, res)) \in Seq(Positive)
        <5>1. old[res] \in Seq(Positive)
          BY <1>t, <3>1
        <5>2. QED
          BY <4>3, <5>1
      <4>5. new = [old EXCEPT ![res] = Append(old[res], NextOf(r, res))]
        BY <3>1 DEF Drawn
      <4>6. old \in [Series -> Seq(Positive)]
        BY <1>t
      <4> HIDE DEF old, new
      <4>7. QED
        BY <4>4, <4>5, <4>6
    <3>2. CASE res \notin Series
      BY <1>t, <3>2 DEF Drawn
    <3>3. QED
      BY <3>1, <3>2
  <2> HIDE DEF new
  <2>3. call'[r].drawn = new /\ \A q \in Requests : q # r => call'[q] = call[q]
    BY <1>t, <2>1
  <2>4. QED
    BY <1>t, <2>2, <2>3 DEF DrawnArePositive
<1>3. ASSUME NEW r \in Requests, KeyShare(r) \/ Commit(r) \/ Fail(r) \/ AbortDeadlock(r)
      PROVE  DrawnArePositive'
  <2>1. /\ call'[r].drawn = call[r].drawn
        /\ \A q \in Requests : q # r => call'[q] = call[q]
    BY <1>t, <1>3 DEF KeyShare, Commit, Fail, AbortDeadlock, Rollback
  <2>2. QED
    BY <1>t, <2>1 DEF DrawnArePositive
<1>4. CASE UNCHANGED ledgerVars
  BY <1>4 DEF ledgerVars, DrawnArePositive
<1>5. QED
  BY <1>1, <1>2, <1>3, <1>4 DEF LedgerNext

LEMMA LedgerIsTyped ==
    ASSUME LedgerInvariant, LocksInvariant, DrawnArePositive
    PROVE  LedgerTypeOK
<1>1. published \in [Series -> Seq(Positive)]
  <2>1. ASSUME NEW s \in Series PROVE published[s] \in Seq(Positive)
    <3>1. published[s] \in Seq(Nat) /\ \A k \in DOMAIN published[s] : published[s][k] = k
      BY DEF LedgerInvariant, LedgerTyped, NumberedInCommitOrder
    <3>2. Len(published[s]) \in Nat /\ published[s] \in [1..Len(published[s]) -> Nat]
      BY <3>1
    <3>3. \A k \in 1..Len(published[s]) : published[s][k] \in Positive
      BY <3>1, <3>2 DEF Positive
    <3>4. published[s] \in [1..Len(published[s]) -> Positive]
      BY <3>2, <3>3
    <3>5. QED
      BY <3>2, <3>4
  <2>2. QED
    BY <2>1 DEF LedgerInvariant, LedgerTyped
<1>2. nextValue \in [SequenceKind -> Positive]
  <2>1. ASSUME NEW kind \in SequenceKind PROVE nextValue[kind] \in Positive
    <3> DEFINE s == Number(kind)
               mine == IF holder[s] = Nobody THEN 0 ELSE Len(call[holder[s]].drawn[s])
    <3>1. s \in Series
      BY SeriesDiffer
    <3>2. published[s] \in Seq(Nat)
      BY <3>1 DEF LedgerInvariant, LedgerTyped
    <3>3. mine \in Nat
      <4>1. CASE holder[s] = Nobody
        BY <4>1
      <4>2. CASE holder[s] # Nobody
        <5>1. holder[s] \in Requests
          BY <3>1, <4>2 DEF LedgerInvariant, SeriesAreLocked
        <5>2. call[holder[s]].drawn[s] \in Seq(Nat)
          BY <3>1, <5>1 DEF LedgerInvariant, LedgerTyped
        <5>3. Len(call[holder[s]].drawn[s]) \in Nat
          BY <5>2
        <5>4. QED
          BY <4>2, <5>3
      <4>3. QED
        BY <4>1, <4>2
    <3>4. nextValue[kind] = 1 + Len(published[s]) + mine
      BY DEF LedgerInvariant, CountersFollow
    <3> HIDE DEF s, mine
    <3>5. Len(published[s]) \in Nat
      BY <3>2
    <3>6. QED
      BY <3>3, <3>4, <3>5 DEF Positive
  <2>2. QED
    BY <2>1 DEF LedgerInvariant, LedgerTyped
<1>3. QED
  BY <1>1, <1>2 DEF LocksInvariant, LocksTyped, DrawnArePositive, LedgerTypeOK, Positive, Entries

LEMMA LedgerTypesHold == LedgerSpec => []LedgerTypeOK
<1>1. LedgerSpec => []LedgerInvariant
  BY LedgerStarts, LedgerStep, PTL DEF LedgerSpec
<1>2. LedgerInvariant /\ DrawnArePositive /\ [LedgerNext]_ledgerVars => DrawnArePositive'
  BY DrawnStep
<1>3. LedgerInvariant /\ LocksInvariant /\ DrawnArePositive => LedgerTypeOK
  BY LedgerIsTyped
<1>4. QED
  BY <1>1, <1>2, <1>3, DrawnStart, LocksHold, PTL DEF LedgerSpec

-----------------------------------------------------------------------------
(* Imports and the stock ledger                                            *)

StockRow    == [stock : 0..MaxStock, baseline : 0..MaxStock]
SheetRow    == [sku : Skus, quantity : 0..MaxStock]
MovementRow == [type : {"MANUAL_ADJUSTMENT", "OPENING_BALANCE"}, delta : Int, after : Int]

ImportTyped ==
    /\ product \in [Skus -> StockRow \cup {None}]
    /\ movement \in [Skus -> Seq(MovementRow)]
    /\ jobs \subseteq Files
    /\ import \in [Imports -> [step : Parsed, file : Files \cup {None},
                               todo : SUBSET SheetRow, written : SUBSET SheetRow]]

\* A call that writes has the rows of its file at hand, each for a known product, no
\* two for the same one; any other call has none.
RowsAtHand ==
    \A i \in Imports :
        LET rows == import[i].todo \cup import[i].written
        IN  IF import[i].step = "WRITING"
            THEN /\ import[i].file \in Files /\ rows = ToSet(Content[import[i].file])
                 /\ \A row \in rows : Known(row.sku)
                 /\ \A row, other \in rows : row.sku = other.sku => row = other
            ELSE rows = {}

\* What a call has written is still empty for everybody else, and nobody else writes it.
WrittenIsHeld ==
    \A i \in Imports : \A row \in import[i].written :
        /\ Stock(row.sku) = 0
        /\ \A j \in Imports : j # i => \A other \in import[j].written : other.sku # row.sku

\* The figure that movement k of a product left behind, 0 standing for its creation.
Left(s, k) == IF k = 0 THEN product[s].baseline ELSE movement[s][k].after

\* The ledger of a product, and of one that is not there yet.
HistoryExplains ==
    \A s \in Skus :
        IF Known(s)
        THEN /\ \A k \in DOMAIN movement[s] :
                    movement[s][k].after = Left(s, k - 1) + movement[s][k].delta
             /\ Stock(s) = Left(s, Len(movement[s]))
        ELSE movement[s] = <<>>

ImportInvariant ==
    ImportTyped /\ RowsAtHand /\ WrittenIsHeld /\ HistoryExplains /\ ImportedWhole

LEMMA ImportStarts == ImportInit => ImportInvariant
<1> SUFFICES ASSUME ImportInit PROVE ImportInvariant
  OBVIOUS
<1>1. ImportTyped
  BY DEF ImportInit, ImportTyped, Parsed
<1>2. RowsAtHand /\ WrittenIsHeld
  BY DEF ImportInit, RowsAtHand, WrittenIsHeld
<1>3. HistoryExplains
  BY DEF ImportInit, HistoryExplains, Known
<1>4. ImportedWhole
  BY DEF ImportInit, ImportedWhole
<1>5. QED
  BY <1>1, <1>2, <1>3, <1>4 DEF ImportInvariant

\* One more movement explains one more change.
LEMMA HistoryGrows ==
    ASSUME NEW m \in Seq(MovementRow), NEW base \in Int, NEW stock \in Int, NEW row \in MovementRow,
           \A k \in DOMAIN m : m[k].after = (IF k - 1 = 0 THEN base ELSE m[k - 1].after) + m[k].delta,
           stock = (IF Len(m) = 0 THEN base ELSE m[Len(m)].after),
           row.after = stock + row.delta
    PROVE  LET grown == Append(m, row)
           IN  /\ grown \in Seq(MovementRow)
               /\ \A k \in DOMAIN grown :
                     grown[k].after = (IF k - 1 = 0 THEN base ELSE grown[k - 1].after) + grown[k].delta
               /\ row.after = (IF Len(grown) = 0 THEN base ELSE grown[Len(grown)].after)
               /\ \A k \in DOMAIN m : k \in DOMAIN grown /\ grown[k] = m[k]
               /\ \A k \in DOMAIN grown : k \in DOMAIN m \/ grown[k] = row
               /\ \E k \in DOMAIN grown : grown[k] = row
<1> DEFINE grown == Append(m, row)
           n     == Len(m)
<1>1. n \in Nat /\ DOMAIN m = 1..n
  OBVIOUS
<1>2. /\ grown \in Seq(MovementRow) /\ Len(grown) = n + 1 /\ DOMAIN grown = 1..(n + 1)
      /\ grown[n + 1] = row /\ \A k \in 1..n : grown[k] = m[k]
  OBVIOUS
<1> HIDE DEF grown, n
<1>3. ASSUME NEW k \in 1..(n + 1)
      PROVE  grown[k].after = (IF k - 1 = 0 THEN base ELSE grown[k - 1].after) + grown[k].delta
  <2>1. CASE k \in 1..n
    <3>1. k - 1 # 0 => k - 1 \in 1..n
      BY <1>1, <2>1
    <3>2. QED
      BY <1>1, <1>2, <2>1, <3>1
  <2>2. CASE k \notin 1..n
    <3>1. k = n + 1 /\ k - 1 = n /\ (n # 0 => n \in 1..n)
      BY <1>1, <1>3, <2>2
    <3>2. grown[k] = row /\ (n # 0 => grown[n] = m[n])
      BY <1>2, <3>1
    <3>3. stock = IF n = 0 THEN base ELSE m[n].after
      BY DEF n
    <3>4. QED
      BY <3>1, <3>2, <3>3
  <2>3. QED
    BY <2>1, <2>2
<1>4. Len(grown) # 0 /\ grown[Len(grown)] = row /\ n + 1 \in DOMAIN grown
  BY <1>1, <1>2
<1>5. \A k \in 1..(n + 1) : k \in 1..n \/ k = n + 1
  BY <1>1
<1>6. \A k \in 1..n : k \in 1..(n + 1)
  BY <1>1
<1>7. /\ grown \in Seq(MovementRow)
      /\ \A k \in DOMAIN grown :
            grown[k].after = (IF k - 1 = 0 THEN base ELSE grown[k - 1].after) + grown[k].delta
      /\ row.after = (IF Len(grown) = 0 THEN base ELSE grown[Len(grown)].after)
      /\ \A k \in DOMAIN m : k \in DOMAIN grown /\ grown[k] = m[k]
      /\ \A k \in DOMAIN grown : k \in DOMAIN m \/ grown[k] = row
      /\ \E k \in DOMAIN grown : grown[k] = row
  BY <1>1, <1>2, <1>3, <1>4, <1>5, <1>6
<1>8. QED
  BY <1>7 DEF grown

\* What the office and the price list may do under an import: nothing disappears, and
\* the figures of the rows that are written stay.
LEMMA HeldRowsKept ==
    ASSUME ImportInvariant, product' \in [Skus -> StockRow \cup {None}],
           \A s \in Skus : product[s] # None => product'[s] # None,
           \A s \in Skus : LockedByImport(s) => product'[s].stock = product[s].stock,
           \A i \in Imports :
              /\ import'[i].todo = import[i].todo /\ import'[i].written = import[i].written
              /\ import'[i].file = import[i].file
              /\ import'[i].step = "WRITING" <=> import[i].step = "WRITING"
    PROVE  RowsAtHand' /\ WrittenIsHeld'
<1>t. import \in [Imports -> [step : Parsed, file : Files \cup {None},
                              todo : SUBSET SheetRow, written : SUBSET SheetRow]]
  BY DEF ImportInvariant, ImportTyped
<1>1. \A i \in Imports : \A row \in import[i].todo \cup import[i].written : row.sku \in Skus
  BY <1>t DEF SheetRow
<1>2. RowsAtHand'
  BY <1>1 DEF ImportInvariant, RowsAtHand, Known
<1>3. \A i \in Imports : \A row \in import[i].written : LockedByImport(row.sku)
  BY DEF LockedByImport
<1>4. WrittenIsHeld'
  BY <1>1, <1>3 DEF ImportInvariant, WrittenIsHeld, Stock
<1>5. QED
  BY <1>2, <1>4

LEMMA RowsOfAFile ==
    ASSUME NEW f \in Files, NEW j \in DOMAIN Content[f]
    PROVE  /\ Content[f][j] \in [sku : Skus, quantity : -1..MaxStock]
           /\ Content[f][j].sku \in Skus
<1> DEFINE Sheet == [sku : Skus, quantity : -1..MaxStock]
<1>1. Content[f] \in Seq(Sheet)
  BY ContentIsRows
<1> HIDE DEF Sheet
<1>2. Content[f][j] \in Sheet
  BY <1>1
<1>3. QED
  BY <1>2 DEF Sheet

LEMMA OfficeKeeps ==
    ASSUME ImportInvariant, NEW s \in Skus,
           \/ createProduct(s, 0) \/ createProduct(s, 1)
           \/ \E delta \in Deltas : adjustStock(s, delta)
    PROVE  ImportInvariant'
<1>b. MaxStock \in Nat \ {0} /\ Deltas \subseteq Int /\ None \notin StockRow
  BY ImportBounds DEF StockRow
<1>t. ImportTyped /\ product \in [Skus -> StockRow \cup {None}] /\ movement \in [Skus -> Seq(MovementRow)]
  BY DEF ImportInvariant, ImportTyped
<1>1. CASE createProduct(s, 0) \/ createProduct(s, 1)
  <2>1. PICK stock \in {0, 1} : createProduct(s, stock)
    BY <1>1
  <2> DEFINE row == [stock |-> stock, baseline |-> stock]
  <2>2. /\ product[s] = None /\ product' = [product EXCEPT ![s] = row]
        /\ UNCHANGED <<movement, jobs, import>>
    BY <2>1 DEF createProduct, Known
  <2>3. row \in StockRow /\ row.stock = row.baseline
    BY <1>b DEF StockRow
  <2> HIDE DEF row
  <2>4. /\ product' \in [Skus -> StockRow \cup {None}] /\ product'[s] = row
        /\ \A t \in Skus : t # s => product'[t] = product[t]
    BY <1>t, <2>2, <2>3
  <2>5. ImportTyped'
    BY <1>t, <2>2, <2>4 DEF ImportTyped
  <2>6. ~LockedByImport(s)
    <3>1. SUFFICES ASSUME NEW i \in Imports, NEW r \in import[i].written, r.sku = s PROVE FALSE
      BY DEF LockedByImport
    <3>2. Known(r.sku)
      BY <3>1 DEF ImportInvariant, RowsAtHand
    <3>3. QED
      BY <2>2, <3>1, <3>2 DEF Known
  <2>7. RowsAtHand' /\ WrittenIsHeld'
    <3>1. \A t \in Skus : product[t] # None => product'[t] # None
      BY <2>2, <2>4
    <3>2. \A t \in Skus : LockedByImport(t) => product'[t].stock = product[t].stock
      BY <2>4, <2>6
    <3>3. QED
      BY <2>2, <2>4, <3>1, <3>2, HeldRowsKept
  <2>8. HistoryExplains'
    <3>1. ASSUME NEW t \in Skus, t # s
          PROVE  IF Known(t)' THEN /\ \A k \in DOMAIN movement'[t] :
                                         movement'[t][k].after = Left(t, k - 1)' + movement'[t][k].delta
                                   /\ Stock(t)' = Left(t, Len(movement[t]))'
                 ELSE movement'[t] = <<>>
      BY <2>2, <2>4, <3>1 DEF ImportInvariant, HistoryExplains, Known, Stock, Left
    <3>2. movement'[s] = <<>> /\ Stock(s)' = product'[s].baseline /\ Known(s)'
      BY <1>b, <2>2, <2>3, <2>4 DEF ImportInvariant, HistoryExplains, Known, Stock
    <3>3. /\ \A k \in DOMAIN movement'[s] :
                 movement'[s][k].after = Left(s, k - 1)' + movement'[s][k].delta
          /\ Stock(s)' = Left(s, Len(movement[s]))'
      BY <3>2 DEF Left
    <3>4. QED
      BY <3>1, <3>2, <3>3 DEF HistoryExplains
  <2>9. ImportedWhole'
    BY <2>2 DEF ImportInvariant, ImportedWhole
  <2>10. QED
    BY <2>5, <2>7, <2>8, <2>9 DEF ImportInvariant
<1>2. ASSUME NEW delta \in Deltas, adjustStock(s, delta) PROVE ImportInvariant'
  <2> DEFINE new == product[s].stock + delta
             row == Entry("MANUAL_ADJUSTMENT", delta, new)
  <2>1. /\ product[s] # None /\ ~LockedByImport(s) /\ new \in 0..MaxStock
        /\ product' = [product EXCEPT ![s].stock = new]
        /\ movement' = [movement EXCEPT ![s] = Append(movement[s], row)]
        /\ UNCHANGED <<jobs, import>>
    BY <1>2 DEF adjustStock, Known, Stock
  <2>2. product[s] \in StockRow /\ product[s].stock \in Int /\ product[s].baseline \in Int /\ delta \in Int
    BY <1>b, <1>t, <2>1 DEF StockRow
  <2>3. row \in MovementRow /\ row.after = product[s].stock + row.delta /\ row.after = new
        /\ row.type # "OPENING_BALANCE"
    BY <1>b, <2>1, <2>2 DEF Entry, MovementRow
  <2>4. [product[s] EXCEPT !.stock = new] \in StockRow
          /\ [product[s] EXCEPT !.stock = new].stock = new
          /\ [product[s] EXCEPT !.stock = new].baseline = product[s].baseline
    BY <2>1, <2>2 DEF StockRow
  <2> HIDE DEF new, row
  <2>5. /\ product' \in [Skus -> StockRow \cup {None}]
        /\ product'[s] \in StockRow /\ product'[s].stock = new
        /\ product'[s].baseline = product[s].baseline
        /\ \A t \in Skus : t # s => product'[t] = product[t]
    BY <1>t, <2>1, <2>4
  <2> DEFINE m == movement[s]
             grown == Append(m, row)
  <2>6. /\ m \in Seq(MovementRow)
        /\ \A k \in DOMAIN m :
              m[k].after = (IF k - 1 = 0 THEN product[s].baseline ELSE m[k - 1].after) + m[k].delta
        /\ product[s].stock = (IF Len(m) = 0 THEN product[s].baseline ELSE m[Len(m)].after)
    BY <1>t, <2>1 DEF ImportInvariant, HistoryExplains, Known, Stock, Left
  <2> HIDE DEF m
  <2>7. /\ grown \in Seq(MovementRow)
        /\ \A k \in DOMAIN grown :
              grown[k].after = (IF k - 1 = 0 THEN product[s].baseline ELSE grown[k - 1].after)
                                   + grown[k].delta
        /\ new = (IF Len(grown) = 0 THEN product[s].baseline ELSE grown[Len(grown)].after)
        /\ \A k \in DOMAIN m : k \in DOMAIN grown /\ grown[k] = m[k]
        /\ \A k \in DOMAIN grown : k \in DOMAIN m \/ grown[k] = row
    BY <2>2, <2>3, <2>6, HistoryGrows
  <2> HIDE DEF grown
  <2>8. /\ movement' \in [Skus -> Seq(MovementRow)] /\ movement'[s] = grown
        /\ \A t \in Skus : t # s => movement'[t] = movement[t]
    BY <1>t, <2>1, <2>7 DEF grown, m
  <2>9. ImportTyped'
    BY <1>t, <2>1, <2>5, <2>8 DEF ImportTyped
  <2>10. RowsAtHand' /\ WrittenIsHeld'
    <3>1. \A t \in Skus : product[t] # None => product'[t] # None
      BY <1>b, <2>5
    <3>2. \A t \in Skus : LockedByImport(t) => product'[t].stock = product[t].stock
      BY <2>1, <2>5
    <3>3. QED
      BY <2>1, <2>5, <3>1, <3>2, HeldRowsKept
  <2>11. HistoryExplains'
    <3>1. ASSUME NEW t \in Skus, t # s
          PROVE  IF Known(t)' THEN /\ \A k \in DOMAIN movement'[t] :
                                         movement'[t][k].after = Left(t, k - 1)' + movement'[t][k].delta
                                   /\ Stock(t)' = Left(t, Len(movement[t]))'
                 ELSE movement'[t] = <<>>
      BY <2>5, <2>8, <3>1 DEF ImportInvariant, HistoryExplains, Known, Stock, Left
    <3>2. Known(s)' /\ \A k \in DOMAIN movement'[s] :
                movement'[s][k].after = Left(s, k - 1)' + movement'[s][k].delta
      BY <1>b, <2>5, <2>7, <2>8 DEF Known, Left
    <3>3. Stock(s)' = Left(s, Len(movement[s]))'
      BY <2>5, <2>7, <2>8 DEF Stock, Left
    <3>4. QED
      BY <3>1, <3>2, <3>3 DEF HistoryExplains
  <2>12. ImportedWhole'
    <3>1. \A t \in Skus : \A k \in DOMAIN movement[t] :
              k \in DOMAIN movement'[t] /\ movement'[t][k] = movement[t][k]
      BY <2>7, <2>8 DEF m
    <3>2. \A t \in Skus : \A k \in DOMAIN movement'[t] :
              movement'[t][k].type = "OPENING_BALANCE" =>
                  k \in DOMAIN movement[t] /\ movement'[t][k] = movement[t][k]
      BY <2>3, <2>7, <2>8 DEF m
    <3>3. ASSUME NEW f \in jobs, NEW j \in DOMAIN Content[f], Content[f][j].quantity > 0
          PROVE  \E k \in DOMAIN movement'[Content[f][j].sku] :
                    movement'[Content[f][j].sku][k]
                        = Entry("OPENING_BALANCE", Content[f][j].quantity, Content[f][j].quantity)
      <4>1. Content[f][j].sku \in Skus
        BY <1>t, RowsOfAFile DEF ImportTyped
      <4>2. PICK k \in DOMAIN movement[Content[f][j].sku] :
                movement[Content[f][j].sku][k]
                    = Entry("OPENING_BALANCE", Content[f][j].quantity, Content[f][j].quantity)
        BY <3>3 DEF ImportInvariant, ImportedWhole
      <4>3. QED
        BY <3>1, <4>1, <4>2
    <3>4. ASSUME NEW t \in Skus, NEW k \in DOMAIN movement'[t],
                 movement'[t][k].type = "OPENING_BALANCE"
          PROVE  \E f \in jobs : \E j \in DOMAIN Content[f] :
                    Content[f][j] = [sku |-> t, quantity |-> movement'[t][k].delta]
      <4>1. k \in DOMAIN movement[t] /\ movement'[t][k] = movement[t][k]
        BY <3>2, <3>4
      <4>2. QED
        BY <3>4, <4>1 DEF ImportInvariant, ImportedWhole
    <3>5. UNCHANGED jobs
      BY <2>1
    <3>6. QED
      BY <3>3, <3>4, <3>5 DEF ImportedWhole
  <2>13. QED
    BY <2>9, <2>10, <2>11, <2>12 DEF ImportInvariant
<1>3. QED
  BY <1>1, <1>2

\* A step of one call that changes no product.
LEMMA CallKeeps ==
    ASSUME ImportInvariant, NEW i \in Imports, UNCHANGED <<product, movement, jobs>>,
           NEW new \in [step : Parsed, file : Files \cup {None},
                        todo : SUBSET SheetRow, written : SUBSET SheetRow],
           import' = [import EXCEPT ![i] = new],
           IF new.step = "WRITING"
           THEN /\ new.file \in Files /\ new.todo \cup new.written = ToSet(Content[new.file])
                /\ \A row \in new.todo \cup new.written : Known(row.sku)
                /\ \A row, other \in new.todo \cup new.written : row.sku = other.sku => row = other
           ELSE new.todo \cup new.written = {},
           \A row \in new.written \ import[i].written :
                ~LockedByImport(row.sku) /\ Stock(row.sku) = 0
    PROVE  ImportInvariant'
<1>t. import \in [Imports -> [step : Parsed, file : Files \cup {None},
                              todo : SUBSET SheetRow, written : SUBSET SheetRow]]
  BY DEF ImportInvariant, ImportTyped
<1>1. /\ import'[i] = new /\ \A j \in Imports : j # i => import'[j] = import[j]
      /\ import' \in [Imports -> [step : Parsed, file : Files \cup {None},
                                  todo : SUBSET SheetRow, written : SUBSET SheetRow]]
  BY <1>t
<1>2. ImportTyped'
  BY <1>1 DEF ImportInvariant, ImportTyped
<1>3. RowsAtHand'
  <2>1. ASSUME NEW j \in Imports
        PROVE  LET rows == import'[j].todo \cup import'[j].written
               IN  IF import'[j].step = "WRITING"
                   THEN /\ import'[j].file \in Files /\ rows = ToSet(Content[import'[j].file])
                        /\ \A row \in rows : product[row.sku] # None
                        /\ \A row, other \in rows : row.sku = other.sku => row = other
                   ELSE rows = {}
    <3>1. CASE j = i
      BY <1>1, <3>1 DEF Known
    <3>2. CASE j # i
      BY <1>1, <3>2 DEF ImportInvariant, RowsAtHand, Known
    <3>3. QED
      BY <3>1, <3>2
  <2>2. QED
    BY <2>1 DEF RowsAtHand, Known
<1>4. WrittenIsHeld'
  <2>1. ASSUME NEW j \in Imports, NEW row \in import'[j].written
        PROVE  product[row.sku].stock = 0
    BY <1>1, <2>1 DEF ImportInvariant, WrittenIsHeld, Stock
  <2>2. ASSUME NEW j \in Imports, NEW row \in import'[j].written, NEW k \in Imports, k # j,
               NEW other \in import'[k].written
        PROVE  other.sku # row.sku
    <3>1. CASE row \in import[j].written /\ other \in import[k].written
      BY <2>2, <3>1 DEF ImportInvariant, WrittenIsHeld
    <3>2. CASE row \notin import[j].written
      <4>1. j = i /\ ~LockedByImport(row.sku) /\ other \in import[k].written
        BY <1>1, <2>2, <3>2
      <4>2. QED
        BY <2>2, <4>1 DEF LockedByImport
    <3>3. CASE other \notin import[k].written
      <4>1. k = i /\ ~LockedByImport(other.sku) /\ row \in import[j].written
        BY <1>1, <2>2, <3>3
      <4>2. QED
        BY <2>2, <4>1 DEF LockedByImport
    <3>4. QED
      BY <3>1, <3>2, <3>3
  <2>3. QED
    BY <2>1, <2>2 DEF WrittenIsHeld, Stock
<1>5. HistoryExplains'
  BY DEF ImportInvariant, HistoryExplains, Known, Stock, Left
<1>6. ImportedWhole'
  BY DEF ImportInvariant, ImportedWhole
<1>7. QED
  BY <1>2, <1>3, <1>4, <1>5, <1>6 DEF ImportInvariant

LEMMA CommandKeeps ==
    ASSUME ImportInvariant, NEW i \in Imports,
           \/ \E f \in Files : previewOpeningStock(i, f)
           \/ commitProducts(i) \/ WriteRow(i) \/ RefuseRow(i)
    PROVE  ImportInvariant'
<1>t. /\ import \in [Imports -> [step : Parsed, file : Files \cup {None},
                                 todo : SUBSET SheetRow, written : SUBSET SheetRow]]
      /\ product \in [Skus -> StockRow \cup {None}]
  BY DEF ImportInvariant, ImportTyped
<1>i. /\ import[i] \in [step : Parsed, file : Files \cup {None},
                        todo : SUBSET SheetRow, written : SUBSET SheetRow]
  BY <1>t
<1>r. ASSUME Refused(i), UNCHANGED <<product, movement, jobs>> PROVE ImportInvariant'
  <2> DEFINE new == [import[i] EXCEPT !.step = "REFUSED", !.todo = {}, !.written = {}]
  <2>1. import' = [import EXCEPT ![i] = new]
    BY <1>r, <1>t DEF Refused
  <2>2. /\ new \in [step : Parsed, file : Files \cup {None},
                    todo : SUBSET SheetRow, written : SUBSET SheetRow]
        /\ new.step = "REFUSED" /\ new.todo = {} /\ new.written = {}
    BY <1>i DEF Parsed
  <2> HIDE DEF new
  <2>3. QED
    BY <1>r, <2>1, <2>2, CallKeeps
<1>1. ASSUME NEW f \in Files, previewOpeningStock(i, f) PROVE ImportInvariant'
  <2> DEFINE rows == Content[f]
             new  == [step |-> "WRITING", file |-> f, written |-> {}, todo |-> ToSet(rows)]
  <2>1. UNCHANGED <<product, movement, jobs>>
          /\ \/ Refused(i)
             \/ CanCommit(rows) /\ import' = [import EXCEPT ![i] = new]
    BY <1>1 DEF previewOpeningStock
  <2>2. CASE Refused(i)
    BY <1>r, <2>1, <2>2
  <2>3. CASE CanCommit(rows) /\ import' = [import EXCEPT ![i] = new]
    <3>1. /\ \A k \in DOMAIN rows : rows[k].quantity >= 0 /\ Known(rows[k].sku)
          /\ \A j, k \in DOMAIN rows : rows[j].sku = rows[k].sku => j = k
      BY <2>3 DEF CanCommit, WellFormed
    <3>2. \A k \in DOMAIN rows : rows[k] \in [sku : Skus, quantity : -1..MaxStock]
      BY RowsOfAFile
    <3>3. \A k \in DOMAIN rows : rows[k] \in SheetRow
      BY <3>1, <3>2, ImportBounds DEF SheetRow
    <3> HIDE DEF rows
    <3>4. /\ ToSet(rows) \in SUBSET SheetRow
          /\ \A row \in ToSet(rows) : Known(row.sku)
          /\ \A row, other \in ToSet(rows) : row.sku = other.sku => row = other
      BY <3>1, <3>3 DEF ToSet
    <3>5. /\ new \in [step : Parsed, file : Files \cup {None},
                      todo : SUBSET SheetRow, written : SUBSET SheetRow]
          /\ new.step = "WRITING" /\ new.file = f /\ new.todo = ToSet(rows) /\ new.written = {}
          /\ new.todo \cup new.written = ToSet(rows)
      BY <3>4 DEF Parsed
    <3>6. ToSet(rows) = ToSet(Content[f]) /\ import' = [import EXCEPT ![i] = new]
      BY <2>3 DEF rows
    <3> HIDE DEF new
    <3>7. QED
      BY <2>1, <3>4, <3>5, <3>6, CallKeeps
  <2>4. QED
    BY <2>1, <2>2, <2>3
<1>2. CASE RefuseRow(i)
  BY <1>r, <1>2 DEF RefuseRow, Abandon
<1>3. CASE WriteRow(i)
  <2>1. PICK row \in import[i].todo :
          /\ ~LockedByImport(row.sku) /\ StillEmpty(row.sku)
          /\ import' = [import EXCEPT ![i].todo = @ \ {row}, ![i].written = @ \cup {row}]
    BY <1>3 DEF WriteRow
  <2> DEFINE new == [import[i] EXCEPT !.todo = @ \ {row}, !.written = @ \cup {row}]
  <2>2. import[i].step = "WRITING" /\ UNCHANGED <<product, movement, jobs>>
    BY <1>3 DEF WriteRow
  <2>3. import' = [import EXCEPT ![i] = new]
    BY <1>t, <2>1
  <2>4. /\ new \in [step : Parsed, file : Files \cup {None},
                    todo : SUBSET SheetRow, written : SUBSET SheetRow]
        /\ new.step = "WRITING" /\ new.file = import[i].file
        /\ new.todo \cup new.written = import[i].todo \cup import[i].written
        /\ new.written = import[i].written \cup {row}
    BY <1>i, <2>1, <2>2
  <2> HIDE DEF new
  <2>5. /\ new.file \in Files /\ new.todo \cup new.written = ToSet(Content[new.file])
        /\ \A r \in new.todo \cup new.written : Known(r.sku)
        /\ \A r, other \in new.todo \cup new.written : r.sku = other.sku => r = other
    BY <2>2, <2>4 DEF ImportInvariant, RowsAtHand
  <2>6. \A r \in new.written \ import[i].written : ~LockedByImport(r.sku) /\ Stock(r.sku) = 0
    BY <2>1, <2>4 DEF StillEmpty
  <2>7. QED
    BY <2>2, <2>3, <2>4, <2>5, <2>6, CallKeeps
<1>4. CASE commitProducts(i)
  <2>1. /\ import[i].step = "NEW" /\ \A s \in Catalogue : ~LockedByImport(s)
        /\ product' = Catalogued /\ UNCHANGED <<movement, jobs>>
        /\ import' = [import EXCEPT ![i].step = "IMPORTED"]
    BY <1>4 DEF commitProducts
  <2>2. /\ import' \in [Imports -> [step : Parsed, file : Files \cup {None},
                                    todo : SUBSET SheetRow, written : SUBSET SheetRow]]
        /\ \A j \in Imports :
              /\ import'[j].todo = import[j].todo /\ import'[j].written = import[j].written
              /\ import'[j].file = import[j].file
              /\ import'[j].step = "WRITING" <=> import[j].step = "WRITING"
    BY <1>t, <2>1 DEF Parsed
  <2> DEFINE blank == [stock |-> 0, baseline |-> 0]
  <2>3. blank \in StockRow /\ blank # None /\ blank.stock = 0 /\ blank.baseline = 0
    BY ImportBounds DEF StockRow
  <2> HIDE DEF blank
  <2>4. \A s \in Skus : \/ product'[s] = product[s]
                        \/ product[s] = None /\ product'[s] = blank
    BY <2>1 DEF Catalogued, Known, blank
  <2>5. product' \in [Skus -> StockRow \cup {None}]
    <3>1. DOMAIN product' = Skus /\ product' = [s \in Skus |-> product'[s]]
      BY <2>1 DEF Catalogued
    <3>2. QED
      BY <1>t, <2>3, <2>4, <3>1
  <2>6. ImportTyped'
    BY <2>1, <2>2, <2>5 DEF ImportInvariant, ImportTyped
  <2>7. \A s \in Skus : LockedByImport(s) => product'[s] = product[s]
    <3>1. \A s \in Skus : s \notin Catalogue => product'[s] = product[s]
      BY <2>1 DEF Catalogued
    <3>2. QED
      BY <2>1, <3>1
  <2>8. RowsAtHand' /\ WrittenIsHeld'
    BY <2>2, <2>3, <2>4, <2>5, <2>7, HeldRowsKept
  <2>9. HistoryExplains'
    <3>1. ASSUME NEW s \in Skus, product[s] = None, product'[s] = blank
          PROVE  movement'[s] = <<>> /\ Known(s)' /\ Stock(s)' = product'[s].baseline
      BY <2>1, <2>3, <3>1 DEF ImportInvariant, HistoryExplains, Known, Stock
    <3>2. ASSUME NEW s \in Skus, product'[s] = product[s]
          PROVE  IF Known(s)' THEN /\ \A k \in DOMAIN movement'[s] :
                                         movement'[s][k].after = Left(s, k - 1)' + movement'[s][k].delta
                                   /\ Stock(s)' = Left(s, Len(movement[s]))'
                 ELSE movement'[s] = <<>>
      BY <2>1, <3>2 DEF ImportInvariant, HistoryExplains, Known, Stock, Left
    <3>3. ASSUME NEW s \in Skus, product[s] = None, product'[s] = blank
          PROVE  /\ \A k \in DOMAIN movement'[s] :
                       movement'[s][k].after = Left(s, k - 1)' + movement'[s][k].delta
                 /\ Stock(s)' = Left(s, Len(movement[s]))'
      BY <3>1, <3>3 DEF Left
    <3>4. QED
      BY <2>4, <3>1, <3>2, <3>3 DEF HistoryExplains
  <2>10. ImportedWhole'
    BY <2>1 DEF ImportInvariant, ImportedWhole
  <2>11. QED
    BY <2>6, <2>8, <2>9, <2>10 DEF ImportInvariant
<1>5. QED
  BY <1>1, <1>2, <1>3, <1>4

\* What the commit of an opening stock does to one product: its rows were held empty,
\* so the opening balance starts from nothing.
LEMMA BalancesExplain ==
    ASSUME ImportInvariant, NEW i \in Imports, import[i].step = "WRITING",
           Balances(import[i].written), NEW s \in Skus
    PROVE  LET written == import[i].written
           IN  /\ product'[s] \in StockRow \cup {None} /\ (product'[s] = None <=> product[s] = None)
               /\ (\A row \in written : row.sku # s) => product'[s] = product[s]
               /\ movement'[s] \in Seq(MovementRow)
               /\ IF product'[s] # None
                  THEN /\ \A k \in DOMAIN movement'[s] :
                             movement'[s][k].after
                                 = (IF k - 1 = 0 THEN product'[s].baseline ELSE movement'[s][k - 1].after)
                                       + movement'[s][k].delta
                       /\ product'[s].stock = (IF Len(movement'[s]) = 0 THEN product'[s].baseline
                                               ELSE movement'[s][Len(movement'[s])].after)
                  ELSE movement'[s] = <<>>
               /\ \A k \in DOMAIN movement[s] :
                     k \in DOMAIN movement'[s] /\ movement'[s][k] = movement[s][k]
               /\ \A k \in DOMAIN movement'[s] :
                     \/ k \in DOMAIN movement[s] /\ movement'[s][k] = movement[s][k]
                     \/ \E row \in written : row.sku = s /\
                           movement'[s][k] = Entry("OPENING_BALANCE", row.quantity, row.quantity)
               /\ \A row \in written : row.sku = s /\ row.quantity > 0 =>
                     \E k \in DOMAIN movement'[s] :
                        movement'[s][k] = Entry("OPENING_BALANCE", row.quantity, row.quantity)
<1> DEFINE written == import[i].written
<1>t. /\ written \in SUBSET SheetRow /\ None \notin StockRow
      /\ product[s] \in StockRow \cup {None} /\ movement[s] \in Seq(MovementRow)
  BY ImportBounds DEF ImportInvariant, ImportTyped, StockRow
<1>h. IF product[s] # None
      THEN /\ \A k \in DOMAIN movement[s] :
                 movement[s][k].after
                     = (IF k - 1 = 0 THEN product[s].baseline ELSE movement[s][k - 1].after)
                           + movement[s][k].delta
           /\ product[s].stock = (IF Len(movement[s]) = 0 THEN product[s].baseline
                                  ELSE movement[s][Len(movement[s])].after)
      ELSE movement[s] = <<>>
  BY DEF ImportInvariant, HistoryExplains, Known, Stock, Left
<1>b. /\ product'[s] = IF \E row \in written : row.sku = s
                       THEN [product[s] EXCEPT !.stock = (CHOOSE row \in written : row.sku = s).quantity]
                       ELSE product[s]
      /\ movement'[s] = IF \E row \in written : row.sku = s /\ row.quantity > 0
                        THEN LET n == (CHOOSE row \in written : row.sku = s).quantity
                             IN  Append(movement[s], Entry("OPENING_BALANCE", n, n))
                        ELSE movement[s]
  BY DEF Balances
<1>w. \A row \in written : /\ Known(row.sku) /\ Stock(row.sku) = 0
                           /\ \A other \in written : row.sku = other.sku => row = other
  BY DEF ImportInvariant, RowsAtHand, WrittenIsHeld
<1> HIDE DEF written
<1>1. CASE \A row \in written : row.sku # s
  <2>1. product'[s] = product[s] /\ movement'[s] = movement[s]
    BY <1>b, <1>1
  <2>2. QED
    BY <1>t, <1>h, <1>1, <2>1 DEF written
<1>2. ASSUME NEW row \in written, row.sku = s
      PROVE  /\ product'[s] \in StockRow /\ product'[s] # None /\ product[s] # None
             /\ movement'[s] \in Seq(MovementRow)
             /\ \A k \in DOMAIN movement'[s] :
                   movement'[s][k].after
                       = (IF k - 1 = 0 THEN product'[s].baseline ELSE movement'[s][k - 1].after)
                             + movement'[s][k].delta
             /\ product'[s].stock = (IF Len(movement'[s]) = 0 THEN product'[s].baseline
                                     ELSE movement'[s][Len(movement'[s])].after)
             /\ \A k \in DOMAIN movement[s] :
                   k \in DOMAIN movement'[s] /\ movement'[s][k] = movement[s][k]
             /\ \A k \in DOMAIN movement'[s] :
                   \/ k \in DOMAIN movement[s] /\ movement'[s][k] = movement[s][k]
                   \/ movement'[s][k] = Entry("OPENING_BALANCE", row.quantity, row.quantity)
             /\ row.quantity > 0 =>
                   \E k \in DOMAIN movement'[s] :
                      movement'[s][k] = Entry("OPENING_BALANCE", row.quantity, row.quantity)
  <2> DEFINE n == row.quantity
             entry == Entry("OPENING_BALANCE", n, n)
  <2>1. product[s] \in StockRow /\ product[s] # None /\ product[s].stock = 0
    BY <1>t, <1>w, <1>2 DEF Known, Stock
  <2>2. (CHOOSE r \in written : r.sku = s) = row
    BY <1>w, <1>2
  <2>3. n \in 0..MaxStock /\ MaxStock \in Nat /\ n \in Int
    BY <1>t, <1>2, ImportBounds DEF SheetRow
  <2>4. product'[s] = [product[s] EXCEPT !.stock = n]
    BY <1>b, <1>2, <2>2
  <2>5. product'[s] \in StockRow /\ product'[s].stock = n /\ product'[s].baseline = product[s].baseline
          /\ product[s].baseline \in Int
    BY <2>1, <2>3, <2>4 DEF StockRow
  <2>6. movement'[s] = IF n > 0 THEN Append(movement[s], entry) ELSE movement[s]
    BY <1>b, <1>w, <1>2, <2>2
  <2>7. entry \in MovementRow /\ entry.after = n /\ entry.delta = n
    BY <2>3 DEF Entry, MovementRow
  <2> HIDE DEF entry
  <2>8. CASE n > 0
    <3> DEFINE m == movement[s]
               base == product[s].baseline
               stock == product[s].stock
               grown == Append(m, entry)
    <3>1. /\ m \in Seq(MovementRow) /\ base \in Int /\ stock \in Int
          /\ entry.after = stock + entry.delta
          /\ \A k \in DOMAIN m :
                m[k].after = (IF k - 1 = 0 THEN base ELSE m[k - 1].after) + m[k].delta
          /\ stock = (IF Len(m) = 0 THEN base ELSE m[Len(m)].after)
      BY <1>t, <1>h, <2>1, <2>3, <2>5, <2>7
    <3> HIDE DEF m, base, stock
    <3>2. /\ grown \in Seq(MovementRow)
          /\ \A k \in DOMAIN grown :
                grown[k].after = (IF k - 1 = 0 THEN base ELSE grown[k - 1].after) + grown[k].delta
          /\ entry.after = (IF Len(grown) = 0 THEN base ELSE grown[Len(grown)].after)
          /\ \A k \in DOMAIN m : k \in DOMAIN grown /\ grown[k] = m[k]
          /\ \A k \in DOMAIN grown : k \in DOMAIN m \/ grown[k] = entry
          /\ \E k \in DOMAIN grown : grown[k] = entry
      BY <2>7, <3>1, HistoryGrows, SMTT(30)
    <3> HIDE DEF grown
    <3>3. movement'[s] = grown /\ product'[s].baseline = base
      BY <2>5, <2>6, <2>8 DEF grown, m, base
    <3>4. QED
      BY <1>t, <2>1, <2>5, <2>7, <3>2, <3>3 DEF m, entry
  <2>9. CASE ~(n > 0)
    <3>1. n = 0 /\ movement'[s] = movement[s]
      BY <2>3, <2>6, <2>9
    <3>2. QED
      BY <1>t, <1>h, <2>1, <2>5, <2>9, <3>1
  <2>10. QED
    BY <2>8, <2>9
<1>3. CASE \E row \in written : row.sku = s
  <2>1. PICK row \in written : row.sku = s
    BY <1>3
  <2>2. \A other \in written : other.sku = s => other = row
    BY <1>w, <2>1
  <2>3. /\ product'[s] \in StockRow /\ product'[s] # None /\ product[s] # None
        /\ movement'[s] \in Seq(MovementRow)
        /\ \A k \in DOMAIN movement'[s] :
              movement'[s][k].after
                  = (IF k - 1 = 0 THEN product'[s].baseline ELSE movement'[s][k - 1].after)
                        + movement'[s][k].delta
        /\ product'[s].stock = (IF Len(movement'[s]) = 0 THEN product'[s].baseline
                                ELSE movement'[s][Len(movement'[s])].after)
        /\ \A k \in DOMAIN movement[s] :
              k \in DOMAIN movement'[s] /\ movement'[s][k] = movement[s][k]
        /\ \A k \in DOMAIN movement'[s] :
              \/ k \in DOMAIN movement[s] /\ movement'[s][k] = movement[s][k]
              \/ movement'[s][k] = Entry("OPENING_BALANCE", row.quantity, row.quantity)
        /\ row.quantity > 0 =>
              \E k \in DOMAIN movement'[s] :
                 movement'[s][k] = Entry("OPENING_BALANCE", row.quantity, row.quantity)
    BY <1>2, <2>1
  <2>4. QED
    BY <2>1, <2>2, <2>3 DEF written
<1>4. QED
  BY <1>1, <1>3

LEMMA StockImportKeeps ==
    ASSUME ImportInvariant, NEW i \in Imports, commitOpeningStock(i)
    PROVE  ImportInvariant'
<1> DEFINE written == import[i].written
           file    == import[i].file
<1>t. /\ import \in [Imports -> [step : Parsed, file : Files \cup {None},
                                 todo : SUBSET SheetRow, written : SUBSET SheetRow]]
      /\ jobs \subseteq Files
  BY DEF ImportInvariant, ImportTyped
<1>1. /\ import[i].step = "WRITING" /\ import[i].todo = {} /\ Balances(written)
      /\ jobs' = jobs \cup {file}
      /\ import' = [import EXCEPT ![i].step = "IMPORTED", ![i].written = {}]
  BY DEF commitOpeningStock
<1>2. file \in Files /\ written = ToSet(Content[file])
  BY <1>1 DEF ImportInvariant, RowsAtHand
<1>3. /\ import' \in [Imports -> [step : Parsed, file : Files \cup {None},
                                  todo : SUBSET SheetRow, written : SUBSET SheetRow]]
      /\ import'[i].step = "IMPORTED" /\ import'[i].todo = {} /\ import'[i].written = {}
      /\ \A j \in Imports : j # i => import'[j] = import[j]
  BY <1>t, <1>1 DEF Parsed
<1>s. ASSUME NEW s \in Skus
      PROVE  /\ product'[s] \in StockRow \cup {None} /\ (product'[s] = None <=> product[s] = None)
             /\ (\A row \in written : row.sku # s) => product'[s] = product[s]
             /\ movement'[s] \in Seq(MovementRow)
             /\ IF product'[s] # None
                THEN /\ \A k \in DOMAIN movement'[s] :
                           movement'[s][k].after
                               = (IF k - 1 = 0 THEN product'[s].baseline ELSE movement'[s][k - 1].after)
                                     + movement'[s][k].delta
                     /\ product'[s].stock = (IF Len(movement'[s]) = 0 THEN product'[s].baseline
                                             ELSE movement'[s][Len(movement'[s])].after)
                ELSE movement'[s] = <<>>
             /\ \A k \in DOMAIN movement[s] :
                   k \in DOMAIN movement'[s] /\ movement'[s][k] = movement[s][k]
             /\ \A k \in DOMAIN movement'[s] :
                   \/ k \in DOMAIN movement[s] /\ movement'[s][k] = movement[s][k]
                   \/ \E row \in written : row.sku = s /\
                         movement'[s][k] = Entry("OPENING_BALANCE", row.quantity, row.quantity)
             /\ \A row \in written : row.sku = s /\ row.quantity > 0 =>
                   \E k \in DOMAIN movement'[s] :
                      movement'[s][k] = Entry("OPENING_BALANCE", row.quantity, row.quantity)
  BY <1>1, BalancesExplain
<1>4. ImportTyped'
  <2>1. /\ product' = [s \in Skus |-> product'[s]] /\ movement' = [s \in Skus |-> movement'[s]]
    BY <1>1 DEF Balances
  <2>2. product' \in [Skus -> StockRow \cup {None}] /\ movement' \in [Skus -> Seq(MovementRow)]
    BY <1>s, <2>1
  <2>3. QED
    BY <1>t, <1>1, <1>2, <1>3, <2>2 DEF ImportTyped
<1>5. RowsAtHand'
  <2>1. ASSUME NEW j \in Imports
        PROVE  LET rows == import'[j].todo \cup import'[j].written
               IN  IF import'[j].step = "WRITING"
                   THEN /\ import'[j].file \in Files /\ rows = ToSet(Content[import'[j].file])
                        /\ \A row \in rows : product'[row.sku] # None
                        /\ \A row, other \in rows : row.sku = other.sku => row = other
                   ELSE rows = {}
    <3>1. CASE j = i
      BY <1>3, <3>1
    <3>2. CASE j # i
      <4>1. \A row \in import[j].todo \cup import[j].written : row.sku \in Skus
        BY <1>t DEF SheetRow
      <4>2. \A s \in Skus : product'[s] = None <=> product[s] = None
        BY <1>s
      <4>3. import'[j] = import[j]
        BY <1>3, <3>2
      <4>4. QED
        BY <4>1, <4>2, <4>3 DEF ImportInvariant, RowsAtHand, Known
    <3>3. QED
      BY <3>1, <3>2
  <2>2. QED
    BY <2>1 DEF RowsAtHand, Known
<1>6. WrittenIsHeld'
  <2>1. ASSUME NEW j \in Imports, NEW row \in import'[j].written
        PROVE  /\ j # i /\ row \in import[j].written
               /\ product'[row.sku].stock = 0
    <3>1. j # i /\ row \in import[j].written
      BY <1>3, <2>1
    <3>2. row.sku \in Skus /\ product[row.sku].stock = 0
      BY <1>t, <3>1 DEF ImportInvariant, WrittenIsHeld, Stock, SheetRow
    <3>3. \A other \in written : other.sku # row.sku
      BY <3>1 DEF ImportInvariant, WrittenIsHeld
    <3>4. product'[row.sku] = product[row.sku]
      BY <1>s, <3>2, <3>3
    <3>5. QED
      BY <3>1, <3>2, <3>4
  <2>2. ASSUME NEW j \in Imports, NEW row \in import'[j].written, NEW k \in Imports, k # j,
               NEW other \in import'[k].written
        PROVE  other.sku # row.sku
    BY <2>1, <2>2 DEF ImportInvariant, WrittenIsHeld
  <2>3. QED
    BY <2>1, <2>2 DEF WrittenIsHeld, Stock
<1>7. HistoryExplains'
  BY <1>s DEF HistoryExplains, Known, Stock, Left
<1>8. ImportedWhole'
  <2>1. ASSUME NEW f \in jobs', NEW j \in DOMAIN Content[f], Content[f][j].quantity > 0
        PROVE  \E k \in DOMAIN movement'[Content[f][j].sku] :
                  movement'[Content[f][j].sku][k]
                      = Entry("OPENING_BALANCE", Content[f][j].quantity, Content[f][j].quantity)
    <3> DEFINE row == Content[f][j]
    <3>1. f \in Files /\ row.sku \in Skus
      BY <1>t, <1>1, <1>2, RowsOfAFile
    <3>2. CASE f \in jobs
      <4>1. PICK k \in DOMAIN movement[row.sku] :
                movement[row.sku][k] = Entry("OPENING_BALANCE", row.quantity, row.quantity)
        BY <2>1, <3>2 DEF ImportInvariant, ImportedWhole
      <4>2. k \in DOMAIN movement'[row.sku] /\ movement'[row.sku][k] = movement[row.sku][k]
        BY <1>s, <3>1
      <4>3. QED
        BY <4>1, <4>2
    <3>3. CASE f = file
      <4>1. row \in written
        BY <1>2, <3>3 DEF ToSet
      <4>2. QED
        BY <1>s, <2>1, <3>1, <4>1
    <3>4. QED
      BY <1>1, <3>2, <3>3
  <2>2. ASSUME NEW s \in Skus, NEW k \in DOMAIN movement'[s],
               movement'[s][k].type = "OPENING_BALANCE"
        PROVE  \E f \in jobs' : \E j \in DOMAIN Content[f] :
                  Content[f][j] = [sku |-> s, quantity |-> movement'[s][k].delta]
    <3>1. CASE k \in DOMAIN movement[s] /\ movement'[s][k] = movement[s][k]
      <4>1. PICK f \in jobs : \E j \in DOMAIN Content[f] :
                Content[f][j] = [sku |-> s, quantity |-> movement[s][k].delta]
        BY <2>2, <3>1 DEF ImportInvariant, ImportedWhole
      <4>2. QED
        BY <1>1, <3>1, <4>1
    <3>2. CASE \E row \in written : row.sku = s /\
                  movement'[s][k] = Entry("OPENING_BALANCE", row.quantity, row.quantity)
      <4>1. PICK row \in written : /\ row.sku = s
                /\ movement'[s][k] = Entry("OPENING_BALANCE", row.quantity, row.quantity)
        BY <3>2
      <4>2. PICK j \in DOMAIN Content[file] : Content[file][j] = row
        BY <1>2, <4>1 DEF ToSet
      <4>3. row \in SheetRow /\ movement'[s][k].delta = row.quantity
        BY <1>t, <4>1 DEF Entry
      <4>4. row = [sku |-> s, quantity |-> movement'[s][k].delta]
        BY <4>1, <4>3 DEF SheetRow
      <4>5. file \in jobs'
        BY <1>1
      <4> HIDE DEF file
      <4>6. QED
        BY <4>2, <4>4, <4>5
    <3>3. QED
      BY <1>s, <3>1, <3>2
  <2>3. QED
    BY <2>1, <2>2 DEF ImportedWhole
<1>9. QED
  BY <1>4, <1>5, <1>6, <1>7, <1>8 DEF ImportInvariant

LEMMA ImportStep == ImportInvariant /\ [ImportNext]_importVars => ImportInvariant'
<1> SUFFICES ASSUME ImportInvariant, [ImportNext]_importVars PROVE ImportInvariant'
  OBVIOUS
<1>1. ASSUME NEW s \in Skus, \/ createProduct(s, 0) \/ createProduct(s, 1)
                             \/ \E delta \in Deltas : adjustStock(s, delta)
      PROVE  ImportInvariant'
  BY <1>1, OfficeKeeps
<1>2. ASSUME NEW i \in Imports, \/ \E f \in Files : previewOpeningStock(i, f)
                                \/ commitProducts(i) \/ WriteRow(i) \/ RefuseRow(i)
      PROVE  ImportInvariant'
  BY <1>2, CommandKeeps
<1>3. ASSUME NEW i \in Imports, commitOpeningStock(i) PROVE ImportInvariant'
  BY <1>3, StockImportKeeps
<1>4. CASE UNCHANGED importVars
  <2>1. UNCHANGED <<product, movement, jobs, import>>
    BY <1>4 DEF importVars
  <2>2. ImportTyped' /\ ImportedWhole'
    BY <2>1 DEF ImportInvariant, ImportTyped, ImportedWhole
  <2>3. RowsAtHand' /\ WrittenIsHeld'
    BY <2>1 DEF ImportInvariant, RowsAtHand, WrittenIsHeld, Known, Stock
  <2>4. HistoryExplains'
    BY <2>1 DEF ImportInvariant, HistoryExplains, Known, Stock, Left
  <2>5. QED
    BY <2>2, <2>3, <2>4 DEF ImportInvariant
<1>5. QED
  BY <1>1, <1>2, <1>3, <1>4 DEF ImportNext

LEMMA ImportHolds == ImportSpec => []ImportInvariant
BY ImportStarts, ImportStep, PTL DEF ImportSpec

\* movements.ts: each stock movement starts from the figure that the previous one left,
\* and the last one left the stock that the product has.
THEOREM LedgerAlwaysExplainsStock == ImportSpec => []LedgerExplainsStock
<1>1. ImportInvariant => LedgerExplainsStock
  BY DEF ImportInvariant, HistoryExplains, LedgerExplainsStock, Left
<1>2. QED
  BY <1>1, ImportHolds, PTL

\* imports/index.ts "Nothing has been imported": the opening balances in the ledger are
\* the rows of files that were recorded as imported, and those are there whole.
THEOREM AlwaysImportedWhole == ImportSpec => []ImportedWhole
<1>1. ImportInvariant => ImportedWhole
  BY DEF ImportInvariant
<1>2. QED
  BY <1>1, ImportHolds, PTL

-----------------------------------------------------------------------------
(* The office                                                              *)

\* The desks share no state: a behaviour of the office is one of each desk.
LEMMA DesksAreApart ==
    Spec => InquirySpec /\ LedgerSpec /\ ImportSpec /\ PoolSpec /\ GrantsSpec
<1>1. Init => InquiryInit /\ LedgerInit /\ ImportInit /\ PoolInit /\ GrantsInit
  BY DEF Init
<1>2. [Next]_vars => /\ [InquiryNext]_inquiryVars /\ [LedgerNext]_ledgerVars
                     /\ [ImportNext]_importVars /\ [PoolNext]_poolVars /\ [GrantsNext]_grantVars
  BY DEF Next, vars, AtInquiries, AtLedger, AtImports, AtPool, AtGrants
<1>3. QED
  BY <1>1, <1>2, PTL
     DEF Spec, InquirySpec, LedgerSpec, ImportSpec, PoolSpec, GrantsSpec

\* The variables of every desk have their types.
THEOREM OfficeTypesHold == Spec => []OfficeTypeOK
<1>1. InquiryInvariant => InquiryTypeOK
  BY DEF InquiryInvariant
<1>2. ImportInvariant => ImportTypeOK
  BY DEF ImportInvariant, ImportTyped, ImportTypeOK, StockRow
<1>3. PoolInvariant => PoolTypeOK
  BY DEF PoolInvariant, PoolTyped, LentOnce, PoolTypeOK, CallRow, CallSteps
<1>4. PoolSpec => []PoolInvariant
  BY InitialPool, PoolStepsKeepInvariant, PTL DEF PoolSpec
<1>5. InquiryTypeOK /\ LedgerTypeOK /\ ImportTypeOK /\ PoolTypeOK => OfficeTypeOK
  BY DEF OfficeTypeOK
<1>6. QED
  BY <1>1, <1>2, <1>3, <1>4, <1>5, InquiryHolds, LedgerTypesHold, ImportHolds, DesksAreApart, PTL

\* Every safety property of the office at once.
THEOREM OfficeIsSafe ==
    Spec => /\ [](NumberedInCommitOrder /\ RowChainNeverDeadlocks)
            /\ [](LedgerExplainsStock /\ ImportedWhole)
            /\ [](OwnRowsOnly /\ StatusIsTruthful)
            /\ ProvisioningReprotects
BY NumbersFollowCommits, OnlyTwoOrdersDeadlock, LedgerAlwaysExplainsStock, AlwaysImportedWhole,
   OrganisationsAreApart, StatusCanBeTrusted, ProvisioningIsSafeToRepeat, DesksAreApart, PTL
=============================================================================
