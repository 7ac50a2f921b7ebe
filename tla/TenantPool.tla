----------------------------- MODULE TenantPool -----------------------------
(***************************************************************************)
(* The organisations of one database behind one pool of connections        *)
(* (platform/db): withTenant sets the organisation on a borrowed           *)
(* connection for its transaction, the client extension filters the        *)
(* statements of the ORM, and row-level security filters every statement,  *)
(* raw SQL and statements outside a transaction included.                  *)
(***************************************************************************)
EXTENDS Null, FiniteSets

CONSTANTS Orgs, Connections, Calls

\* Neither NULL nor the values a setting has outside a transaction name an organisation.
ASSUME OrgsAreOrgs == {None, "unset", ""} \cap Orgs = {}

VARIABLES
    setting,    \* app.organization_id of each connection: an organisation, "unset" or ""
    work        \* [step, org, conn, seen, wrote] of each call; org is None outside withTenant

poolVars == <<setting, work>>

NewCall == [step |-> "NEW", org |-> None, conn |-> None, seen |-> {}, wrote |-> {}]

PoolInit ==
    /\ setting = [c \in Connections |-> "unset"]
    /\ work = [k \in Calls |-> NewCall]

\* A mutated form: a statement outside withTenant borrows nothing.
Lent_Shared == {work[k].conn : k \in {j \in Calls : work[j].step = "OPEN" /\ work[j].org # None}}

Lent == {work[k].conn : k \in {j \in Calls : work[j].step = "OPEN"}}
Free == Connections \ Lent

\* A call that finds no connection waits for one, for DATABASE_POOL_TIMEOUT_SECONDS.
request(k) ==
    /\ work[k].step = "NEW"
    /\ \E org \in Orgs \cup {None} : work' = [work EXCEPT ![k].step = "WAITING", ![k].org = org]
    /\ UNCHANGED setting

connect(k) ==
    /\ work[k].step = "WAITING"
    /\ \E c \in Free :
          /\ work' = [work EXCEPT ![k].step = "OPEN", ![k].conn = c]
          /\ setting' = IF work[k].org = None THEN setting ELSE [setting EXCEPT ![c] = work[k].org]

poolTimeout(k) ==
    /\ work[k].step = "WAITING" /\ Free = {}
    /\ work' = [work EXCEPT ![k].step = "ENDED"]
    /\ UNCHANGED setting

\* The policy compares with NULL when the setting was never made or has been
\* reverted, and then no row is visible.
policy(c, org) == setting[c] = org

\* tenantExtension filters by the organisation of the handle, and refuses a
\* statement that names another one.
injectWhere(k, org) == org = work[k].org

\* The rows a statement reaches.  Outside withTenant nothing is injected.
Reached(k, raw, named) ==
    {org \in Orgs : /\ policy(work[k].conn, org)
                    /\ named \in {None, org}
                    /\ raw \/ work[k].org = None \/ injectWhere(k, org)}

statement(k) ==
    /\ work[k].step = "OPEN"
    /\ \E raw \in BOOLEAN, named \in Orgs \cup {None} :
          \/ work' = [work EXCEPT ![k].seen = @ \cup Reached(k, raw, named)]
          \/ work' = [work EXCEPT ![k].wrote = @ \cup Reached(k, raw, named)]
    /\ UNCHANGED setting

\* A mutated form: set_config(..., false), which lasts as long as the connection.
Reverted_Session(k) == setting

\* The local setting ends with the transaction, as an empty string.
Reverted(k) ==
    IF work[k].org = None THEN setting ELSE [setting EXCEPT ![work[k].conn] = ""]

\* Commit and rollback alike; a rollback leaves nothing written.
end(k) ==
    /\ work[k].step = "OPEN"
    /\ \/ work' = [work EXCEPT ![k].step = "ENDED"]
       \/ work' = [work EXCEPT ![k].step = "ENDED", ![k].wrote = {}]
    /\ setting' = Reverted(k)

PoolNext == \E k \in Calls : request(k) \/ connect(k) \/ poolTimeout(k) \/ statement(k) \/ end(k)

PoolSpec == PoolInit /\ [][PoolNext]_poolVars

\* A waiting call gets a free connection or runs out of time.  A transaction that
\* has a connection may keep it.
PoolFairness == \A k \in Calls : WF_poolVars(connect(k) \/ poolTimeout(k))

-----------------------------------------------------------------------------
(* Properties                                                              *)

PoolTypeOK ==
    /\ setting \in [Connections -> Orgs \cup {"unset", ""}]
    /\ \A k \in Calls : /\ work[k].step \in {"NEW", "WAITING", "OPEN", "ENDED"}
                        /\ work[k].conn \in Connections \cup {None}
    /\ \A j, k \in Calls : j # k /\ work[j].step = "OPEN" /\ work[k].step = "OPEN"
                              => work[j].conn # work[k].conn

\* tenant.ts: the setting "cannot leak to the next borrower of the pooled
\* connection".  Whatever a connection served before, a call reaches the rows of
\* its own organisation only, and a statement outside withTenant reaches none.
OwnRowsOnly ==
    \A k \in Calls : work[k].seen \cup work[k].wrote \subseteq {work[k].org}

\* client.ts: a request that cannot get a connection does not wait forever, even
\* when no transaction ever gives one back.
RequestsAreAnswered ==
    (\E k \in Calls : work[k].step = "WAITING") ~> (\A k \in Calls : work[k].step # "WAITING")
=============================================================================
