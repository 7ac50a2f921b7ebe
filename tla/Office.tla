------------------------------- MODULE Office -------------------------------
(***************************************************************************)
(* The parts of the system around the goods, one desk each: the inquiry    *)
(* and its parse, the shared ledger of locks, numbers and audit positions, *)
(* the onboarding imports, the tenants' connection pool, and the database  *)
(* role's grants.  The desks share no state, so a behaviour looks at one   *)
(* of them and leaves the others where they start.                         *)
(***************************************************************************)
EXTENDS Inquiries, Ledger, Imports, TenantPool, Grants

VARIABLE desk

vars == <<desk, inquiryVars, ledgerVars, importVars, poolVars, grantVars>>

Init ==
    /\ desk \in {"inquiries", "ledger", "imports", "pool", "grants"}
    /\ InquiryInit /\ LedgerInit /\ ImportInit
    /\ PoolInit /\ GrantsInit

AtInquiries ==
    /\ desk = "inquiries" /\ InquiryNext
    /\ UNCHANGED <<desk, ledgerVars, importVars, poolVars, grantVars>>

AtLedger ==
    /\ desk = "ledger" /\ LedgerNext
    /\ UNCHANGED <<desk, inquiryVars, importVars, poolVars, grantVars>>

AtImports ==
    /\ desk = "imports" /\ ImportNext
    /\ UNCHANGED <<desk, inquiryVars, ledgerVars, poolVars, grantVars>>

AtPool ==
    /\ desk = "pool" /\ PoolNext
    /\ UNCHANGED <<desk, inquiryVars, ledgerVars, importVars, grantVars>>

AtGrants ==
    /\ desk = "grants" /\ GrantsNext
    /\ UNCHANGED <<desk, inquiryVars, ledgerVars, importVars, poolVars>>

Next == AtInquiries \/ AtLedger \/ AtImports \/ AtPool \/ AtGrants

Fairness ==
    /\ InquiryFairness /\ LedgerFairness /\ ImportFairness
    /\ PoolFairness

Spec == Init /\ [][Next]_vars /\ Fairness

-----------------------------------------------------------------------------
\* The types of the desks' variables.
OfficeTypeOK == InquiryTypeOK /\ LedgerTypeOK /\ ImportTypeOK /\ PoolTypeOK
=============================================================================
