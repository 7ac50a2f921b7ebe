---------------------------- MODULE FrontOffice ----------------------------
(***************************************************************************)
(* What happens before there is an order, one desk each: the inquiry that  *)
(* is read and reviewed, the quotation that is approved, sent, chased and  *)
(* answered, the people who sign in to do it, and the figures they are     *)
(* shown.  The desks share no state, so a behaviour looks at one of them   *)
(* and leaves the others where they start.                                 *)
(***************************************************************************)
EXTENDS Inquiries, Quotations, Access, Figures

VARIABLE desk

vars == <<desk, inquiryVars, quotationVars, accessVars, question>>

\* A desk that is not looked at has one start.
Init ==
    /\ desk \in {"inquiries", "quotations", "access", "figures"}
    /\ InquiryInit /\ QuotationInit /\ AccessInit
    /\ FiguresInit
    /\ desk # "access" =>
          matter = (CHOOSE m \in SeparatedActs : TRUE)
              /\ member = [u \in Users |-> CHOOSE role \in Staffed : TRUE]

AtInquiries ==
    /\ desk = "inquiries" /\ InquiryNext
    /\ UNCHANGED <<desk, quotationVars, accessVars, question>>

AtQuotations ==
    /\ desk = "quotations" /\ QuotationNext
    /\ UNCHANGED <<desk, inquiryVars, accessVars, question>>

AtAccess ==
    /\ desk = "access" /\ AccessNext
    /\ UNCHANGED <<desk, inquiryVars, quotationVars, question>>

AtFigures ==
    /\ desk = "figures" /\ Ask
    /\ UNCHANGED <<desk, inquiryVars, quotationVars, accessVars>>

Next == AtInquiries \/ AtQuotations \/ AtAccess \/ AtFigures

Spec == Init /\ [][Next]_vars

-----------------------------------------------------------------------------
\* The types of the desks' variables.
FrontOfficeTypeOK == QuotationTypeOK /\ AccessTypeOK
=============================================================================
