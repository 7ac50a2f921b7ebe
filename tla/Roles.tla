------------------------------- MODULE Roles -------------------------------
(***************************************************************************)
(* The permission matrix (platform/rbac) and the permission each server    *)
(* action asks for before it opens its transaction (the actions.ts files). *)
(***************************************************************************)
ROLES == {"OWNER_ADMIN", "SALES_MANAGER", "SALESPERSON", "FINANCE", "WAREHOUSE"}

SALES_READS ==
    {"read:dashboard", "read:customer", "read:product", "read:inquiry", "read:quotation", "read:order"}

\* What both sales roles may do.
Selling == SALES_READS \cup
    {"write:customer", "write:inquiry", "parse:inquiry", "review:inquiry-match",
     "mark:inquiry-ready", "create:quotation", "edit:quotation", "submit:quotation",
     "approve:quotation:self_limit", "mark:quotation-sent", "read:follow-up",
     "complete:follow-up", "record:quotation-acceptance", "record:quotation-rejection",
     "create:sales-order", "submit:payment-evidence", "approve:customer-message",
     "read:warehouse-task", "read:delivery", "read:inventory-exception"}

Managing == Selling \cup
    {"read:receivables", "read:audit", "read:settings", "approve:quotation:manager_limit",
     "set:customer-credit", "cancel:order", "assign:delivery", "dispatch:delivery",
     "complete:delivery", "fail:delivery", "review:inventory-discrepancy",
     "resolve:inventory-discrepancy", "resolve:reservation-shortfall", "create:return",
     "create:delivery-retry", "resolve:delivery-loss"}

Finance ==
    {"read:dashboard", "read:customer", "read:quotation", "read:order", "read:payment",
     "review:payment", "read:receivables", "read:audit", "confirm:payment", "reject:payment",
     "set:customer-credit", "approve:customer-message", "read:warehouse-task",
     "read:delivery", "read:inventory-exception"}

Warehouse ==
    {"read:dashboard", "read:order", "read:product", "read:warehouse", "read:delivery",
     "adjust:stock", "read:warehouse-task", "create:warehouse-task", "start:warehouse-task",
     "prepare:warehouse-task", "complete:warehouse-task", "record:pickup",
     "read:inventory-exception", "report:inventory-discrepancy", "receive:return",
     "inspect:return", "complete:return"}

PERMISSIONS ==
    Managing \cup Finance \cup Warehouse
        \cup {"write:product", "cancel:warehouse-task", "manage:users", "manage:settings"}

\* A mutated form: finance may record claims as well.
ROLE_PERMISSIONS_Helpful ==
    [OWNER_ADMIN |-> PERMISSIONS, SALES_MANAGER |-> Managing, SALESPERSON |-> Selling,
     FINANCE |-> Finance \cup {"submit:payment-evidence"}, WAREHOUSE |-> Warehouse]

ROLE_PERMISSIONS ==
    [OWNER_ADMIN |-> PERMISSIONS, SALES_MANAGER |-> Managing, SALESPERSON |-> Selling,
     FINANCE |-> Finance, WAREHOUSE |-> Warehouse]

can(role, permission) == permission \in ROLE_PERMISSIONS[role]

-----------------------------------------------------------------------------
(* requirePermission of each server action                                 *)

salesActions ==
    [createQuotationAction |-> "create:quotation", editQuotationAction |-> "edit:quotation",
     submitQuotationAction |-> "submit:quotation",
     approveQuotationAction |-> "approve:quotation:self_limit",
     rejectQuotationAction |-> "approve:quotation:self_limit",
     markSentAction |-> "mark:quotation-sent", cancelQuotationAction |-> "edit:quotation"]

orderActions ==
    [recordAcceptanceAction |-> "record:quotation-acceptance",
     recordRejectionAction |-> "record:quotation-rejection",
     createOrderAction |-> "create:sales-order", cancelOrderAction |-> "cancel:order"]

paymentActions ==
    [submitPaymentAction |-> "submit:payment-evidence", extractAction |-> "review:payment",
     correctAction |-> "review:payment", confirmAction |-> "confirm:payment",
     rejectAction |-> "reject:payment"]

warehouseActions ==
    [createTaskAction |-> "create:warehouse-task", startTaskAction |-> "start:warehouse-task",
     toggleItemAction |-> "prepare:warehouse-task", markPreparedAction |-> "prepare:warehouse-task",
     completeTaskAction |-> "complete:warehouse-task", cancelTaskAction |-> "cancel:warehouse-task",
     recordPickupAction |-> "record:pickup"]

deliveryActions ==
    [assignAction |-> "assign:delivery", dispatchAction |-> "dispatch:delivery",
     completeAction |-> "complete:delivery", failAction |-> "fail:delivery"]

exceptionActions ==
    [reportAction |-> "report:inventory-discrepancy", reviewAction |-> "review:inventory-discrepancy",
     reconcileAction |-> "resolve:inventory-discrepancy",
     withdrawDiscrepancyAction |-> "resolve:inventory-discrepancy",
     reduceReservationAction |-> "resolve:reservation-shortfall",
     retryAction |-> "create:delivery-retry", returnAction |-> "create:return",
     lossAction |-> "resolve:delivery-loss", receiveAction |-> "receive:return",
     inspectAction |-> "inspect:return", completeReturnAction |-> "complete:return",
     withdrawReturnAction |-> "create:return"]

catalogueActions ==
    [createProductAction |-> "write:product", adjustStockAction |-> "adjust:stock"]

customerActions ==
    [createCustomerAction |-> "write:customer", updateCustomerAction |-> "write:customer"]

inquiryActions ==
    [createInquiryAction |-> "write:inquiry", parseInquiryAction |-> "parse:inquiry",
     reviewItemAction |-> "review:inquiry-match", markReadyAction |-> "mark:inquiry-ready"]

followUpActions ==
    [completeFollowUpAction |-> "complete:follow-up", snoozeFollowUpAction |-> "complete:follow-up"]

Joined(f, g) ==
    [act \in DOMAIN f \cup DOMAIN g |-> IF act \in DOMAIN f THEN f[act] ELSE g[act]]

requirePermission ==
    Joined(salesActions, Joined(orderActions, Joined(paymentActions, Joined(warehouseActions,
    Joined(deliveryActions, Joined(exceptionActions, Joined(catalogueActions,
    Joined(customerActions, Joined(inquiryActions, followUpActions)))))))))

\* Acts that the comments of the matrix keep in different hands: a claim and its
\* confirmation; a count and its correction; handing goods out and calling them
\* delivered; setting prices and confirming money; counting and pricing; counting
\* and choosing whose order gives way; ordering goods back and counting them in.
SeparatedActs ==
    {{"submitPaymentAction", "confirmAction"}, {"reportAction", "reconcileAction"},
     {"completeTaskAction", "completeAction"}, {"editQuotationAction", "confirmAction"},
     {"adjustStockAction", "createProductAction"}, {"reportAction", "reduceReservationAction"},
     {"returnAction", "completeReturnAction"}}
=============================================================================
