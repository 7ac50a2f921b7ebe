SPECIFICATION GrantsSpec
CHECK_DEADLOCK FALSE
CONSTANT Tables = {"products", "audit_events", "ai_interactions", "payment_evidence_files"}
PROPERTY LiftingRestoresNothingMore
