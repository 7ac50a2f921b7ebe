----------------------------- MODULE FollowUps -----------------------------
(***************************************************************************)
(* The chases of a sent quotation (modules/followups).  Completing and     *)
(* snoozing lock nothing: they read the follow-up with its quotation, and  *)
(* write later from what they read.  Nothing keeps two completions of one  *)
(* follow-up from both scheduling the next: the table has no unique index. *)
(***************************************************************************)
EXTENDS Null, Naturals, FiniteSets

CONSTANTS
    FollowUps,      \* rows that may ever be created
    Chases,         \* requests on a follow-up that may overlap
    MaxFollowUpCount

ASSUME SomebodyIsChased == MaxFollowUpCount \in Nat \ {0}

VARIABLES
    quotation,      \* the quotation row
    followUp,       \* None, or a row; "after" is the scheduledAfter of its audit record,
                    \* "contested" remembers that two requests on it overlapped
    chase,          \* requests under way: None, or what they read
    deciding        \* who holds the lock of the quotation row from one step to the next:
                    \* None, or [to, row, open], the status it moves to, the row it read
                    \* and recalculated, and the follow-ups it found open

FollowUpStatuses == {"DUE", "SNOOZED", "COMPLETED", "CANCELLED"}
FollowUpRow      == [sequence : Nat \ {0}, status : FollowUpStatuses,
                     after : FollowUps \cup {None}, contested : BOOLEAN]

ASSUME NoneIsNoFollowUp == None \notin FollowUpRow /\ None \notin FollowUps

FOLLOW_UP_TRANSITIONS ==
    [DUE       |-> {"COMPLETED", "SNOOZED", "CANCELLED"},
     SNOOZED   |-> {"DUE", "COMPLETED", "CANCELLED"},
     COMPLETED |-> {},
     CANCELLED |-> {}]

Scheduled == {f \in FollowUps : followUp[f] # None}
Open      == {f \in Scheduled : followUp[f].status \in {"DUE", "SNOOZED"}}

ScheduledAfter(f) == {g \in Scheduled : followUp[g].after = f}

Locked == deciding # None

\* Any row that is not used yet.
Schedule(rows, sequence, after) ==
    LET unused == {f \in FollowUps : rows[f] = None} IN
    /\ unused # {}
    /\ followUp' = [rows EXCEPT ![CHOOSE f \in unused : TRUE] =
                        [sequence |-> sequence, status |-> "DUE", after |-> after,
                         contested |-> FALSE]]

mayScheduleAnother(sequence) == sequence < MaxFollowUpCount

\* Part of marking a quotation sent.
scheduleFirstFollowUp == Scheduled = {} /\ Schedule(followUp, 1, None)

\* Part of recording an answer: the rows that were open when they were read.
cancelOpenFollowUps(open) ==
    followUp' = [f \in FollowUps |-> IF f \in open THEN [followUp[f] EXCEPT !.status = "CANCELLED"]
                                     ELSE followUp[f]]

\* A mutated form: what was dealt with is dealt with again.
canTransition_Always(f, to) == f \in Scheduled

canTransition(f, to) == to \in FOLLOW_UP_TRANSITIONS[followUp[f].status]

BeginChase(r) ==
    /\ chase[r] = None
    /\ \E f \in Scheduled, to \in {"COMPLETED", "SNOOZED"} :
          /\ canTransition(f, to)
          /\ chase' = [chase EXCEPT ![r] = [followUp |-> f, to |-> to,
                                            sent |-> quotation.status = "SENT"]]
          /\ followUp' = [followUp EXCEPT ![f].contested =
                              @ \/ \E q \in Chases : chase[q] # None /\ chase[q].followUp = f]
    /\ UNCHANGED <<quotation, deciding>>

\* completeFollowUp: the next chase on request, while the quotation was read SENT.  Its
\* foreign key waits for whoever holds the quotation row.
completeFollowUp(r) ==
    /\ chase[r] # None /\ chase[r].to = "COMPLETED"
    /\ LET f    == chase[r].followUp
           done == [followUp EXCEPT ![f].status = "COMPLETED"]
       IN  \/ followUp' = done
           \/ /\ chase[r].sent /\ ~Locked
              /\ mayScheduleAnother(followUp[f].sequence)
              /\ Schedule(done, followUp[f].sequence + 1, f)
    /\ chase' = [chase EXCEPT ![r] = None]
    /\ UNCHANGED <<quotation, deciding>>

snoozeFollowUp(r) ==
    /\ chase[r] # None /\ chase[r].to = "SNOOZED"
    /\ followUp' = [followUp EXCEPT ![chase[r].followUp].status = "SNOOZED"]
    /\ chase' = [chase EXCEPT ![r] = None]
    /\ UNCHANGED <<quotation, deciding>>

\* Rolled back: nothing was written.
AbandonChase(r) ==
    /\ chase[r] # None
    /\ chase' = [chase EXCEPT ![r] = None]
    /\ UNCHANGED <<quotation, followUp, deciding>>
=============================================================================
