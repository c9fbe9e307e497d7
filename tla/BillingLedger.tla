------------------------------ MODULE BillingLedger ------------------------------
(***************************************************************************)
(* What the billing of one organization promises, whatever the order in    *)
(* which the payment provider's events come, how often each comes, and how *)
(* far its handling gets: the level of access and the start of a           *)
(* delinquency are written by an event that the provider has sent and that *)
(* is not older than any event written before, or access is withdrawn      *)
(* after a delinquency that is over.                                       *)
(***************************************************************************)
EXTENDS Naturals, Sequences

CONSTANTS GraceDays     \* how long access outlives a failed payment

VARIABLES
    events,     \* what the provider has sent, in the order of its clock
    now,        \* the clock
    level,      \* the level of access
    failedAt,   \* when the first failed payment of the delinquency was, 0 without one
    newest      \* the time of the newest event written, 0 before any

vars == <<events, now, level, failedAt, newest>>

PaidLevels == {"professional", "premium"}
Levels     == PaidLevels \cup {"starter"}

Init ==
    /\ events = <<>>
    /\ now = 1
    /\ level \in Levels /\ failedAt = 0 /\ newest = 0

-----------------------------------------------------------------------------
\* What each event may do to the organization.
Granted(e) ==
    /\ e.kind \in {"checkout", "created", "paid"} \/ (e.kind = "updated" /\ e.status \in {"active", "trialing"})
    /\ level' \in PaidLevels
    /\ failedAt' = 0

Revoked(e) ==
    /\ e.kind = "deleted" \/ (e.kind = "updated" /\ e.status \in {"past_due", "unpaid", "canceled"})
    /\ level' = "starter"
    /\ UNCHANGED failedAt

Failed(e) ==
    /\ e.kind = "failed"
    /\ failedAt' = IF failedAt = 0 THEN e.at ELSE failedAt
    /\ UNCHANGED level

\* Time passes and the provider sends.
Send ==
    /\ Len(events) <= Len(events') /\ \A i \in DOMAIN events : events'[i] = events[i]
    /\ now' \in {now, now + 1}
    /\ UNCHANGED <<level, failedAt, newest>>

Write ==
    \E i \in DOMAIN events :
        /\ newest <= events[i].at
        /\ newest' = events[i].at
        /\ Granted(events[i]) \/ Revoked(events[i]) \/ Failed(events[i])
        /\ UNCHANGED <<events, now>>

\* A payment has failed, and its grace or its subscription has ended.
Over(e) ==
    /\ e.kind = "failed"
    /\ e.at + GraceDays <= now \/ \E i \in DOMAIN events : events[i].status \in {"unpaid", "canceled"}

Withdraw ==
    /\ \E i \in DOMAIN events : Over(events[i])
    /\ level' = "starter"
    /\ UNCHANGED <<events, now, failedAt, newest>>

Next == Send \/ Write \/ Withdraw

Spec == Init /\ [][Next]_vars
=============================================================================
