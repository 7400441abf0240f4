--------------------------- MODULE ApprovalRules ---------------------------
(***************************************************************************)
(* The pure rules of the approval gate (packages/domain/src/approval.ts):  *)
(* the status machine, the time to live, the retry budget and the check on *)
(* an edited payload.  A payload is abstracted to two coordinates, because *)
(* nothing in the gate tells more of it apart: `text`, everything the user *)
(* may change while reviewing (EDITABLE_FIELDS), and `fixed`, everything   *)
(* else (the account it is sent from, the thread, the event id).           *)
(***************************************************************************)
EXTENDS Integers

CONSTANTS
  Fixed,                \* values of the fields fixed at proposal time
  Texts,                \* values of the fields the review card may edit
  ApprovalTTL,          \* APPROVAL_TTL_MS, in clock ticks
  MaxApprovalAttempts,  \* MAX_APPROVAL_ATTEMPTS
  RetryDelay            \* retryDelayMs by attempt count, in clock ticks

ASSUME TTLAssumption == ApprovalTTL \in Nat \ {0}
ASSUME AttemptsAssumption == MaxApprovalAttempts \in Nat \ {0}
ASSUME DelayAssumption == RetryDelay \in [1..MaxApprovalAttempts -> Nat]

ApprovalStatus ==
  {"pending", "approved", "executing", "executed", "failed", "rejected", "expired"}

Transitions ==
  [pending   |-> {"approved", "rejected", "expired"},
   approved  |-> {"executing", "rejected", "expired"},
   executing |-> {"executed", "failed", "approved"},
   failed    |-> {"approved", "rejected", "expired"},
   executed  |-> {},
   rejected  |-> {},
   expired   |-> {}]

CanTransition(from, to) == to \in Transitions[from]

IsTerminal(status) == Transitions[status] = {}

ApprovalExpiryFrom(t) == t + ApprovalTTL

IsExpired(expiresAt, t) == expiresAt <= t

ShouldRetry(attemptCount) == attemptCount < MaxApprovalAttempts

RetryAt(t, attemptCount) == t + RetryDelay[attemptCount]

Payload == [fixed : Fixed, text : Texts]

\* An edit is legal when it differs from the original in editable fields only.  (The
\* comparison leaves out `kind`, approval.ts 118, which neither coordinate tells apart.)
ValidateEdit(original, edited) == edited.fixed = original.fixed
=============================================================================
