----------------------------- MODULE Approvals -----------------------------
(***************************************************************************)
(* The approval gate: the functions approval-create, approval-decide,      *)
(* approval-retry and approvals-expire, the shared executor they call, the *)
(* approval_actions table with its unique key and its transition trigger,  *)
(* and the provider as the executor sees it.                               *)
(*                                                                         *)
(* Every function invocation is a job that holds what it has read between  *)
(* two database or provider calls; each such call is one action, so jobs   *)
(* interleave exactly where the code awaits.  A handler reads its clock    *)
(* (`now`) once, right before its first read, and that read is one action  *)
(* with it.                                                                *)
(*                                                                         *)
(* Abstracted: logging, the audit trail, the result columns (result_ref,   *)
(* failure_code, the *_at stamps) and the local mirror rows dispatch       *)
(* writes, none of which the gate reads back.                              *)
(***************************************************************************)
EXTENDS ApprovalRules, FiniteSets

CONSTANTS
  Rows,          \* ids of approval_actions rows, absent until inserted
  Keys,          \* base idempotency keys (user, action type, discriminator)
  Users,         \* slots for invocations made by the user's devices
  Crons,         \* slots for approvals-expire runs
  CallAttempts,  \* tries withRetry makes of one provider call
  RetryBatch,    \* LIMIT of the due-retries query
  Horizon,       \* bound: the clock stops here and nothing outlives it
  AttemptCap,    \* bound: attempts after which the user retries no more
  EffectCap,     \* bound: provider effects counted per row
  Null

Procs == Users \cup Crons

ASSUME NullAssumption == Null \notin Nat \cup Rows \cup Keys \cup Payload \cup ApprovalStatus
ASSUME BoundsAssumption ==
  /\ CallAttempts \in Nat \ {0}
  /\ RetryBatch \in Nat \ {0}
  /\ Horizon \in Nat
  /\ AttemptCap \in Nat
  /\ EffectCap \in Nat \ {0}
ASSUME SlotsAssumption == Users \cap Crons = {}

VARIABLES
  now,          \* the clock
  approval,     \* the table: a record per row id
  job,          \* what each invocation holds between two calls
  consent,      \* the payload the approving user had on screen when they tapped
  effects,      \* how often the provider acted for a row (up to EffectCap)
  sent,         \* the payloads it acted on
  late          \* the payloads of requests given up on that it may still act on

vars == <<now, approval, job, consent, effects, sent, late>>
provider == <<effects, sent, late>>

Blank ==
  [status |-> "absent", key |-> Null, released |-> FALSE, payload |-> Null,
   original |-> Null, expires |-> 0, attempts |-> 0, due |-> Null]

Idle ==
  [pc |-> "idle", row |-> Null, key |-> Null, now |-> 0, seen |-> Null, payload |-> Null,
   shown |-> Null, attempts |-> 0, tries |-> 0, retryable |-> FALSE, queue |-> {}]

CreateSteps == {"refresh", "release", "insert"}
DecideSteps == {"card", "expire", "reject", "claim"}
ExecutorSteps == {"load", "lock", "dispatch", "succeeded", "errored"}
Steps == {"idle", "reopen", "list", "next"} \cup CreateSteps \cup DecideSteps \cup ExecutorSteps

Stored ==
  [status : ApprovalStatus \cup {"absent"}, key : Keys \cup {Null}, released : BOOLEAN,
   payload : Payload \cup {Null}, original : Payload \cup {Null}, expires : Nat,
   attempts : Nat, due : Nat \cup {Null}]

Job ==
  [pc : Steps, row : Rows \cup {Null}, key : Keys \cup {Null}, now : Nat,
   seen : ApprovalStatus \cup {Null}, payload : Payload \cup {Null},
   shown : Payload \cup {Null}, attempts : Nat, tries : Nat, retryable : BOOLEAN, queue : SUBSET Rows]

Exists(r) == approval[r].status # "absent"
Holds(r, k) == Exists(r) /\ approval[r].key = k /\ ~approval[r].released

\* Mutant: the trigger is missing.
TriggerAllowsAll(from, to) == TRUE

\* before update of status: the trigger lets a status stay or follow the machine.
TriggerAllows(from, to) == from = to \/ CanTransition(from, to)

\* An UPDATE that matches zero rows, or that the trigger rejects, changes nothing.
UpdateWhere(r, matches, new) ==
  approval' = IF matches /\ TriggerAllows(approval[r].status, new.status)
              THEN [approval EXCEPT ![r] = new] ELSE approval

Bump(n) == IF n < EffectCap THEN n + 1 ELSE n

Init ==
  /\ now = 0
  /\ approval = [r \in Rows |-> Blank]
  /\ job = [p \in Procs |-> Idle]
  /\ consent = [r \in Rows |-> Null]
  /\ effects = [r \in Rows |-> 0]
  /\ sent = [r \in Rows |-> {}]
  /\ late = [r \in Rows |-> {}]

At(p, step) == job[p].pc = step
Goto(p, held) == job' = [job EXCEPT ![p] = held]
\* The handler returns or throws; a cron run goes on to its next due row instead.
Done(p) == IF p \in Crons THEN [Idle EXCEPT !.pc = "next", !.now = job[p].now, !.queue = job[p].queue]
           ELSE Idle

-----------------------------------------------------------------------------
(* approval-create *)

Proposal(p, old) ==
  [old EXCEPT !.payload = job[p].payload, !.original = job[p].payload,
              !.expires = ApprovalExpiryFrom(job[p].now)]

\* The lookup by key, and where it sends the handler.
CreateRead(p, k, proposed) ==
  /\ At(p, "idle")
  /\ ApprovalExpiryFrom(now) <= Horizon
  /\ LET held == {r \in Rows : Holds(r, k)}
         start == [Idle EXCEPT !.now = now, !.payload = proposed, !.key = k]
     IN \/ /\ held = {}
           /\ Goto(p, [start EXCEPT !.pc = "insert"])
        \/ \E r \in held :
             /\ approval[r].status = "pending"
             /\ Goto(p, [start EXCEPT !.pc = "refresh", !.row = r])
        \/ \E r \in held :
             /\ IsTerminal(approval[r].status)
             /\ Goto(p, [start EXCEPT !.pc = "release", !.row = r])
  /\ UNCHANGED <<now, approval, consent, provider>>

\* Mutant: the refresh has lost its `status = pending` filter.
CreateRefreshAlways(p) ==
  /\ At(p, "refresh")
  /\ UpdateWhere(job[p].row, TRUE, Proposal(p, approval[job[p].row]))
  /\ Goto(p, Idle)
  /\ UNCHANGED <<now, consent, provider>>

CreateRefresh(p) ==
  /\ At(p, "refresh")
  /\ LET r == job[p].row
     IN UpdateWhere(r, approval[r].status = "pending", Proposal(p, approval[r]))
  /\ Goto(p, Idle)
  /\ UNCHANGED <<now, consent, provider>>

CreateRelease(p) ==
  /\ At(p, "release")
  /\ LET r == job[p].row
     IN UpdateWhere(r, Holds(r, job[p].key), [approval[r] EXCEPT !.released = TRUE])
  /\ Goto(p, [job[p] EXCEPT !.pc = "insert", !.row = Null])
  /\ UNCHANGED <<now, consent, provider>>

\* Mutant: no unique index on the key.
CreateInsertUnchecked(p) ==
  /\ At(p, "insert")
  /\ \E r \in Rows :
       /\ ~Exists(r)
       /\ approval' = [approval EXCEPT ![r] =
            Proposal(p, [Blank EXCEPT !.status = "pending", !.key = job[p].key])]
  /\ Goto(p, Idle)
  /\ UNCHANGED <<now, consent, provider>>

\* The unique index decides; the loser reads the winner's row and returns it.
CreateInsert(p) ==
  /\ At(p, "insert")
  /\ \/ /\ \A r \in Rows : ~Holds(r, job[p].key)
        /\ \E r \in Rows :
             /\ ~Exists(r)
             /\ approval' = [approval EXCEPT ![r] =
                  Proposal(p, [Blank EXCEPT !.status = "pending", !.key = job[p].key])]
     \/ /\ \E r \in Rows : Holds(r, job[p].key)
        /\ UNCHANGED approval
  /\ Goto(p, Idle)
  /\ UNCHANGED <<now, consent, provider>>

-----------------------------------------------------------------------------
(* approval-decide *)

\* A device fetches a row and shows it (approvals.list and approvals.get).
OpenCard(p, r) ==
  /\ At(p, "idle")
  /\ Exists(r)
  /\ Goto(p, [Idle EXCEPT !.pc = "card", !.row = r, !.shown = approval[r].payload])
  /\ UNCHANGED <<now, approval, consent, provider>>

\* Either decision finds the row past its expiry.
DecideReadExpired(p) ==
  /\ At(p, "card")
  /\ LET r == job[p].row
     IN /\ IsExpired(approval[r].expires, now)
        /\ Goto(p, [Idle EXCEPT !.pc = "expire", !.row = r])
  /\ UNCHANGED <<now, approval, consent, provider>>

DecideReadReject(p) ==
  /\ At(p, "card")
  /\ LET r == job[p].row
     IN /\ ~IsExpired(approval[r].expires, now)
        /\ CanTransition(approval[r].status, "rejected")
        /\ Goto(p, [Idle EXCEPT !.pc = "reject", !.row = r, !.seen = approval[r].status])
  /\ UNCHANGED <<now, approval, consent, provider>>

\* `edit` is Null when the user approves the card as it is shown.
DecideReadApprove(p, edit) ==
  /\ At(p, "card")
  /\ LET r == job[p].row
     IN /\ ~IsExpired(approval[r].expires, now)
        /\ approval[r].status = "pending"
        /\ edit # Null => ValidateEdit(approval[r].original, edit)
        /\ Goto(p, [job[p] EXCEPT !.pc = "claim", !.now = now, !.payload = edit,
                                  !.shown = IF edit = Null THEN @ ELSE edit])
  /\ UNCHANGED <<now, approval, consent, provider>>

\* The UPDATE carries no status filter and its error is not looked at.
DecideExpire(p) ==
  /\ At(p, "expire")
  /\ LET r == job[p].row
     IN UpdateWhere(r, TRUE, [approval[r] EXCEPT !.status = "expired"])
  /\ Goto(p, Idle)
  /\ UNCHANGED <<now, consent, provider>>

DecideReject(p) ==
  /\ At(p, "reject")
  /\ LET r == job[p].row
     IN UpdateWhere(r, approval[r].status = job[p].seen, [approval[r] EXCEPT !.status = "rejected"])
  /\ Goto(p, Idle)
  /\ UNCHANGED <<now, consent, provider>>

\* Mutant: the claim has lost its `status = pending` filter.
DecideClaimAlways(p) ==
  /\ At(p, "claim")
  /\ LET r == job[p].row
         edit == job[p].payload
     IN /\ UpdateWhere(r, TRUE, [approval[r] EXCEPT !.status = "approved",
                                   !.payload = IF edit = Null THEN @ ELSE edit])
        /\ consent' = [consent EXCEPT ![r] = job[p].shown]
        /\ Goto(p, [Idle EXCEPT !.pc = "load", !.row = r, !.now = job[p].now])
  /\ UNCHANGED <<now, provider>>

DecideClaim(p) ==
  /\ At(p, "claim")
  /\ LET r == job[p].row
         edit == job[p].payload
         row == approval[r]
     IN \/ /\ row.status = "pending"
           /\ UpdateWhere(r, TRUE, [row EXCEPT !.status = "approved",
                                      !.payload = IF edit = Null THEN @ ELSE edit])
           /\ consent' = [consent EXCEPT ![r] = job[p].shown]
           /\ Goto(p, [Idle EXCEPT !.pc = "load", !.row = r, !.now = job[p].now])
        \/ /\ row.status # "pending"
           /\ Goto(p, Idle)
           /\ UNCHANGED <<approval, consent>>
  /\ UNCHANGED <<now, provider>>

-----------------------------------------------------------------------------
(* approval-retry *)

RetryRead(p) ==
  /\ At(p, "card")
  /\ LET r == job[p].row
         start == [Idle EXCEPT !.row = r, !.now = now]
     IN /\ approval[r].attempts < AttemptCap
        /\ \/ /\ approval[r].status = "failed"
              /\ Goto(p, [start EXCEPT !.pc = "reopen"])
           \/ /\ approval[r].status = "approved"
              /\ Goto(p, [start EXCEPT !.pc = "load"])
  /\ UNCHANGED <<now, approval, consent, provider>>

\* Zero rows matched is not an error here: the executor is entered either way.
RetryReopen(p) ==
  /\ At(p, "reopen")
  /\ LET r == job[p].row
     IN UpdateWhere(r, approval[r].status = "failed",
                    [approval[r] EXCEPT !.status = "approved", !.due = Null])
  /\ Goto(p, [job[p] EXCEPT !.pc = "load"])
  /\ UNCHANGED <<now, consent, provider>>

-----------------------------------------------------------------------------
(* executeApproval *)

\* Anything but `approved` returns (executed) or throws; neither changes state.
ExecLoad(p) ==
  /\ At(p, "load")
  /\ LET row == approval[job[p].row]
     IN \/ /\ CanTransition(row.status, "executing")
           /\ Goto(p, [job[p] EXCEPT !.pc = "lock", !.seen = row.status,
                                     !.payload = row.payload, !.attempts = row.attempts])
        \/ /\ ~CanTransition(row.status, "executing")
           /\ Goto(p, Done(p))
  /\ UNCHANGED <<now, approval, consent, provider>>

\* Mutant: the execution lock has lost its status filter.
ExecLockAlways(p) ==
  /\ At(p, "lock")
  /\ UpdateWhere(job[p].row, TRUE, [approval[job[p].row] EXCEPT !.status = "executing"])
  /\ Goto(p, [job[p] EXCEPT !.pc = "dispatch", !.tries = 1])
  /\ UNCHANGED <<now, consent, provider>>

ExecLock(p) ==
  /\ At(p, "lock")
  /\ LET r == job[p].row
     IN \/ /\ approval[r].status = job[p].seen
           /\ UpdateWhere(r, TRUE, [approval[r] EXCEPT !.status = "executing"])
           /\ Goto(p, [job[p] EXCEPT !.pc = "dispatch", !.tries = 1])
        \/ /\ approval[r].status # job[p].seen
           /\ Goto(p, Done(p))
           /\ UNCHANGED approval
  /\ UNCHANGED <<now, consent, provider>>

\* Mutant: an error that is not retryable is swallowed.
ErroredQuietly(p, canRetry) ==
  Goto(p, [job[p] EXCEPT !.pc = IF canRetry THEN "errored" ELSE "succeeded",
                         !.retryable = canRetry])

Errored(p, canRetry) ==
  Goto(p, [job[p] EXCEPT !.pc = "errored", !.retryable = canRetry])

\* dispatch fails before the provider call: account, scopes, token, conflict.
DispatchRefused(p) ==
  /\ At(p, "dispatch") /\ job[p].tries = 1
  /\ \E canRetry \in BOOLEAN : Errored(p, canRetry)
  /\ UNCHANGED <<now, approval, consent, provider>>

\* What the provider does with one request, whatever the executor then hears.
Acts(p) ==
  LET r == job[p].row
  IN /\ effects' = [effects EXCEPT ![r] = Bump(@)]
     /\ sent' = [sent EXCEPT ![r] = @ \cup {job[p].payload}]
     /\ UNCHANGED late

Withholds(p) ==
  LET r == job[p].row
  IN /\ late' = [late EXCEPT ![r] = @ \cup {job[p].payload}]
     /\ UNCHANGED <<effects, sent>>

DispatchOk(p) ==
  /\ At(p, "dispatch")
  /\ Acts(p)
  /\ Goto(p, [job[p] EXCEPT !.pc = "succeeded"])
  /\ UNCHANGED <<now, approval, consent>>

\* A retryable error (a timeout, a 5xx): withRetry tries again while it may.
DispatchRetryable(p) ==
  /\ At(p, "dispatch")
  /\ \/ Acts(p)
     \/ Withholds(p)
     \/ UNCHANGED provider
  /\ \/ /\ job[p].tries < CallAttempts
        /\ Goto(p, [job[p] EXCEPT !.tries = @ + 1])
     \/ /\ job[p].tries = CallAttempts
        /\ Errored(p, TRUE)
  /\ UNCHANGED <<now, approval, consent>>

\* An error that is not retryable: a 4xx, or an answer that cannot be parsed.
DispatchFatal(p) ==
  /\ At(p, "dispatch")
  /\ Acts(p) \/ UNCHANGED provider
  /\ Errored(p, FALSE)
  /\ UNCHANGED <<now, approval, consent>>

\* The two closing UPDATEs go by id alone, and a database error on them is
\* dropped: then the row stays as it is.
SettledRow(p) ==
  LET row == approval[job[p].row]
      tried == job[p].attempts + 1
  IN IF At(p, "succeeded") THEN [row EXCEPT !.status = "executed"]
     ELSE IF job[p].retryable /\ ShouldRetry(tried)
     THEN [row EXCEPT !.status = "approved", !.attempts = tried,
                      !.due = RetryAt(job[p].now, tried)]
     ELSE [row EXCEPT !.status = "failed", !.attempts = tried, !.due = Null]

ExecSettle(p) ==
  /\ At(p, "succeeded") \/ At(p, "errored")
  /\ \E written \in BOOLEAN : UpdateWhere(job[p].row, written, SettledRow(p))
  /\ Goto(p, Done(p))
  /\ UNCHANGED <<now, consent, provider>>

-----------------------------------------------------------------------------
(* approvals-expire *)

\* Mutant: the sweep expires only what nobody answered.
CronSweepPending(c) ==
  /\ At(c, "idle")
  /\ approval' = [r \in Rows |->
       IF approval[r].status = "pending" /\ IsExpired(approval[r].expires, now)
       THEN [approval[r] EXCEPT !.status = "expired"] ELSE approval[r]]
  /\ Goto(c, [Idle EXCEPT !.pc = "list", !.now = now])
  /\ UNCHANGED <<now, consent, provider>>

CronSweep(c) ==
  /\ At(c, "idle")
  /\ approval' = [r \in Rows |->
       IF approval[r].status \in {"pending", "approved"} /\ IsExpired(approval[r].expires, now)
       THEN [approval[r] EXCEPT !.status = "expired"] ELSE approval[r]]
  /\ Goto(c, [Idle EXCEPT !.pc = "list", !.now = now])
  /\ UNCHANGED <<now, consent, provider>>

DueRetries(t) ==
  {r \in Rows : /\ approval[r].status = "approved"
                /\ approval[r].due # Null
                /\ approval[r].due <= t}

\* No ORDER BY: past the limit, which rows come back is the database's choice.
CronList(c) ==
  /\ At(c, "list")
  /\ \E batch \in SUBSET DueRetries(job[c].now) :
       /\ \/ batch = DueRetries(job[c].now) /\ Cardinality(batch) <= RetryBatch
          \/ Cardinality(batch) = RetryBatch
       /\ Goto(c, [job[c] EXCEPT !.pc = "next", !.queue = batch])
  /\ UNCHANGED <<now, approval, consent, provider>>

CronNext(c) ==
  /\ At(c, "next")
  /\ \/ \E r \in job[c].queue :
          Goto(c, [job[c] EXCEPT !.pc = "load", !.row = r, !.queue = @ \ {r}])
     \/ /\ job[c].queue = {}
        /\ Goto(c, Idle)
  /\ UNCHANGED <<now, approval, consent, provider>>

-----------------------------------------------------------------------------
(* The environment *)

Tick ==
  /\ now < Horizon
  /\ now' = now + 1
  /\ UNCHANGED <<approval, job, consent, provider>>

\* The provider acts on a request whose caller gave up waiting for it, and may
\* hold another one like it.
LateEffect(r) ==
  /\ \E x \in late[r] :
       /\ \E rest \in {late[r], late[r] \ {x}} : late' = [late EXCEPT ![r] = rest]
       /\ sent' = [sent EXCEPT ![r] = @ \cup {x}]
  /\ effects' = [effects EXCEPT ![r] = Bump(@)]
  /\ UNCHANGED <<now, approval, job, consent>>

\* The invocation is killed, or a database call fails and the handler throws.
Abort(p) ==
  /\ ~At(p, "idle")
  /\ Goto(p, Idle)
  /\ UNCHANGED <<now, approval, consent, provider>>

\* A failed read or lock of one row is caught by the sweep, which goes on.
CronSkip(c) ==
  /\ At(c, "load") \/ At(c, "lock")
  /\ Goto(c, Done(c))
  /\ UNCHANGED <<now, approval, consent, provider>>

-----------------------------------------------------------------------------

Create(p) ==
  \/ \E k \in Keys, proposed \in Payload : CreateRead(p, k, proposed)
  \/ CreateRefresh(p)
  \/ CreateRelease(p)
  \/ CreateInsert(p)

Decide(p) ==
  \/ \E r \in Rows : OpenCard(p, r)
  \/ DecideReadExpired(p)
  \/ DecideReadReject(p)
  \/ \E edit \in Payload \cup {Null} : DecideReadApprove(p, edit)
  \/ DecideExpire(p)
  \/ DecideReject(p)
  \/ DecideClaim(p)

Retry(p) ==
  \/ RetryRead(p)
  \/ RetryReopen(p)

Execute(p) ==
  \/ ExecLoad(p)
  \/ ExecLock(p)
  \/ DispatchRefused(p)
  \/ DispatchOk(p)
  \/ DispatchRetryable(p)
  \/ DispatchFatal(p)
  \/ ExecSettle(p)

Sweep(c) ==
  \/ CronSweep(c)
  \/ CronList(c)
  \/ CronNext(c)
  \/ CronSkip(c)

Next ==
  \/ \E p \in Users : Create(p) \/ Decide(p) \/ Retry(p)
  \/ \E p \in Procs : Execute(p) \/ Abort(p)
  \/ \E c \in Crons : Sweep(c)
  \/ \E r \in Rows : LateEffect(r)
  \/ Tick

Spec == Init /\ [][Next]_vars

\* pg_cron starts a sweep every ten minutes and the platform runs it; the clock
\* advances.  Nothing is assumed of the users, nor that an invocation survives.
FairSpec ==
  /\ Spec
  /\ WF_vars(Tick)
  /\ \A c \in Crons : WF_vars(Sweep(c) \/ Execute(c))

-----------------------------------------------------------------------------
(* What the gate promises *)

TypeOK ==
  /\ now \in 0..Horizon
  /\ approval \in [Rows -> Stored]
  /\ job \in [Procs -> Job]
  /\ consent \in [Rows -> Payload \cup {Null}]
  /\ effects \in [Rows -> 0..EffectCap]
  /\ sent \in [Rows -> SUBSET Payload]
  /\ late \in [Rows -> SUBSET Payload]

Executing(p) == job[p].pc \in {"dispatch", "succeeded", "errored"}
Live(r) == Exists(r) /\ ~IsTerminal(approval[r].status)
Decided(r) == approval[r].status \notin {"absent", "pending"}

\* However many devices and cron runs race for one approval, at most one of them
\* is between taking the execution lock and writing the outcome, and the row says
\* `executing` all that time, so the outcome written by id alone is never the
\* wrong one (executor.ts: the conditional claim is the lock).
SingleExecutor ==
  \A p \in Procs : Executing(p) =>
    /\ approval[job[p].row].status = "executing"
    /\ \A q \in Procs \ {p} : Executing(q) => job[q].row # job[p].row

\* Two proposals still in play never share a base idempotency key, through every
\* interleaving of lookups, key releases and inserts (approval-create).
OneLivePerKey ==
  \A r, s \in Rows : r # s /\ Live(r) /\ Live(s) => approval[r].key # approval[s].key

\* Whatever reached the provider, or is still on its way there, belongs to a row a
\* user decided and is exactly the payload that row holds, across refreshes, edits
\* and re-executions (approval-create's refusal to rewrite an approved payload).
SentAsApproved ==
  \A r \in Rows : sent[r] \cup late[r] # {} =>
    /\ consent[r] # Null
    /\ Decided(r)
    /\ sent[r] \cup late[r] \subseteq {approval[r].payload}

\* The user is told `executed` only of something the provider really did.
ExecutedWasSent ==
  \A r \in Rows : approval[r].status = "executed" => sent[r] # {}

\* No request leaves for the row: the provider can only act on one it already holds.
Quiet(r) ==
  /\ late'[r] \subseteq late[r]
  /\ effects'[r] # effects[r] => late[r] # {}
  /\ sent'[r] \subseteq sent[r] \cup late[r]

\* After a row is executed, rejected or expired its status and payload stay, and no
\* request leaves for it.
TerminalIsFinal ==
  [][\A r \in Rows : Exists(r) /\ IsTerminal(approval[r].status) =>
       /\ approval'[r].status = approval[r].status
       /\ approval'[r].payload = approval[r].payload
       /\ Quiet(r)]_vars

\* Its executor died, or could not write the outcome.
Orphaned(r) ==
  /\ approval[r].status = "executing"
  /\ \A p \in Procs : Executing(p) => job[p].row # r

\* An execution that died is nobody else's to take up: no retry, sweep, decision or
\* second cron run touches its row, and nothing more is sent for it, whatever they
\* read before it was locked (executor.ts 85-103).
OrphanIsInert ==
  [][\A r \in Rows : Orphaned(r) => Orphaned(r)' /\ approval'[r] = approval[r] /\ Quiet(r)]_vars

\* With the cron running and time passing, no proposal stays open past its expiry
\* unless it is renewed, and no approved row waits forever: it is executed again
\* or expired, even when the invocation that approved it died.
SweptInTime ==
  \A r \in Rows :
    LET waiting == \/ approval[r].status = "pending" /\ IsExpired(approval[r].expires, now)
                   \/ approval[r].status = "approved"
    IN waiting ~> ~waiting

StatusOf == [r \in Rows |-> approval[r].status]
PayloadOf == [r \in Rows |-> approval[r].payload]

Machine ==
  INSTANCE ApprovalMachine WITH status <- StatusOf, payload <- PayloadOf, held <- late

\* The gate as a whole implements the status machine: whatever the invocations do
\* with stale reads, lost writes and crashes, a reader of the table and the provider
\* sees one legal transition at a time (domain/approval.ts, 0012).
ImplementsMachine == Machine!Spec

-----------------------------------------------------------------------------
(* What the repository says of the gate and the code does not keep *)

\* "a retry after a timeout can never send the same mail twice" (0006, the comment
\* on idempotency_key): withRetry and the re-queue repeat a request whose answer was
\* lost, and the provider is given nothing to recognise it by.
NeverSentTwice == \A r \in Rows : effects[r] <= 1
=============================================================================
