-------------------------- MODULE ApprovalsProofs --------------------------
(***************************************************************************)
(* Proofs about Approvals, for every set of rows, keys, devices and cron   *)
(* slots.  IInv is inductive: beside the invariants the runs check it says *)
(* what each invocation may rely on between two calls (JobInv), what every *)
(* stored row satisfies (RowInv) and what the unique index guarantees.     *)
(* From it follow the safety invariants, the refinement of ApprovalMachine *)
(* and, through the refinement, the finality of terminal rows; and that    *)
(* nobody takes up the row of an execution that died.                      *)
(***************************************************************************)
EXTENDS Approvals, TLAPS

Terminal(r) == IsTerminal(approval[r].status)
Handling(p) == job[p].pc \notin {"idle", "insert", "list", "next"}

JobInv(p) ==
  /\ Handling(p) => job[p].row \in Rows /\ Exists(job[p].row)
  /\ job[p].pc \in CreateSteps => job[p].payload \in Payload /\ job[p].key \in Keys
  /\ job[p].pc \in {"card", "claim"} => job[p].shown \in Payload
  /\ job[p].pc = "release" => Terminal(job[p].row)
  /\ job[p].pc = "lock" => job[p].seen = "approved"
  /\ job[p].pc = "lock" \/ Executing(p) =>
       Decided(job[p].row) /\ job[p].payload = approval[job[p].row].payload
  /\ job[p].pc = "succeeded" => sent[job[p].row] # {}
  /\ \A r \in job[p].queue : Exists(r)

RowInv(r) ==
  /\ Exists(r) => approval[r].payload \in Payload /\ approval[r].key \in Keys
  /\ approval[r].released => Exists(r) /\ Terminal(r)
  /\ approval[r].status \in {"approved", "executing", "executed", "failed"} => consent[r] # Null

UniqueKey == \A r, s \in Rows : \A k \in Keys : Holds(r, k) /\ Holds(s, k) => r = s

IInv ==
  /\ TypeOK
  /\ \A p \in Procs : JobInv(p)
  /\ \A r \in Rows : RowInv(r)
  /\ UniqueKey
  /\ SentAsApproved
  /\ ExecutedWasSent
  /\ SingleExecutor

\* What no step undoes about a row.
Advances(r) ==
  /\ Exists(r) => Exists(r)' /\ approval'[r].key = approval[r].key
  /\ Exists(r) /\ Terminal(r) => approval'[r].status = approval[r].status
  /\ Decided(r) => Decided(r)' /\ approval'[r].payload = approval[r].payload

-----------------------------------------------------------------------------
(* Lemmas about one step *)

LEMMA GotoTyped ==
  ASSUME job \in [Procs -> Job], NEW p \in Procs, NEW held \in Job, Goto(p, held)
  PROVE  /\ job' \in [Procs -> Job]
         /\ job'[p] = held
         /\ \A q \in Procs \ {p} : job'[q] = job[q]
  BY DEF Goto

LEMMA UpdateTyped ==
  ASSUME approval \in [Rows -> Stored], NEW r \in Rows, NEW matches \in BOOLEAN,
         NEW new \in Stored, UpdateWhere(r, matches, new)
  PROVE  /\ approval' \in [Rows -> Stored]
         /\ \A s \in Rows \ {r} : approval'[s] = approval[s]
         /\ \/ approval'[r] = approval[r]
            \/ matches /\ TriggerAllows(approval[r].status, new.status) /\ approval'[r] = new
  BY DEF UpdateWhere

\* The other invocations keep what they rely on.
LEMMA OthersKeep ==
  ASSUME IInv, NEW p \in Procs,
         \A r \in Rows : Advances(r),
         \A r \in Rows : sent[r] \subseteq sent'[r],
         \A q \in Procs \ {p} : job'[q] = job[q]
  PROVE  \A q \in Procs \ {p} : JobInv(q)'
<1> SUFFICES ASSUME NEW q \in Procs \ {p} PROVE JobInv(q)'
  OBVIOUS
<1>1. JobInv(q) /\ job'[q] = job[q]
  BY DEF IInv
<1>a. \A r \in job'[q].queue : Exists(r)'
  BY <1>1 DEF IInv, TypeOK, Job, JobInv, Advances
<1>2. CASE Handling(q)
  <2>1. job[q].row \in Rows /\ Exists(job[q].row) /\ Advances(job[q].row)
    BY <1>1, <1>2 DEF JobInv
  <2>2. sent[job[q].row] \subseteq sent'[job[q].row]
    BY <2>1
  <2> QED BY <1>1, <1>a, <1>2, <2>1, <2>2 DEF JobInv, Advances, Exists, Terminal, Decided, Executing, Handling, IsTerminal
<1>3. CASE ~Handling(q)
  BY <1>1, <1>a, <1>3 DEF JobInv, Handling, Executing, CreateSteps
<1> QED BY <1>2, <1>3

\* A step of one invocation that only moves it.
LEMMA JobOnly ==
  ASSUME IInv, NEW p \in Procs, NEW held \in Job, Goto(p, held),
         UNCHANGED <<now, approval, consent, provider>>,
         JobInv(p)',
         Executing(p)' => Executing(p) /\ held.row = job[p].row
  PROVE  IInv'
<1>1. /\ job' \in [Procs -> Job]
      /\ job'[p] = held
      /\ \A q \in Procs \ {p} : job'[q] = job[q]
  BY GotoTyped DEF IInv, TypeOK
<1>2. TypeOK'
  BY <1>1 DEF IInv, TypeOK, provider
<1>3. \A r \in Rows : Advances(r)
  BY DEF Advances, Exists, Decided
<1>4. \A q \in Procs : JobInv(q)'
  BY <1>1, <1>3, OthersKeep DEF provider
<1>5. (\A r \in Rows : RowInv(r))' /\ UniqueKey'
  BY DEF IInv, RowInv, UniqueKey, Exists, Terminal, Holds
<1>6. SentAsApproved' /\ ExecutedWasSent'
  BY DEF IInv, SentAsApproved, ExecutedWasSent, Decided, provider
<1>7. SingleExecutor'
  BY <1>1 DEF IInv, SingleExecutor, Executing
<1> QED BY <1>2, <1>4, <1>5, <1>6, <1>7 DEF IInv

\* A step of one invocation that updates one row and moves the invocation.
LEMMA RowAndJob ==
  ASSUME IInv, NEW p \in Procs, NEW held \in Job, NEW r \in Rows, Goto(p, held),
         approval' \in [Rows -> Stored], \A s \in Rows \ {r} : approval'[s] = approval[s],
         UNCHANGED <<now, provider>>,
         consent' \in [Rows -> Payload \cup {Null}],
         \A s \in Rows \ {r} : consent'[s] = consent[s],
         consent[r] # Null => consent'[r] # Null,
         JobInv(p)', RowInv(r)', Advances(r),
         \A k \in Keys : Holds(r, k)' => Holds(r, k) \/ \A s \in Rows : ~Holds(s, k),
         approval'[r].status = "executed" => sent[r] # {},
         approval'[r] # approval[r] =>
           approval[r].status # "executing" \/ (Executing(p) /\ job[p].row = r),
         Executing(p)' => held.row = r /\ approval'[r].status = "executing"
                          /\ approval[r].status # "executing"
  PROVE  IInv'
<1>1. /\ job' \in [Procs -> Job]
      /\ job'[p] = held
      /\ \A q \in Procs \ {p} : job'[q] = job[q]
  BY GotoTyped DEF IInv, TypeOK
<1>3. TypeOK'
  BY <1>1 DEF IInv, TypeOK, provider
<1>4. \A s \in Rows : Advances(s)
  BY DEF Advances, Exists, Decided
<1>5. \A q \in Procs : JobInv(q)'
  BY <1>1, <1>4, OthersKeep DEF provider
<1>6. (\A s \in Rows : RowInv(s))'
  BY DEF IInv, RowInv, Exists, Terminal
<1>7. UniqueKey'
  BY DEF IInv, UniqueKey, Holds, Exists
<1>8. SentAsApproved'
  BY <1>4 DEF IInv, SentAsApproved, Decided, Advances, provider
<1>9. ExecutedWasSent'
  BY DEF IInv, ExecutedWasSent, provider
<1>10. SingleExecutor'
  BY <1>1, <1>5 DEF IInv, SingleExecutor, Executing, JobInv, Handling
<1> QED BY <1>3, <1>5, <1>6, <1>7, <1>8, <1>9, <1>10 DEF IInv

\* The shapes an invocation's record starts from.
LEMMA IdleTyped == Idle \in Job
  BY NullAssumption DEF Idle, Job, Steps

LEMMA BlankTyped == Blank \in Stored
  BY NullAssumption DEF Blank, Stored

LEMMA DoneTyped == ASSUME NEW p \in Procs, job[p] \in Job PROVE Done(p) \in Job
  BY NullAssumption DEF Done, Idle, Job, Steps

-----------------------------------------------------------------------------
(* Steps that only move an invocation *)

LEMMA ToIdle ==
  ASSUME IInv, NEW p \in Procs, NEW held \in Job, held.pc \in {"idle", "next"}, Goto(p, held),
         \A r \in held.queue : Exists(r),
         UNCHANGED <<now, approval, consent, provider>>
  PROVE  IInv'
<1>1. job'[p] = held
  BY GotoTyped DEF IInv, TypeOK
<1>2. JobInv(p)' /\ ~Executing(p)'
  BY <1>1 DEF JobInv, Executing, Handling, CreateSteps, Exists
<1> QED BY <1>2, JobOnly

LEMMA CreateReadInv ==
  ASSUME IInv, NEW p \in Users, NEW k \in Keys, NEW x \in Payload, CreateRead(p, k, x)
  PROVE  IInv'
<1> DEFINE start == [Idle EXCEPT !.now = now, !.payload = x, !.key = k]
<1>0. p \in Procs /\ now \in Nat
  BY DEF Procs, IInv, TypeOK
<1>1. start \in Job /\ start.payload = x /\ start.key = k /\ start.queue = {}
  BY <1>0, NullAssumption DEF Idle, Job, Steps
<1>2. PICK held \in Job :
        /\ Goto(p, held) /\ held.payload = x /\ held.key = k /\ held.queue = {}
        /\ \/ held.pc = "insert"
           \/ /\ held.row \in Rows /\ Exists(held.row)
              /\ \/ held.pc = "refresh"
                 \/ held.pc = "release" /\ Terminal(held.row)
  <2>1. CASE Goto(p, [start EXCEPT !.pc = "insert"])
    <3>1. [start EXCEPT !.pc = "insert"] \in Job
      BY <1>1 DEF Job, Steps, CreateSteps
    <3> QED BY <1>1, <2>1, <3>1 DEF Idle
  <2>2. CASE \E r \in Rows : Holds(r, k) /\ Goto(p, [start EXCEPT !.pc = "refresh", !.row = r])
    <3>1. PICK r \in Rows : Holds(r, k) /\ Goto(p, [start EXCEPT !.pc = "refresh", !.row = r])
      BY <2>2
    <3>2. [start EXCEPT !.pc = "refresh", !.row = r] \in Job
      BY <1>1 DEF Job, Steps, CreateSteps
    <3> QED BY <1>1, <3>1, <3>2 DEF Idle, Holds
  <2>3. CASE \E r \in Rows : /\ Holds(r, k) /\ IsTerminal(approval[r].status)
                             /\ Goto(p, [start EXCEPT !.pc = "release", !.row = r])
    <3>1. PICK r \in Rows : /\ Holds(r, k) /\ IsTerminal(approval[r].status)
                            /\ Goto(p, [start EXCEPT !.pc = "release", !.row = r])
      BY <2>3
    <3>2. [start EXCEPT !.pc = "release", !.row = r] \in Job
      BY <1>1 DEF Job, Steps, CreateSteps
    <3> QED BY <1>1, <3>1, <3>2 DEF Idle, Holds, Terminal
  <2> QED BY <2>1, <2>2, <2>3 DEF CreateRead
<1>3. job'[p] = held /\ UNCHANGED <<now, approval, consent, provider>>
  BY <1>0, <1>2, GotoTyped DEF IInv, TypeOK, CreateRead
<1>4. JobInv(p)' /\ ~Executing(p)'
  BY <1>2, <1>3 DEF JobInv, Executing, Handling, CreateSteps, Exists, Terminal
<1> QED BY <1>0, <1>2, <1>3, <1>4, JobOnly

LEMMA OpenCardInv ==
  ASSUME IInv, NEW p \in Users, NEW r \in Rows, OpenCard(p, r) PROVE IInv'
<1> DEFINE held == [Idle EXCEPT !.pc = "card", !.row = r, !.shown = approval[r].payload]
<1>1. p \in Procs /\ approval[r].payload \in Payload /\ Goto(p, held)
  BY DEF OpenCard, IInv, RowInv, Procs
<1>2. held \in Job
  BY <1>1, NullAssumption DEF Idle, Job, Steps, DecideSteps
<1>3. job'[p] = held
  BY <1>1, <1>2, GotoTyped DEF IInv, TypeOK
<1>4. JobInv(p)' /\ ~Executing(p)'
  BY <1>1, <1>3 DEF JobInv, Executing, Handling, CreateSteps, Idle, OpenCard, Exists
<1> QED BY <1>1, <1>2, <1>4, JobOnly DEF OpenCard

\* An invocation that shows a card has a row to act on.
LEMMA CardRow ==
  ASSUME IInv, NEW p \in Procs, At(p, "card")
  PROVE  /\ job[p].row \in Rows /\ Exists(job[p].row) /\ job[p].shown \in Payload
         /\ job[p] \in Job /\ approval[job[p].row] \in Stored /\ now \in Nat
         /\ approval[job[p].row].status \in ApprovalStatus
         /\ \A s \in job[p].queue : Exists(s)
<1>1. job[p].row \in Rows /\ Exists(job[p].row) /\ job[p].shown \in Payload
  BY DEF IInv, JobInv, Handling, At
<1>2. \A s \in job[p].queue : Exists(s)
  BY DEF IInv, JobInv
<1> QED BY <1>1, <1>2 DEF IInv, TypeOK, Stored, Exists

LEMMA DecideReadInv ==
  ASSUME IInv, NEW p \in Users, NEW edit \in Payload \cup {Null},
         DecideReadExpired(p) \/ DecideReadReject(p) \/ DecideReadApprove(p, edit) \/ RetryRead(p)
  PROVE  IInv'
<1> DEFINE r == job[p].row
<1>1. p \in Procs /\ At(p, "card") /\ UNCHANGED <<now, approval, consent, provider>>
  BY DEF Procs, DecideReadExpired, DecideReadReject, DecideReadApprove, RetryRead
<1>2. /\ r \in Rows /\ Exists(r) /\ job[p].shown \in Payload
      /\ job[p] \in Job /\ now \in Nat /\ approval[r].status \in ApprovalStatus
      /\ \A s \in job[p].queue : Exists(s)
  BY <1>1, CardRow
<1>3. \E held \in Job :
        /\ Goto(p, held) /\ held.row = r /\ \A s \in held.queue : Exists(s)
        /\ \/ held.pc \in {"expire", "reject", "reopen", "load"}
           \/ held.pc = "claim" /\ held.shown \in Payload
  <2>1. CASE DecideReadExpired(p)
    <3>1. [Idle EXCEPT !.pc = "expire", !.row = r] \in Job
      BY <1>2, NullAssumption DEF Idle, Job, Steps, DecideSteps
    <3> QED BY <2>1, <3>1 DEF DecideReadExpired, Idle
  <2>2. CASE DecideReadReject(p)
    <3>1. [Idle EXCEPT !.pc = "reject", !.row = r, !.seen = approval[r].status] \in Job
      BY <1>2, NullAssumption DEF Idle, Job, Steps, DecideSteps
    <3> QED BY <2>2, <3>1 DEF DecideReadReject, Idle
  <2>3. CASE DecideReadApprove(p, edit)
    <3> DEFINE held == [job[p] EXCEPT !.pc = "claim", !.now = now, !.payload = edit,
                                      !.shown = IF edit = Null THEN @ ELSE edit]
    <3>1. /\ held \in Job /\ held.row = r /\ held.pc = "claim" /\ held.shown \in Payload
          /\ held.queue = job[p].queue
      BY <1>2 DEF Job, Steps, DecideSteps
    <3> QED BY <1>2, <2>3, <3>1 DEF DecideReadApprove
  <2>4. CASE RetryRead(p)
    <3> DEFINE start == [Idle EXCEPT !.row = r, !.now = now]
    <3>1. [start EXCEPT !.pc = "reopen"] \in Job /\ [start EXCEPT !.pc = "load"] \in Job
      BY <1>2, NullAssumption DEF Idle, Job, Steps, ExecutorSteps
    <3> QED BY <2>4, <3>1 DEF RetryRead, Idle
  <2> QED BY <2>1, <2>2, <2>3, <2>4
<1>4. PICK held \in Job :
        /\ Goto(p, held) /\ held.row = r /\ \A s \in held.queue : Exists(s)
        /\ \/ held.pc \in {"expire", "reject", "reopen", "load"}
           \/ held.pc = "claim" /\ held.shown \in Payload
  BY <1>3
<1>5. job'[p] = held
  BY <1>1, <1>4, GotoTyped DEF IInv, TypeOK
<1>6. JobInv(p)' /\ ~Executing(p)'
  BY <1>1, <1>2, <1>4, <1>5 DEF JobInv, Executing, Handling, CreateSteps, Exists
<1> QED BY <1>1, <1>4, <1>6, JobOnly

LEMMA ExecLoadInv ==
  ASSUME IInv, NEW p \in Procs, ExecLoad(p) PROVE IInv'
<1> DEFINE r == job[p].row
           held == [job[p] EXCEPT !.pc = "lock", !.seen = approval[r].status,
                                  !.payload = approval[r].payload, !.attempts = approval[r].attempts]
<1>1. /\ r \in Rows /\ Exists(r) /\ job[p] \in Job /\ approval[r] \in Stored
      /\ approval[r].status \in ApprovalStatus
      /\ \A s \in job[p].queue : Exists(s)
      /\ UNCHANGED <<now, approval, consent, provider>>
  BY DEF IInv, TypeOK, JobInv, Handling, At, ExecLoad, Exists, Stored
<1>2. CASE CanTransition(approval[r].status, "executing") /\ Goto(p, held)
  <2>1. held \in Job
    BY <1>1 DEF Job, Steps, ExecutorSteps, Stored
  <2>2. approval[r].status = "approved"
    BY <1>1, <1>2 DEF CanTransition, Transitions, ApprovalStatus
  <2>3. job'[p] = held
    BY <1>2, <2>1, GotoTyped DEF IInv, TypeOK
  <2>4. /\ held.pc = "lock" /\ held.row = r /\ held.seen = "approved"
        /\ held.payload = approval[r].payload /\ held.queue = job[p].queue
    BY <1>1, <2>2 DEF Job
  <2>5. JobInv(p)' /\ ~Executing(p)'
    BY <1>1, <2>2, <2>3, <2>4 DEF JobInv, Executing, Handling, CreateSteps, Exists, Decided
  <2> QED BY <1>1, <1>2, <2>1, <2>5, JobOnly
<1>3. CASE Goto(p, Done(p))
  <2>1. /\ Done(p) \in Job /\ Done(p).pc \in {"idle", "next"}
        /\ \A s \in Done(p).queue : Exists(s)
    BY <1>1, DoneTyped DEF Done, Idle
  <2> QED BY <1>1, <1>3, <2>1, ToIdle
<1> QED BY <1>2, <1>3 DEF ExecLoad

LEMMA ErroredInv ==
  ASSUME IInv, NEW p \in Procs, NEW canRetry \in BOOLEAN, At(p, "dispatch"),
         Errored(p, canRetry), UNCHANGED <<now, approval, consent, provider>>
  PROVE  IInv'
<1> DEFINE held == [job[p] EXCEPT !.pc = "errored", !.retryable = canRetry]
<1>1. job[p] \in Job /\ JobInv(p)
  BY DEF IInv, TypeOK
<1>2. held \in Job /\ held.pc = "errored" /\ held.row = job[p].row /\ held.payload = job[p].payload
      /\ held.queue = job[p].queue
  BY <1>1 DEF Job, Steps, ExecutorSteps
<1>3. job'[p] = held
  BY <1>2, GotoTyped DEF IInv, TypeOK, Errored
<1>4. JobInv(p)' /\ Executing(p)
  BY <1>1, <1>2, <1>3 DEF JobInv, Executing, Handling, CreateSteps, Exists, Decided, At
<1> QED BY <1>2, <1>4, JobOnly DEF Errored

LEMMA SweepMoveInv ==
  ASSUME IInv, NEW c \in Crons, CronList(c) \/ CronNext(c) \/ CronSkip(c) PROVE IInv'
<1>1. /\ c \in Procs /\ job[c] \in Job /\ \A s \in job[c].queue : Exists(s)
      /\ UNCHANGED <<now, approval, consent, provider>>
  BY DEF Procs, IInv, TypeOK, CronList, CronNext, CronSkip, JobInv
<1>2. CASE CronList(c)
  <2>1. PICK batch \in SUBSET DueRetries(job[c].now) :
          Goto(c, [job[c] EXCEPT !.pc = "next", !.queue = batch])
    BY <1>2 DEF CronList
  <2> DEFINE held == [job[c] EXCEPT !.pc = "next", !.queue = batch]
  <2>2. held \in Job /\ held.pc = "next" /\ held.queue = batch
    BY <1>1, <2>1 DEF Job, Steps, DueRetries
  <2>3. \A s \in batch : Exists(s)
    BY <2>1 DEF DueRetries, Exists
  <2> QED BY <1>1, <2>1, <2>2, <2>3, ToIdle
<1>3. CASE CronNext(c)
  <2>1. CASE Goto(c, Idle)
    <3>1. Idle.pc = "idle" /\ Idle.queue = {}
      BY DEF Idle
    <3> QED BY <1>1, <2>1, <3>1, IdleTyped, ToIdle
  <2>2. CASE \E r \in job[c].queue :
               Goto(c, [job[c] EXCEPT !.pc = "load", !.row = r, !.queue = @ \ {r}])
    <3>1. PICK r \in job[c].queue :
            Goto(c, [job[c] EXCEPT !.pc = "load", !.row = r, !.queue = @ \ {r}])
      BY <2>2
    <3> DEFINE held == [job[c] EXCEPT !.pc = "load", !.row = r, !.queue = @ \ {r}]
    <3>2. r \in Rows /\ Exists(r)
      BY <1>1, <3>1 DEF Job
    <3>3. /\ held \in Job /\ held.pc = "load" /\ held.row = r
          /\ held.queue \subseteq job[c].queue
      BY <1>1, <3>2 DEF Job, Steps, ExecutorSteps
    <3>4. job'[c] = held
      BY <1>1, <3>1, <3>3, GotoTyped DEF IInv, TypeOK
    <3>5. JobInv(c)' /\ ~Executing(c)'
      BY <1>1, <3>2, <3>3, <3>4 DEF JobInv, Executing, Handling, CreateSteps, Exists
    <3> QED BY <1>1, <3>1, <3>3, <3>5, JobOnly
  <2> QED BY <1>3, <2>1, <2>2 DEF CronNext
<1>4. CASE CronSkip(c)
  <2>1. /\ Done(c) \in Job /\ Done(c).pc \in {"idle", "next"}
        /\ \A s \in Done(c).queue : Exists(s)
    BY <1>1, DoneTyped DEF Done, Idle
  <2> QED BY <1>1, <1>4, <2>1, ToIdle DEF CronSkip
<1> QED BY <1>2, <1>3, <1>4

LEMMA AbortInv ==
  ASSUME IInv, NEW p \in Procs, Abort(p) PROVE IInv'
<1>1. Idle.pc = "idle" /\ Idle.queue = {}
  BY DEF Idle
<1> QED BY <1>1, IdleTyped, ToIdle DEF Abort

-----------------------------------------------------------------------------
(* Steps that update one row *)

\* What an invocation between two calls knows of its row.
LEMMA HandledRow ==
  ASSUME IInv, NEW p \in Procs, Handling(p)
  PROVE  /\ job[p].row \in Rows /\ Exists(job[p].row) /\ job[p] \in Job
         /\ approval[job[p].row] \in Stored /\ approval[job[p].row].status \in ApprovalStatus
         /\ RowInv(job[p].row)
         /\ \A s \in job[p].queue : Exists(s)
<1>1. job[p].row \in Rows /\ Exists(job[p].row) /\ \A s \in job[p].queue : Exists(s)
  BY DEF IInv, JobInv
<1> QED BY <1>1 DEF IInv, TypeOK, Stored, Exists

\* An update that keeps a row's place in the machine, its key and, once decided,
\* its payload is one that Advances.
LEMMA ProposalFields ==
  ASSUME NEW p \in Procs, NEW old \in Stored, job[p] \in Job
  PROVE  /\ Proposal(p, old) \in Stored
         /\ Proposal(p, old).status = old.status /\ Proposal(p, old).key = old.key
         /\ Proposal(p, old).released = old.released
         /\ Proposal(p, old).payload = job[p].payload
<1> DEFINE x == ApprovalExpiryFrom(job[p].now)
           y == job[p].payload
<1>1. x \in Nat /\ y \in Payload \cup {Null}
  BY TTLAssumption DEF ApprovalExpiryFrom, Job
<1> HIDE DEF x, y
<1>2. LET new == [old EXCEPT !.payload = y, !.original = y, !.expires = x]
      IN /\ new \in Stored
         /\ new.status = old.status /\ new.key = old.key /\ new.released = old.released
         /\ new.payload = y
  BY <1>1 DEF Stored
<1> QED BY <1>2 DEF x, y, Proposal

\* An update the trigger lets through, of a row that is there, that keeps the key,
\* the payload once decided, and gives consent to what is decided.
LEMMA Update ==
  ASSUME IInv, NEW p \in Procs, NEW held \in Job, NEW r \in Rows, Exists(r),
         NEW new \in Stored, NEW matches \in BOOLEAN,
         Goto(p, held), UpdateWhere(r, matches, new), UNCHANGED <<now, provider>>,
         consent' \in [Rows -> Payload \cup {Null}],
         \A s \in Rows \ {r} : consent'[s] = consent[s],
         consent[r] # Null => consent'[r] # Null,
         matches =>
           /\ new.status \in ApprovalStatus /\ new.key = approval[r].key
           /\ new.payload \in Payload
           /\ Decided(r) => new.payload = approval[r].payload
           /\ approval[r].released => new.released
           /\ new.released => approval[r].released \/ IsTerminal(new.status)
           /\ new.status \in {"approved", "executing", "executed", "failed"} => consent'[r] # Null
           /\ new.status = "executed" => sent[r] # {}
           /\ approval[r].status = "executing" => Executing(p) /\ job[p].row = r,
         JobInv(p)',
         Executing(p)' => held.row = r /\ approval'[r].status = "executing"
                          /\ approval[r].status # "executing"
  PROVE  IInv'
<1>1. /\ approval' \in [Rows -> Stored]
      /\ \A s \in Rows \ {r} : approval'[s] = approval[s]
      /\ \/ approval'[r] = approval[r]
         \/ matches /\ TriggerAllows(approval[r].status, new.status) /\ approval'[r] = new
  BY UpdateTyped DEF IInv, TypeOK
<1>2. RowInv(r) /\ approval[r].status \in ApprovalStatus
  BY DEF IInv, TypeOK, Stored, Exists
<1> DEFINE old == approval[r].status
<1>3. CASE approval'[r] = approval[r]
  <2>1. Advances(r) /\ RowInv(r)' /\ \A k \in Keys : Holds(r, k)' => Holds(r, k)
    BY <1>2, <1>3 DEF Advances, RowInv, Exists, Terminal, Decided, Holds
  <2>2. approval'[r].status = "executed" => sent[r] # {}
    BY <1>3 DEF IInv, ExecutedWasSent
  <2> QED BY <1>1, <1>3, <2>1, <2>2, RowAndJob
<1>4. CASE matches /\ TriggerAllows(old, new.status) /\ approval'[r] = new
  <2>1. IsTerminal(old) => new.status = old
    BY <1>4 DEF TriggerAllows, CanTransition, IsTerminal
  <2>2. old # "pending" => new.status # "pending"
    BY <1>2, <1>4 DEF TriggerAllows, CanTransition, Transitions, ApprovalStatus
  <2>3. Exists(r)' /\ (Decided(r) => Decided(r)')
    BY <1>2, <1>4, <2>2 DEF Exists, Decided, ApprovalStatus
  <2>4. Advances(r)
    BY <1>4, <2>1, <2>3 DEF Advances, Terminal
  <2>5. new.released => IsTerminal(new.status)
    BY <1>2, <1>4, <2>1 DEF RowInv, Terminal
  <2>6. RowInv(r)'
    BY <1>2, <1>4, <2>3, <2>5 DEF RowInv, Terminal
  <2>7. \A k \in Keys : Holds(r, k)' => Holds(r, k)
    BY <1>4 DEF Holds
  <2> QED BY <1>1, <1>4, <2>4, <2>6, <2>7, RowAndJob
<1> QED BY <1>1, <1>3, <1>4

LEMMA CreateRefreshInv ==
  ASSUME IInv, NEW p \in Users, CreateRefresh(p) PROVE IInv'
<1> DEFINE r == job[p].row
           pending == approval[r].status = "pending"
           new == Proposal(p, approval[r])
<1>1. /\ p \in Procs /\ Handling(p) /\ job[p].pc = "refresh" /\ Goto(p, Idle)
      /\ UpdateWhere(r, pending, new) /\ UNCHANGED <<now, consent, provider>>
  BY DEF Procs, CreateRefresh, At, Handling
<1>2. /\ r \in Rows /\ Exists(r) /\ job[p] \in Job /\ approval[r] \in Stored
      /\ approval[r].status \in ApprovalStatus /\ RowInv(r)
  BY <1>1, HandledRow
<1>3. job[p].payload \in Payload
  BY <1>1 DEF IInv, JobInv, CreateSteps
<1>4. /\ new \in Stored /\ new.status = approval[r].status /\ new.key = approval[r].key
      /\ new.released = approval[r].released /\ new.payload = job[p].payload
  BY <1>1, <1>2, ProposalFields
<1>5. job'[p] = Idle
  BY <1>1, GotoTyped, IdleTyped DEF IInv, TypeOK
<1>6. JobInv(p)' /\ ~Executing(p)'
  BY <1>5 DEF JobInv, Handling, Executing, Idle, CreateSteps
<1>7. consent' \in [Rows -> Payload \cup {Null}] /\ consent' = consent
  BY <1>1 DEF IInv, TypeOK
<1>8. pending => ~Decided(r)
  BY DEF Decided
<1> HIDE DEF new, r
<1> QED BY <1>1, <1>2, <1>3, <1>4, <1>6, <1>7, <1>8, IdleTyped, Update

LEMMA CreateReleaseInv ==
  ASSUME IInv, NEW p \in Users, CreateRelease(p) PROVE IInv'
<1> DEFINE r == job[p].row
           held == [job[p] EXCEPT !.pc = "insert", !.row = Null]
           new == [approval[r] EXCEPT !.released = TRUE]
           ours == Holds(r, job[p].key)
<1>1. /\ p \in Procs /\ Handling(p) /\ job[p].pc = "release" /\ Goto(p, held)
      /\ UpdateWhere(r, ours, new) /\ UNCHANGED <<now, consent, provider>>
  BY DEF Procs, CreateRelease, At, Handling
<1>2. /\ r \in Rows /\ Exists(r) /\ job[p] \in Job /\ approval[r] \in Stored
      /\ approval[r].status \in ApprovalStatus /\ RowInv(r)
      /\ \A s \in job[p].queue : Exists(s)
  BY <1>1, HandledRow
<1>3. job[p].payload \in Payload /\ job[p].key \in Keys /\ Terminal(r)
  BY <1>1 DEF IInv, JobInv, CreateSteps
<1>4. /\ held \in Job /\ held.pc = "insert" /\ held.payload = job[p].payload
      /\ held.key = job[p].key /\ held.queue = job[p].queue
  BY <1>2 DEF Job, Steps, CreateSteps
<1>5. /\ new \in Stored /\ new.status = approval[r].status /\ new.key = approval[r].key
      /\ new.payload = approval[r].payload /\ new.released
  BY <1>2 DEF Stored
<1>6. ours \in BOOLEAN
  BY <1>2 DEF Holds, Exists, Stored
<1>7. job'[p] = held
  BY <1>1, <1>4, GotoTyped DEF IInv, TypeOK
<1> HIDE DEF ours, new
<1>8. \A s \in Rows : Exists(s) => Exists(s)'
  <2>1. /\ \A s \in Rows \ {r} : approval'[s] = approval[s]
        /\ approval'[r] = approval[r] \/ approval'[r] = new
    BY <1>1, <1>2, <1>5, <1>6, UpdateTyped DEF IInv, TypeOK
  <2> QED BY <1>2, <1>5, <2>1 DEF Exists
<1>a. job[p].queue \subseteq Rows
  BY <1>2 DEF Job
<1>9. JobInv(p)' /\ ~Executing(p)'
  <2> HIDE DEF held
  <2> QED BY <1>2, <1>3, <1>4, <1>7, <1>8, <1>a DEF JobInv, Handling, Executing, CreateSteps
<1>10. approval[r].status # "executing" /\ IsTerminal(new.status)
  BY <1>3, <1>5 DEF Terminal, IsTerminal, Transitions
<1>11. /\ consent' \in [Rows -> Payload \cup {Null}] /\ consent' = consent
       /\ new.payload \in Payload
       /\ approval[r].status \in {"approved", "executing", "executed", "failed"} => consent[r] # Null
       /\ approval[r].status = "executed" => sent[r] # {}
  BY <1>1, <1>2, <1>5 DEF IInv, TypeOK, RowInv, ExecutedWasSent
<1>c. approval[r].status \in {"approved", "executing", "executed", "failed"} => consent'[r] # Null
  BY <1>11
<1> HIDE DEF r, held
<1> QED BY <1>1, <1>2, <1>4, <1>5, <1>6, <1>9, <1>10, <1>11, <1>c, Update

LEMMA CreateInsertInv ==
  ASSUME IInv, NEW p \in Users, CreateInsert(p) PROVE IInv'
<1>1. /\ p \in Procs /\ job[p].pc = "insert" /\ Goto(p, Idle) /\ job[p] \in Job
      /\ UNCHANGED <<now, consent, provider>>
  BY DEF Procs, CreateInsert, At, IInv, TypeOK
<1>2. job[p].payload \in Payload /\ job[p].key \in Keys
  BY <1>1 DEF IInv, JobInv, CreateSteps
<1>3. Idle.pc = "idle" /\ Idle.queue = {}
  BY DEF Idle
<1>4. CASE UNCHANGED approval
  BY <1>1, <1>3, <1>4, IdleTyped, ToIdle
<1>5. CASE /\ \A r \in Rows : ~Holds(r, job[p].key)
           /\ \E r \in Rows :
                /\ ~Exists(r)
                /\ approval' = [approval EXCEPT ![r] =
                     Proposal(p, [Blank EXCEPT !.status = "pending", !.key = job[p].key])]
  <2> DEFINE fresh == [Blank EXCEPT !.status = "pending", !.key = job[p].key]
             new == Proposal(p, fresh)
  <2>1. PICK r \in Rows : ~Exists(r) /\ approval' = [approval EXCEPT ![r] = new]
    BY <1>5
  <2>2. fresh \in Stored /\ fresh.status = "pending" /\ fresh.key = job[p].key /\ ~fresh.released
    BY <1>2, NullAssumption DEF Blank, Stored, ApprovalStatus
  <2>3. /\ new \in Stored /\ new.status = "pending" /\ new.key = job[p].key /\ ~new.released
        /\ new.payload \in Payload
    BY <1>1, <1>2, <2>2, ProposalFields
  <2> HIDE DEF new, fresh
  <2>4. /\ approval' \in [Rows -> Stored] /\ approval'[r] = new
        /\ \A s \in Rows \ {r} : approval'[s] = approval[s]
    BY <2>1, <2>3 DEF IInv, TypeOK
  <2>5. job'[p] = Idle
    BY <1>1, GotoTyped, IdleTyped DEF IInv, TypeOK
  <2>6. JobInv(p)' /\ ~Executing(p)'
    BY <1>3, <2>5 DEF JobInv, Handling, Executing, CreateSteps
  <2>7. RowInv(r)' /\ Advances(r)
    BY <1>2, <2>1, <2>3, <2>4 DEF RowInv, Advances, Exists, Decided
  <2>8. \A k \in Keys : Holds(r, k)' => \A s \in Rows : ~Holds(s, k)
    BY <1>5, <2>3, <2>4 DEF Holds
  <2>9. /\ consent' \in [Rows -> Payload \cup {Null}] /\ consent' = consent
        /\ approval'[r].status # "executed" /\ approval[r].status # "executing"
    BY <1>1, <2>1, <2>3, <2>4 DEF IInv, TypeOK, Exists
  <2> QED BY <1>1, <2>4, <2>6, <2>7, <2>8, <2>9, IdleTyped, RowAndJob
<1> QED BY <1>4, <1>5 DEF CreateInsert

LEMMA DecideCloseInv ==
  ASSUME IInv, NEW p \in Users, DecideExpire(p) \/ DecideReject(p) PROVE IInv'
<1> DEFINE r == job[p].row
           new(verdict) == [approval[r] EXCEPT !.status = verdict]
<1>1. /\ p \in Procs /\ Handling(p) /\ Goto(p, Idle) /\ UNCHANGED <<now, consent, provider>>
  BY DEF Procs, DecideExpire, DecideReject, At, Handling
<1>2. /\ r \in Rows /\ Exists(r) /\ approval[r] \in Stored
      /\ approval[r].status \in ApprovalStatus /\ RowInv(r)
  BY <1>1, HandledRow
<1>3. PICK verdict \in {"rejected", "expired"}, matches \in BOOLEAN :
        UpdateWhere(r, matches, new(verdict))
  BY DEF DecideExpire, DecideReject
<1>4. /\ new(verdict) \in Stored /\ new(verdict).status = verdict
      /\ new(verdict).key = approval[r].key /\ new(verdict).payload = approval[r].payload
      /\ new(verdict).released = approval[r].released
  BY <1>2 DEF Stored, ApprovalStatus
<1>5. job'[p] = Idle
  BY <1>1, GotoTyped, IdleTyped DEF IInv, TypeOK
<1>6. JobInv(p)' /\ ~Executing(p)'
  BY <1>5 DEF JobInv, Handling, Executing, Idle, CreateSteps
<1>7. /\ consent' \in [Rows -> Payload \cup {Null}] /\ consent' = consent
      /\ approval[r].payload \in Payload /\ verdict \in ApprovalStatus
  BY <1>1, <1>2 DEF IInv, TypeOK, RowInv, ApprovalStatus
\* The trigger keeps an executing row from being closed.
<1>8. \E m \in BOOLEAN : UpdateWhere(r, m, new(verdict)) /\ (m => approval[r].status # "executing")
  <2>1. CASE approval[r].status = "executing"
    <3>1. ~TriggerAllows(approval[r].status, new(verdict).status)
      BY <1>4, <2>1 DEF TriggerAllows, CanTransition, Transitions
    <3> QED BY <1>3, <3>1 DEF UpdateWhere
  <2> QED BY <1>3, <2>1
<1>9. PICK m \in BOOLEAN : UpdateWhere(r, m, new(verdict)) /\ (m => approval[r].status # "executing")
  BY <1>8
<1> HIDE DEF new, r
<1> QED BY <1>1, <1>2, <1>4, <1>6, <1>7, <1>9, IdleTyped, Update

LEMMA DecideClaimInv ==
  ASSUME IInv, NEW p \in Users, DecideClaim(p) PROVE IInv'
<1> DEFINE r == job[p].row
           edit == job[p].payload
           held == [Idle EXCEPT !.pc = "load", !.row = r, !.now = job[p].now]
           new == [approval[r] EXCEPT !.status = "approved",
                                      !.payload = IF edit = Null THEN @ ELSE edit]
<1>1. /\ p \in Procs /\ Handling(p) /\ job[p].pc = "claim" /\ UNCHANGED <<now, provider>>
  BY DEF Procs, DecideClaim, At, Handling
<1>2. /\ r \in Rows /\ Exists(r) /\ job[p] \in Job /\ approval[r] \in Stored
      /\ approval[r].status \in ApprovalStatus /\ RowInv(r)
  BY <1>1, HandledRow
<1>3. CASE Goto(p, Idle) /\ UNCHANGED <<approval, consent>>
  <2>1. Idle.pc = "idle" /\ Idle.queue = {}
    BY DEF Idle
  <2> QED BY <1>1, <1>3, <2>1, IdleTyped, ToIdle
<1>4. CASE /\ approval[r].status = "pending" /\ UpdateWhere(r, TRUE, new)
           /\ consent' = [consent EXCEPT ![r] = job[p].shown] /\ Goto(p, held)
  <2>1. held \in Job /\ held.pc = "load" /\ held.row = r /\ held.queue = {}
    BY <1>2, NullAssumption DEF Idle, Job, Steps, ExecutorSteps
  <2>2. /\ new \in Stored /\ new.status = "approved" /\ new.key = approval[r].key
        /\ new.payload \in Payload /\ new.released = approval[r].released
    BY <1>2 DEF Stored, ApprovalStatus, Job, RowInv
  <2>3. job[p].shown \in Payload
    BY <1>1 DEF IInv, JobInv
  <2>4. /\ consent' \in [Rows -> Payload \cup {Null}] /\ consent'[r] # Null
        /\ \A s \in Rows \ {r} : consent'[s] = consent[s]
    BY <1>2, <1>4, <2>3, NullAssumption DEF IInv, TypeOK
  <2>5. /\ job'[p] = held
        /\ \/ approval'[r] = approval[r]
           \/ approval'[r] = new
    BY <1>1, <1>2, <1>4, <2>1, <2>2, GotoTyped, UpdateTyped DEF IInv, TypeOK
  <2>6. approval'[r].status # "absent"
    BY <1>2, <2>2, <2>5 DEF Exists
  <2>7. JobInv(p)' /\ ~Executing(p)'
    BY <1>2, <2>1, <2>5, <2>6 DEF JobInv, Handling, Executing, CreateSteps, Exists
  <2>8. ~Decided(r) /\ new.status \in ApprovalStatus
    BY <1>4, <2>2 DEF Decided, ApprovalStatus
  <2> HIDE DEF new, held, r
  <2> QED BY <1>1, <1>2, <1>4, <2>1, <2>2, <2>4, <2>7, <2>8, Update
<1> QED BY <1>3, <1>4 DEF DecideClaim

LEMMA RetryReopenInv ==
  ASSUME IInv, NEW p \in Users, RetryReopen(p) PROVE IInv'
<1> DEFINE r == job[p].row
           failed == approval[r].status = "failed"
           held == [job[p] EXCEPT !.pc = "load"]
           new == [approval[r] EXCEPT !.status = "approved", !.due = Null]
<1>1. /\ p \in Procs /\ Handling(p) /\ Goto(p, held) /\ UpdateWhere(r, failed, new)
      /\ UNCHANGED <<now, consent, provider>>
  BY DEF Procs, RetryReopen, At, Handling
<1>2. /\ r \in Rows /\ Exists(r) /\ job[p] \in Job /\ approval[r] \in Stored
      /\ approval[r].status \in ApprovalStatus /\ RowInv(r)
      /\ \A s \in job[p].queue : Exists(s)
  BY <1>1, HandledRow
<1>3. held \in Job /\ held.pc = "load" /\ held.row = r /\ held.queue = job[p].queue
  BY <1>2 DEF Job, Steps, ExecutorSteps
<1>4. /\ new \in Stored /\ new.status = "approved" /\ new.key = approval[r].key
      /\ new.payload = approval[r].payload /\ new.released = approval[r].released
  BY <1>2 DEF Stored, ApprovalStatus
<1>5. job'[p] = held
  BY <1>1, <1>3, GotoTyped DEF IInv, TypeOK
<1> HIDE DEF new
<1>6. \A s \in Rows : Exists(s) => Exists(s)'
  <2>1. /\ \A s \in Rows \ {r} : approval'[s] = approval[s]
        /\ approval'[r] = approval[r] \/ approval'[r] = new
    BY <1>1, <1>2, <1>4, UpdateTyped DEF IInv, TypeOK
  <2> QED BY <1>2, <1>4, <2>1 DEF Exists
<1>7. JobInv(p)' /\ ~Executing(p)'
  BY <1>2, <1>3, <1>5, <1>6 DEF JobInv, Handling, Executing, CreateSteps, Job
<1>8. /\ consent' \in [Rows -> Payload \cup {Null}] /\ consent' = consent
      /\ approval[r].payload \in Payload /\ new.status \in ApprovalStatus
      /\ failed => consent[r] # Null
  BY <1>1, <1>2, <1>4 DEF IInv, TypeOK, RowInv, ApprovalStatus
<1> HIDE DEF r, held
<1> QED BY <1>1, <1>2, <1>3, <1>4, <1>7, <1>8, Update

LEMMA ExecLockInv ==
  ASSUME IInv, NEW p \in Procs, ExecLock(p) PROVE IInv'
<1> DEFINE r == job[p].row
           held == [job[p] EXCEPT !.pc = "dispatch", !.tries = 1]
           new == [approval[r] EXCEPT !.status = "executing"]
<1>1. Handling(p) /\ job[p].pc = "lock" /\ UNCHANGED <<now, consent, provider>>
  BY DEF ExecLock, At, Handling
<1>2. /\ r \in Rows /\ Exists(r) /\ job[p] \in Job /\ approval[r] \in Stored
      /\ approval[r].status \in ApprovalStatus /\ RowInv(r)
      /\ \A s \in job[p].queue : Exists(s)
  BY <1>1, HandledRow
<1>3. job[p].seen = "approved" /\ Decided(r) /\ job[p].payload = approval[r].payload
  BY <1>1 DEF IInv, JobInv
<1>4. CASE Goto(p, Done(p)) /\ UNCHANGED approval
  <2>1. /\ Done(p) \in Job /\ Done(p).pc \in {"idle", "next"}
        /\ \A s \in Done(p).queue : Exists(s)
    BY <1>2, DoneTyped DEF Done, Idle
  <2> QED BY <1>1, <1>4, <2>1, ToIdle
<1>5. CASE approval[r].status = job[p].seen /\ UpdateWhere(r, TRUE, new) /\ Goto(p, held)
  <2>1. /\ held \in Job /\ held.pc = "dispatch" /\ held.row = r /\ held.queue = job[p].queue
        /\ held.payload = job[p].payload
    BY <1>2 DEF Job, Steps, ExecutorSteps
  <2>2. /\ new \in Stored /\ new.status = "executing" /\ new.key = approval[r].key
        /\ new.payload = approval[r].payload /\ new.released = approval[r].released
    BY <1>2 DEF Stored, ApprovalStatus
  <2>3. TriggerAllows(approval[r].status, new.status) /\ approval[r].status = "approved"
    BY <1>3, <1>5, <2>2 DEF TriggerAllows, CanTransition, Transitions
  <2>4. /\ job'[p] = held /\ approval'[r] = new
        /\ \A s \in Rows \ {r} : approval'[s] = approval[s]
    BY <1>2, <1>5, <2>1, <2>3, GotoTyped DEF IInv, TypeOK, UpdateWhere
  <2> HIDE DEF new
  <2>5. \A s \in Rows : Exists(s) => Exists(s)'
    BY <2>2, <2>4 DEF Exists
  <2>6. JobInv(p)'
    BY <1>2, <1>3, <2>1, <2>2, <2>4, <2>5 DEF JobInv, Handling, Executing, CreateSteps, Decided, Job
  <2>7. /\ consent' \in [Rows -> Payload \cup {Null}] /\ consent' = consent
        /\ new.payload \in Payload /\ new.status \in ApprovalStatus /\ consent[r] # Null
    BY <1>1, <1>2, <2>2, <2>3 DEF IInv, TypeOK, RowInv, ApprovalStatus
  <2> HIDE DEF r, held
  <2> QED BY <1>1, <1>2, <1>5, <2>1, <2>2, <2>3, <2>4, <2>6, <2>7, Update
<1> QED BY <1>4, <1>5 DEF ExecLock

\* What the executor writes when it is done keeps the row's key and payload.
LEMMA SettledFields ==
  ASSUME NEW p \in Procs, job[p] \in Job, approval[job[p].row] \in Stored
  PROVE  LET new == SettledRow(p)
             r == job[p].row
         IN /\ new \in Stored /\ new.key = approval[r].key
            /\ new.payload = approval[r].payload /\ new.released = approval[r].released
            /\ new.status \in {"executed", "approved", "failed"}
            /\ new.status = "executed" => job[p].pc = "succeeded"
<1> DEFINE r == job[p].row
           new == SettledRow(p)
           tried == job[p].attempts + 1
<1>1. job[p] \in Job /\ approval[r] \in Stored
  OBVIOUS
<1>2. ShouldRetry(tried) => RetryAt(job[p].now, tried) \in Nat
  BY <1>1, AttemptsAssumption, DelayAssumption DEF ShouldRetry, RetryAt, Job
<1>3. /\ new \in Stored /\ new.key = approval[r].key
      /\ new.payload = approval[r].payload /\ new.released = approval[r].released
      /\ new.status \in {"executed", "approved", "failed"}
      /\ new.status = "executed" => job[p].pc = "succeeded"
  <2>1. tried \in Nat
    BY <1>1 DEF Job
  <2>2. CASE At(p, "succeeded")
    BY <1>1, <2>2 DEF SettledRow, Stored, ApprovalStatus, At
  <2>3. CASE ~At(p, "succeeded") /\ job[p].retryable /\ ShouldRetry(tried)
    <3> DEFINE later == RetryAt(job[p].now, tried)
    <3>1. later \in Nat
      BY <1>2, <2>3
    <3> HIDE DEF later, tried
    <3>2. new = [approval[r] EXCEPT !.status = "approved", !.attempts = tried, !.due = later]
      BY <2>3 DEF SettledRow, later, tried
    <3> QED BY <1>1, <2>1, <3>1, <3>2 DEF Stored, ApprovalStatus
  <2>4. CASE ~At(p, "succeeded") /\ ~(job[p].retryable /\ ShouldRetry(tried))
    <3> HIDE DEF tried
    <3>1. new = [approval[r] EXCEPT !.status = "failed", !.attempts = tried, !.due = Null]
      BY <2>4 DEF SettledRow, tried
    <3> QED BY <1>1, <2>1, <3>1 DEF Stored, ApprovalStatus
  <2> QED BY <2>2, <2>3, <2>4
<1> QED BY <1>3

LEMMA ExecSettleInv ==
  ASSUME IInv, NEW p \in Procs, ExecSettle(p) PROVE IInv'
<1> DEFINE r == job[p].row
           new == SettledRow(p)
<1>1. /\ Handling(p) /\ Executing(p) /\ Goto(p, Done(p)) /\ UNCHANGED <<now, consent, provider>>
      /\ job[p].pc \in {"succeeded", "errored"}
  BY DEF ExecSettle, At, Handling, Executing
<1>2. /\ r \in Rows /\ Exists(r) /\ job[p] \in Job /\ approval[r] \in Stored
      /\ approval[r].status \in ApprovalStatus /\ RowInv(r)
      /\ \A s \in job[p].queue : Exists(s)
  BY <1>1, HandledRow
<1>3. approval[r].status = "executing" /\ (job[p].pc = "succeeded" => sent[r] # {})
  BY <1>1 DEF IInv, JobInv, SingleExecutor
<1>4. PICK written \in BOOLEAN : UpdateWhere(r, written, new)
  BY DEF ExecSettle
<1>6. /\ new \in Stored /\ new.key = approval[r].key
      /\ new.payload = approval[r].payload /\ new.released = approval[r].released
      /\ new.status \in {"executed", "approved", "failed"}
      /\ new.status = "executed" => job[p].pc = "succeeded"
  BY <1>1, <1>2, SettledFields
<1> HIDE DEF new
<1>7. /\ Done(p) \in Job /\ Done(p).pc \in {"idle", "next"}
      /\ \A s \in Done(p).queue : Exists(s)
  BY <1>2, DoneTyped DEF Done, Idle
<1>8. job'[p] = Done(p)
  BY <1>1, <1>7, GotoTyped DEF IInv, TypeOK
<1>9. \A s \in Rows : Exists(s) => Exists(s)'
  <2>1. /\ \A s \in Rows \ {r} : approval'[s] = approval[s]
        /\ approval'[r] = approval[r] \/ approval'[r] = new
    BY <1>2, <1>4, <1>6, UpdateTyped DEF IInv, TypeOK
  <2> QED BY <1>2, <1>6, <2>1 DEF Exists
<1>10. JobInv(p)' /\ ~Executing(p)'
  BY <1>7, <1>8, <1>9 DEF JobInv, Handling, Executing, CreateSteps, Job
<1>11. /\ consent' \in [Rows -> Payload \cup {Null}] /\ consent' = consent
       /\ new.payload \in Payload /\ new.status \in ApprovalStatus /\ consent[r] # Null
  BY <1>1, <1>2, <1>3, <1>6 DEF IInv, TypeOK, RowInv, ApprovalStatus
<1> HIDE DEF r
<1> QED BY <1>1, <1>2, <1>3, <1>4, <1>6, <1>7, <1>10, <1>11, Update DEF r

-----------------------------------------------------------------------------
(* Steps at the provider *)

LEMMA BumpTyped == ASSUME NEW n \in 0..EffectCap PROVE Bump(n) \in 0..EffectCap
  BY BoundsAssumption DEF Bump

LEMMA ActsTyped ==
  ASSUME IInv, NEW p \in Procs, At(p, "dispatch"), Acts(p) \/ Withholds(p) \/ UNCHANGED provider
  PROVE  /\ effects' \in [Rows -> 0..EffectCap]
         /\ sent' \in [Rows -> SUBSET Payload]
         /\ late' \in [Rows -> SUBSET Payload]
         /\ \A s \in Rows \ {job[p].row} : sent'[s] = sent[s] /\ late'[s] = late[s]
         /\ sent[job[p].row] \subseteq sent'[job[p].row]
         /\ sent'[job[p].row] \subseteq sent[job[p].row] \cup {approval[job[p].row].payload}
         /\ late'[job[p].row] \subseteq late[job[p].row] \cup {approval[job[p].row].payload}
         /\ Acts(p) => sent'[job[p].row] # {}
<1> DEFINE r == job[p].row
<1>1. /\ r \in Rows /\ job[p].payload = approval[r].payload /\ RowInv(r) /\ Exists(r)
      /\ TypeOK
  BY DEF IInv, JobInv, Handling, Executing, At
<1>2. approval[r].payload \in Payload
  BY <1>1 DEF RowInv
<1>3. CASE Acts(p)
  <2>1. effects' \in [Rows -> 0..EffectCap]
    BY <1>1, <1>3, BumpTyped DEF Acts, TypeOK
  <2> QED BY <1>1, <1>2, <1>3, <2>1 DEF Acts, TypeOK
<1>4. CASE Withholds(p)
  <2>1. late' \in [Rows -> SUBSET Payload]
    BY <1>1, <1>2, <1>4 DEF Withholds, TypeOK
  <2>2. Acts(p) => sent'[r] # {}
    BY <1>1 DEF Acts, TypeOK
  <2> QED BY <1>1, <1>2, <1>4, <2>1, <2>2 DEF Withholds, TypeOK
<1>5. CASE UNCHANGED provider
  <2>1. Acts(p) => sent'[r] # {}
    BY <1>1 DEF Acts, TypeOK
  <2> QED BY <1>1, <1>5, <2>1 DEF provider, TypeOK
<1> QED BY <1>3, <1>4, <1>5

LEMMA RequestInv ==
  ASSUME IInv, NEW p \in Procs, NEW held \in Job, At(p, "dispatch"), Goto(p, held),
         Acts(p) \/ Withholds(p) \/ UNCHANGED provider,
         held.pc \in {"dispatch", "errored"} \/ (held.pc = "succeeded" /\ Acts(p)),
         held.row = job[p].row, held.payload = job[p].payload, held.queue = job[p].queue,
         UNCHANGED <<now, approval, consent>>
  PROVE  IInv'
<1> DEFINE r == job[p].row
<1>1. /\ effects' \in [Rows -> 0..EffectCap]
      /\ sent' \in [Rows -> SUBSET Payload]
      /\ late' \in [Rows -> SUBSET Payload]
      /\ \A s \in Rows \ {r} : sent'[s] = sent[s] /\ late'[s] = late[s]
      /\ sent[r] \subseteq sent'[r] /\ sent'[r] \subseteq sent[r] \cup {approval[r].payload}
      /\ late'[r] \subseteq late[r] \cup {approval[r].payload}
      /\ Acts(p) => sent'[r] # {}
  BY ActsTyped
<1>2. /\ job' \in [Procs -> Job] /\ job'[p] = held
      /\ \A q \in Procs \ {p} : job'[q] = job[q]
  BY GotoTyped DEF IInv, TypeOK
<1>3. /\ r \in Rows /\ Exists(r) /\ Decided(r) /\ job[p].payload = approval[r].payload
      /\ approval[r].status = "executing" /\ Executing(p) /\ consent[r] # Null
      /\ \A s \in job[p].queue : Exists(s)
  <2>1. Handling(p) /\ Executing(p)
    BY DEF Handling, Executing, At
  <2>2. /\ r \in Rows /\ Exists(r) /\ Decided(r) /\ job[p].payload = approval[r].payload
        /\ approval[r].status = "executing"
        /\ \A s \in job[p].queue : Exists(s)
    BY <2>1 DEF IInv, JobInv, SingleExecutor
  <2> QED BY <2>1, <2>2 DEF IInv, RowInv
<1>4. TypeOK'
  BY <1>1, <1>2 DEF IInv, TypeOK
<1>5. \A s \in Rows : Advances(s) /\ sent[s] \subseteq sent'[s]
  BY <1>1 DEF Advances, Exists, Decided
<1>6. JobInv(p)'
  BY <1>1, <1>2, <1>3 DEF JobInv, Handling, Executing, CreateSteps, Exists, Decided
<1>7. \A q \in Procs : JobInv(q)'
  BY <1>2, <1>5, <1>6, OthersKeep
<1>8. (\A s \in Rows : RowInv(s))' /\ UniqueKey'
  BY DEF IInv, RowInv, UniqueKey, Exists, Terminal, Holds
<1>9. SentAsApproved'
  BY <1>1, <1>3 DEF IInv, SentAsApproved, Decided
<1>10. ExecutedWasSent'
  BY <1>1 DEF IInv, ExecutedWasSent
<1>11. SingleExecutor'
  BY <1>2, <1>3 DEF IInv, SingleExecutor, Executing
<1> QED BY <1>4, <1>7, <1>8, <1>9, <1>10, <1>11 DEF IInv

LEMMA DispatchInv ==
  ASSUME IInv, NEW p \in Procs,
         DispatchRefused(p) \/ DispatchOk(p) \/ DispatchRetryable(p) \/ DispatchFatal(p)
  PROVE  IInv'
<1>1. /\ At(p, "dispatch") /\ job[p] \in Job /\ job[p].tries \in Nat
      /\ UNCHANGED <<now, approval, consent>>
  BY DEF IInv, TypeOK, Job, DispatchRefused, DispatchOk, DispatchRetryable, DispatchFatal
<1>2. ASSUME NEW canRetry \in BOOLEAN, Errored(p, canRetry),
             Acts(p) \/ Withholds(p) \/ UNCHANGED provider
      PROVE  IInv'
  <2> DEFINE held == [job[p] EXCEPT !.pc = "errored", !.retryable = canRetry]
  <2>1. /\ held \in Job /\ held.pc = "errored" /\ held.row = job[p].row
        /\ held.payload = job[p].payload /\ held.queue = job[p].queue
    BY <1>1 DEF Job, Steps, ExecutorSteps
  <2>2. Goto(p, held)
    BY <1>2 DEF Errored
  <2> QED BY <1>1, <1>2, <2>1, <2>2, RequestInv
<1>3. CASE DispatchRefused(p)
  BY <1>2, <1>3 DEF DispatchRefused
<1>4. CASE DispatchOk(p)
  <2> DEFINE held == [job[p] EXCEPT !.pc = "succeeded"]
  <2>1. /\ held \in Job /\ held.pc = "succeeded" /\ held.row = job[p].row
        /\ held.payload = job[p].payload /\ held.queue = job[p].queue
    BY <1>1 DEF Job, Steps, ExecutorSteps
  <2> QED BY <1>1, <1>4, <2>1, RequestInv DEF DispatchOk
<1>5. CASE DispatchRetryable(p)
  <2> DEFINE held == [job[p] EXCEPT !.tries = @ + 1]
  <2>1. /\ held \in Job /\ held.pc = "dispatch" /\ held.row = job[p].row
        /\ held.payload = job[p].payload /\ held.queue = job[p].queue
    BY <1>1 DEF Job, At
  <2>2. CASE Goto(p, held)
    BY <1>1, <1>5, <2>1, <2>2, RequestInv DEF DispatchRetryable
  <2>3. CASE Errored(p, TRUE)
    BY <1>2, <1>5, <2>3 DEF DispatchRetryable
  <2> QED BY <1>5, <2>2, <2>3 DEF DispatchRetryable
<1>6. CASE DispatchFatal(p)
  BY <1>2, <1>6 DEF DispatchFatal
<1> QED BY <1>3, <1>4, <1>5, <1>6

LEMMA LateEffectInv ==
  ASSUME IInv, NEW r \in Rows, LateEffect(r) PROVE IInv'
<1>1. /\ late[r] \in SUBSET Payload /\ late[r] # {}
      /\ UNCHANGED <<now, approval, job, consent>>
  BY DEF LateEffect, IInv, TypeOK
<1>2. /\ Decided(r) /\ consent[r] # Null /\ Exists(r) /\ approval[r].payload \in Payload
      /\ late[r] = {approval[r].payload}
  BY <1>1 DEF IInv, SentAsApproved, Decided, Exists, RowInv
<1>3. /\ effects' \in [Rows -> 0..EffectCap]
      /\ sent' \in [Rows -> SUBSET Payload]
      /\ late' \in [Rows -> SUBSET Payload]
  BY <1>1, <1>2, BumpTyped DEF LateEffect, IInv, TypeOK
<1>4. /\ \A s \in Rows : sent[s] \subseteq sent'[s]
      /\ \A s \in Rows \ {r} : sent'[s] = sent[s] /\ late'[s] = late[s]
      /\ sent'[r] = sent[r] \cup {approval[r].payload}
      /\ late'[r] \subseteq late[r]
  BY <1>2 DEF LateEffect, IInv, TypeOK
<1>5. TypeOK'
  BY <1>1, <1>3 DEF IInv, TypeOK
<1>6. (\A p \in Procs : JobInv(p))'
  BY <1>1, <1>4 DEF IInv, JobInv, Handling, Executing, Exists, Decided, Terminal
<1>7. (\A s \in Rows : RowInv(s))' /\ UniqueKey' /\ SingleExecutor'
  BY <1>1 DEF IInv, RowInv, UniqueKey, Exists, Terminal, Holds, SingleExecutor, Executing
<1>8. SentAsApproved'
  BY <1>1, <1>2, <1>4 DEF IInv, SentAsApproved, Decided
<1>9. ExecutedWasSent'
  BY <1>1, <1>4 DEF IInv, ExecutedWasSent
<1> QED BY <1>5, <1>6, <1>7, <1>8, <1>9 DEF IInv

LEMMA TickInv == ASSUME IInv, Tick PROVE IInv'
<1>1. now' \in 0..Horizon /\ UNCHANGED <<approval, job, consent, provider>>
  BY BoundsAssumption DEF Tick, IInv, TypeOK
<1>2. TypeOK'
  BY <1>1 DEF IInv, TypeOK, provider
<1>3. (\A p \in Procs : JobInv(p))'
  BY <1>1 DEF IInv, JobInv, Handling, Executing, Exists, Decided, Terminal, provider
<1>4. (\A s \in Rows : RowInv(s))' /\ UniqueKey' /\ SingleExecutor'
  BY <1>1 DEF IInv, RowInv, UniqueKey, Exists, Terminal, Holds, SingleExecutor, Executing
<1>5. SentAsApproved' /\ ExecutedWasSent'
  BY <1>1 DEF IInv, SentAsApproved, ExecutedWasSent, Decided, provider
<1> QED BY <1>2, <1>3, <1>4, <1>5 DEF IInv

LEMMA CronSweepInv ==
  ASSUME IInv, NEW c \in Crons, CronSweep(c) PROVE IInv'
<1> DEFINE held == [Idle EXCEPT !.pc = "list", !.now = now]
<1>1. /\ c \in Procs /\ Goto(c, held) /\ UNCHANGED <<now, consent, provider>> /\ now \in Nat
  BY DEF Procs, CronSweep, IInv, TypeOK
<1>2. held \in Job /\ held.pc = "list" /\ held.queue = {}
  BY <1>1, NullAssumption DEF Idle, Job, Steps
<1>3. /\ job' \in [Procs -> Job] /\ job'[c] = held
      /\ \A q \in Procs \ {c} : job'[q] = job[q]
  BY <1>1, <1>2, GotoTyped DEF IInv, TypeOK
<1>4. /\ approval' \in [Rows -> Stored]
      /\ \A r \in Rows :
           \/ approval'[r] = approval[r]
           \/ /\ approval[r].status \in {"pending", "approved"}
              /\ approval'[r].status = "expired" /\ approval'[r].key = approval[r].key
              /\ approval'[r].payload = approval[r].payload
              /\ approval'[r].released = approval[r].released
  <2>1. \A r \in Rows : /\ approval[r] \in Stored
                        /\ [approval[r] EXCEPT !.status = "expired"] \in Stored
    BY DEF IInv, TypeOK, Stored, ApprovalStatus
  <2>2. \A r \in Rows :
          LET new == [approval[r] EXCEPT !.status = "expired"]
          IN /\ new.status = "expired" /\ new.key = approval[r].key
             /\ new.payload = approval[r].payload /\ new.released = approval[r].released
    BY <2>1 DEF Stored
  <2> QED BY <2>1, <2>2 DEF CronSweep
<1>5. \A r \in Rows : Advances(r)
  BY <1>4 DEF Advances, Exists, Decided, Terminal, IsTerminal, Transitions
<1>6. TypeOK'
  BY <1>1, <1>3, <1>4 DEF IInv, TypeOK, provider
<1>7. JobInv(c)'
  BY <1>2, <1>3 DEF JobInv, Handling, Executing, CreateSteps
<1>8. \A q \in Procs : JobInv(q)'
  BY <1>1, <1>3, <1>5, <1>7, OthersKeep DEF provider
<1>9. (\A r \in Rows : RowInv(r))'
  BY <1>1, <1>4 DEF IInv, RowInv, Exists, Terminal, IsTerminal, Transitions
<1>10. UniqueKey'
  BY <1>4 DEF IInv, UniqueKey, Holds, Exists
<1>11. SentAsApproved' /\ ExecutedWasSent'
  BY <1>1, <1>4 DEF IInv, SentAsApproved, ExecutedWasSent, Decided, provider
<1>12. SingleExecutor'
  <2>1. ~Executing(c)'
    BY <1>2, <1>3 DEF Executing
  <2>2. \A q \in Procs : Executing(q) =>
          job[q].row \in Rows /\ approval[job[q].row].status = "executing"
    BY DEF IInv, JobInv, SingleExecutor, Executing, Handling
  <2>3. \A q \in Procs : Executing(q)' =>
          job'[q] = job[q] /\ Executing(q) /\ approval'[job[q].row] = approval[job[q].row]
    <3> SUFFICES ASSUME NEW q \in Procs, Executing(q)'
                 PROVE  job'[q] = job[q] /\ Executing(q) /\ approval'[job[q].row] = approval[job[q].row]
      OBVIOUS
    <3>1. job'[q] = job[q] /\ Executing(q)
      BY <1>3, <2>1 DEF Executing
    <3>2. job[q].row \in Rows /\ approval[job[q].row].status = "executing"
      BY <2>2, <3>1
    <3> QED BY <1>4, <3>1, <3>2
  <2> QED BY <2>3 DEF IInv, SingleExecutor
<1> QED BY <1>6, <1>8, <1>9, <1>10, <1>11, <1>12 DEF IInv

-----------------------------------------------------------------------------
(* The theorems *)

LEMMA InitInv == Init => IInv
<1> SUFFICES ASSUME Init PROVE IInv
  OBVIOUS
<1>1. TypeOK
  BY IdleTyped, BlankTyped, BoundsAssumption DEF Init, TypeOK
<1>2. \A r \in Rows : approval[r].status = "absent" /\ ~approval[r].released
  BY DEF Init, Blank
<1>3. \A p \in Procs : job[p].pc = "idle" /\ job[p].queue = {}
  BY DEF Init, Idle
<1>4. \A p \in Procs : JobInv(p) /\ ~Executing(p)
  BY <1>3 DEF JobInv, Handling, Executing, CreateSteps
<1>5. (\A r \in Rows : RowInv(r)) /\ UniqueKey
  BY <1>2 DEF RowInv, UniqueKey, Holds, Exists
<1>6. SentAsApproved /\ ExecutedWasSent
  BY <1>2 DEF SentAsApproved, ExecutedWasSent, Init
<1> QED BY <1>1, <1>4, <1>5, <1>6 DEF IInv, SingleExecutor

LEMMA NextInv == IInv /\ [Next]_vars => IInv'
<1> SUFFICES ASSUME IInv, [Next]_vars PROVE IInv'
  OBVIOUS
<1>1. CASE UNCHANGED vars
  <2>1. UNCHANGED <<now, approval, job, consent, effects, sent, late>>
    BY <1>1 DEF vars
  <2> QED BY <2>1 DEF IInv, TypeOK, JobInv, RowInv, UniqueKey, SentAsApproved,
            ExecutedWasSent, SingleExecutor, Handling, Executing, Exists, Decided, Terminal, Holds
<1>2. ASSUME NEW p \in Users, Create(p) PROVE IInv'
  BY <1>2, CreateReadInv, CreateRefreshInv, CreateReleaseInv, CreateInsertInv DEF Create
<1>3. ASSUME NEW p \in Users, Decide(p) PROVE IInv'
  BY <1>3, OpenCardInv, DecideReadInv, DecideCloseInv, DecideClaimInv DEF Decide
<1>4. ASSUME NEW p \in Users, Retry(p) PROVE IInv'
  BY <1>4, DecideReadInv, RetryReopenInv DEF Retry
<1>5. ASSUME NEW p \in Procs, Execute(p) PROVE IInv'
  BY <1>5, ExecLoadInv, ExecLockInv, DispatchInv, ExecSettleInv DEF Execute
<1>6. ASSUME NEW p \in Procs, Abort(p) PROVE IInv'
  BY <1>6, AbortInv
<1>7. ASSUME NEW c \in Crons, Sweep(c) PROVE IInv'
  BY <1>7, CronSweepInv, SweepMoveInv DEF Sweep
<1>8. ASSUME NEW r \in Rows, LateEffect(r) PROVE IInv'
  BY <1>8, LateEffectInv
<1>9. CASE Tick
  BY <1>9, TickInv
<1> QED BY <1>1, <1>2, <1>3, <1>4, <1>5, <1>6, <1>7, <1>8, <1>9 DEF Next

\* For every set of rows, keys, devices and cron slots and every budget, the gate
\* stays in the inductive invariant, and so in each of its parts.
THEOREM Invariance == Spec => []IInv
<1> QED BY InitInv, NextInv, PTL DEF Spec

\* The state of the gate keeps its type.
THEOREM TypeCorrect == Spec => []TypeOK
<1>1. IInv => TypeOK
  BY DEF IInv
<1> QED BY <1>1, Invariance, PTL

\* The execution lock: no two invocations execute one approval, however many race.
THEOREM LockIsExclusive == Spec => []SingleExecutor
<1>1. IInv => SingleExecutor
  BY DEF IInv
<1> QED BY <1>1, Invariance, PTL

\* Only what a user decided reaches the provider, with the payload the row holds.
THEOREM OnlyApprovedIsSent == Spec => []SentAsApproved
<1>1. IInv => SentAsApproved
  BY DEF IInv
<1> QED BY <1>1, Invariance, PTL

\* A row that says executed was acted on by the provider.
THEOREM ExecutedIsDone == Spec => []ExecutedWasSent
<1>1. IInv => ExecutedWasSent
  BY DEF IInv
<1> QED BY <1>1, Invariance, PTL

\* Two proposals in play never share a base key.
THEOREM OneProposalPerKey == Spec => []OneLivePerKey
<1>1. IInv => OneLivePerKey
  <2> SUFFICES ASSUME IInv, NEW r \in Rows, NEW s \in Rows, r # s, Live(r), Live(s)
               PROVE  approval[r].key # approval[s].key
    BY DEF OneLivePerKey
  <2>1. RowInv(r) /\ RowInv(s) /\ UniqueKey /\ approval[r] \in Stored /\ approval[s] \in Stored
    BY DEF IInv, TypeOK
  <2>2. ~approval[r].released /\ ~approval[s].released /\ approval[r].key \in Keys
    BY <2>1 DEF RowInv, Live, Terminal
  <2> QED BY <2>1, <2>2 DEF UniqueKey, Holds, Live
<1> QED BY <1>1, Invariance, PTL

-----------------------------------------------------------------------------
(* The gate implements ApprovalMachine *)

MachineStep == [Machine!Next]_(Machine!vars)

LEMMA Stutters ==
  ASSUME UNCHANGED <<approval, sent, late>> PROVE MachineStep
  BY DEF MachineStep, Machine!vars, StatusOf, PayloadOf

\* What an update of one row is to the machine.
LEMMA RowMaps ==
  ASSUME NEW r \in Rows, approval' \in [Rows -> Stored],
         \A s \in Rows \ {r} : approval'[s] = approval[s]
  PROVE  /\ StatusOf' = [StatusOf EXCEPT ![r] = approval'[r].status]
         /\ PayloadOf' = [PayloadOf EXCEPT ![r] = approval'[r].payload]
         /\ approval'[r].status = approval[r].status => StatusOf' = StatusOf
         /\ approval'[r].payload = approval[r].payload => PayloadOf' = PayloadOf
         /\ StatusOf[r] = approval[r].status /\ PayloadOf[r] = approval[r].payload
  BY DEF StatusOf, PayloadOf

\* What an update the code issues does to its row.
LEMMA Updated ==
  ASSUME IInv, NEW r \in Rows, NEW new \in Stored, NEW matches \in BOOLEAN,
         UpdateWhere(r, matches, new)
  PROVE  /\ approval' \in [Rows -> Stored]
         /\ \A s \in Rows \ {r} : approval'[s] = approval[s]
         /\ \/ UNCHANGED approval
            \/ matches /\ TriggerAllows(approval[r].status, new.status) /\ approval'[r] = new
<1>1. approval \in [Rows -> Stored]
  BY DEF IInv, TypeOK
<1> QED BY <1>1 DEF UpdateWhere

LEMMA CloseOne ==
  ASSUME IInv, NEW r \in Rows, Exists(r), NEW verdict \in {"rejected", "expired"},
         NEW matches \in BOOLEAN, UNCHANGED provider,
         UpdateWhere(r, matches, [approval[r] EXCEPT !.status = verdict])
  PROVE  MachineStep
<1> DEFINE new == [approval[r] EXCEPT !.status = verdict]
<1>1. /\ new \in Stored /\ new.status = verdict /\ new.payload = approval[r].payload
      /\ approval[r].status \in ApprovalStatus
  BY DEF IInv, TypeOK, Stored, ApprovalStatus, Exists
<1> HIDE DEF new
<1>2. /\ approval' \in [Rows -> Stored]
      /\ \A s \in Rows \ {r} : approval'[s] = approval[s]
      /\ \/ UNCHANGED approval
         \/ TriggerAllows(approval[r].status, verdict) /\ approval'[r] = new
  BY <1>1, Updated DEF new
<1>3. CASE UNCHANGED approval
  BY <1>3, Stutters DEF provider
<1>4. CASE approval'[r] = new /\ approval[r].status = verdict
  <2>1. StatusOf' = StatusOf /\ PayloadOf' = PayloadOf
    BY <1>1, <1>2, <1>4, RowMaps
  <2> QED BY <2>1 DEF MachineStep, Machine!vars, provider
<1>5. CASE approval'[r] = new /\ CanTransition(approval[r].status, verdict)
  <2>1. StatusOf' = [s \in Rows |-> IF s \in {r} THEN verdict ELSE StatusOf[s]]
    BY <1>1, <1>2, <1>5 DEF StatusOf
  <2>2. PayloadOf' = PayloadOf /\ StatusOf[r] = approval[r].status
    BY <1>1, <1>2, <1>5, RowMaps
  <2>3. Machine!Close({r}, verdict)
    BY <1>1, <1>5, <2>1, <2>2 DEF Machine!Close, Machine!CanTransition, CanTransition,
       Machine!Transitions, Transitions, ApprovalStatus, provider
  <2>4. Machine!Next
    BY <2>3 DEF Machine!Next
  <2> QED BY <2>4 DEF MachineStep
<1> QED BY <1>2, <1>3, <1>4, <1>5 DEF TriggerAllows

LEMMA ProposeStep ==
  ASSUME IInv, NEW p \in Users, CreateRefresh(p) \/ CreateInsert(p) PROVE MachineStep
<1>1. /\ p \in Procs /\ job[p] \in Job /\ job[p].payload \in Payload /\ job[p].key \in Keys
      /\ UNCHANGED provider
  BY DEF Procs, IInv, TypeOK, JobInv, CreateRefresh, CreateInsert, At, CreateSteps
<1>2. ASSUME NEW r \in Rows, approval[r].status \in {"absent", "pending"},
             NEW new \in Stored, new.status = "pending", new.payload = job[p].payload,
             approval' \in [Rows -> Stored], approval'[r] = new,
             \A s \in Rows \ {r} : approval'[s] = approval[s]
      PROVE  MachineStep
  <2>1. Machine!Propose(r, job[p].payload)
    BY <1>1, <1>2, RowMaps DEF Machine!Propose, provider
  <2>2. Machine!Next
    BY <1>1, <2>1 DEF Machine!Next, Machine!Payload, Payload
  <2> QED BY <2>2 DEF MachineStep
<1>3. CASE CreateRefresh(p)
  <2> DEFINE r == job[p].row
             pending == approval[r].status = "pending"
             new == Proposal(p, approval[r])
  <2>1. r \in Rows /\ approval[r] \in Stored /\ UpdateWhere(r, pending, new)
    BY <1>1, <1>3, HandledRow DEF CreateRefresh, At, Handling
  <2>2. new \in Stored /\ new.status = approval[r].status /\ new.payload = job[p].payload
    BY <1>1, <2>1, ProposalFields
  <2> HIDE DEF new, r
  <2>3. /\ approval' \in [Rows -> Stored]
        /\ \A s \in Rows \ {r} : approval'[s] = approval[s]
        /\ UNCHANGED approval \/ (pending /\ approval'[r] = new)
    BY <2>1, <2>2, Updated
  <2>4. CASE UNCHANGED approval
    BY <1>1, <2>4, Stutters DEF provider
  <2>5. CASE pending /\ approval'[r] = new
    BY <1>2, <2>1, <2>2, <2>3, <2>5
  <2> QED BY <2>3, <2>4, <2>5
<1>4. CASE CreateInsert(p)
  <2> DEFINE fresh == [Blank EXCEPT !.status = "pending", !.key = job[p].key]
             new == Proposal(p, fresh)
  <2>1. CASE UNCHANGED approval
    BY <1>1, <2>1, Stutters DEF provider
  <2>2. CASE \E r \in Rows : ~Exists(r) /\ approval' = [approval EXCEPT ![r] = new]
    <3>1. PICK r \in Rows : ~Exists(r) /\ approval' = [approval EXCEPT ![r] = new]
      BY <2>2
    <3>2. fresh \in Stored /\ fresh.status = "pending"
      BY <1>1, NullAssumption DEF Blank, Stored, ApprovalStatus
    <3>3. new \in Stored /\ new.status = "pending" /\ new.payload = job[p].payload
      BY <1>1, <3>2, ProposalFields
    <3> HIDE DEF new
    <3>4. /\ approval' \in [Rows -> Stored] /\ approval'[r] = new
          /\ \A s \in Rows \ {r} : approval'[s] = approval[s]
      BY <3>1, <3>3 DEF IInv, TypeOK
    <3> QED BY <1>2, <3>1, <3>3, <3>4 DEF Exists
  <2> QED BY <1>4, <2>1, <2>2 DEF CreateInsert
<1> QED BY <1>3, <1>4

\* Releasing a key is invisible to the machine.
LEMMA ReleaseStep ==
  ASSUME IInv, NEW p \in Users, CreateRelease(p) PROVE MachineStep
<1> DEFINE r == job[p].row
           ours == Holds(r, job[p].key)
           new == [approval[r] EXCEPT !.released = TRUE]
<1>1. /\ p \in Procs /\ Handling(p) /\ UpdateWhere(r, ours, new) /\ UNCHANGED provider
  BY DEF Procs, CreateRelease, At, Handling
<1>2. r \in Rows /\ Exists(r) /\ approval[r] \in Stored
  BY <1>1, HandledRow
<1>3. /\ new \in Stored /\ new.status = approval[r].status /\ new.payload = approval[r].payload
      /\ ours \in BOOLEAN
  BY <1>2 DEF Stored, Holds, Exists
<1> HIDE DEF new, ours, r
<1>4. /\ approval' \in [Rows -> Stored] /\ \A s \in Rows \ {r} : approval'[s] = approval[s]
      /\ UNCHANGED approval \/ approval'[r] = new
  BY <1>1, <1>2, <1>3, Updated
<1>5. CASE UNCHANGED approval
  BY <1>1, <1>5, Stutters DEF provider
<1>6. CASE approval'[r] = new
  <2>1. StatusOf' = StatusOf /\ PayloadOf' = PayloadOf
    BY <1>2, <1>3, <1>4, <1>6, RowMaps
  <2> QED BY <1>1, <2>1 DEF MachineStep, Machine!vars, provider
<1> QED BY <1>4, <1>5, <1>6

LEMMA ClaimStep ==
  ASSUME IInv, NEW p \in Users, DecideClaim(p) PROVE MachineStep
<1> DEFINE r == job[p].row
           edit == job[p].payload
           x == IF edit = Null THEN approval[r].payload ELSE edit
           new == [approval[r] EXCEPT !.status = "approved", !.payload = x]
<1>1. /\ p \in Procs /\ Handling(p) /\ UNCHANGED provider
  BY DEF Procs, DecideClaim, At, Handling
<1>2. r \in Rows /\ Exists(r) /\ approval[r] \in Stored /\ RowInv(r) /\ job[p] \in Job
  BY <1>1, HandledRow
<1>3. x \in Payload
  BY <1>2 DEF RowInv, Job
<1>4. new \in Stored /\ new.status = "approved" /\ new.payload = x
  <2> HIDE DEF x
  <2> QED BY <1>2, <1>3 DEF Stored, ApprovalStatus
<1>5. CASE UNCHANGED approval
  BY <1>1, <1>5, Stutters DEF provider
<1>6. CASE approval[r].status = "pending" /\ UpdateWhere(r, TRUE, new)
  <2> HIDE DEF new, x, r
  <2>1. /\ approval' \in [Rows -> Stored] /\ \A s \in Rows \ {r} : approval'[s] = approval[s]
        /\ UNCHANGED approval \/ approval'[r] = new
    BY <1>2, <1>4, <1>6, Updated
  <2>2. CASE approval'[r] = new
    <3>1. Machine!Approve(r, x)
      BY <1>1, <1>2, <1>4, <1>6, <2>1, <2>2, RowMaps DEF Machine!Approve, provider
    <3>2. Machine!Next
      BY <1>2, <1>3, <3>1 DEF Machine!Next, Machine!Payload, Payload
    <3> QED BY <3>2 DEF MachineStep
  <2> QED BY <1>5, <2>1, <2>2
<1>7. \/ UNCHANGED approval
      \/ approval[r].status = "pending" /\ UpdateWhere(r, TRUE, new)
  BY DEF DecideClaim
<1> QED BY <1>5, <1>6, <1>7

\* An update that changes the status alone.
LEMMA StatusStep ==
  ASSUME IInv, NEW r \in Rows, NEW new \in Stored, new.payload = approval[r].payload,
         NEW matches \in BOOLEAN, UpdateWhere(r, matches, new), UNCHANGED provider,
         matches =>
           \/ approval[r].status = "failed" /\ new.status = "approved"
           \/ approval[r].status = "approved" /\ new.status = "executing"
           \/ /\ approval[r].status = "executing" /\ new.status \in {"executed", "approved", "failed"}
              /\ new.status = "executed" => sent[r] # {}
  PROVE  MachineStep
<1>1. /\ approval' \in [Rows -> Stored] /\ \A s \in Rows \ {r} : approval'[s] = approval[s]
      /\ UNCHANGED approval \/ (matches /\ approval'[r] = new)
  BY Updated
<1>2. CASE UNCHANGED approval
  BY <1>2, Stutters DEF provider
<1>3. CASE matches /\ approval'[r] = new
  <2>1. /\ StatusOf' = [StatusOf EXCEPT ![r] = new.status] /\ PayloadOf' = PayloadOf
        /\ StatusOf[r] = approval[r].status
    BY <1>1, <1>3, RowMaps
  <2>2. Machine!Reopen(r) \/ Machine!Begin(r) \/ Machine!Finish(r)
    BY <1>3, <2>1 DEF Machine!Reopen, Machine!Begin, Machine!Finish, provider
  <2>3. Machine!Next
    BY <2>2 DEF Machine!Next
  <2> QED BY <2>3 DEF MachineStep
<1> QED BY <1>1, <1>2, <1>3
LEMMA ReopenStep ==
  ASSUME IInv, NEW p \in Users, RetryReopen(p) PROVE MachineStep
<1> DEFINE r == job[p].row
           failed == approval[r].status = "failed"
           new == [approval[r] EXCEPT !.status = "approved", !.due = Null]
<1>1. /\ p \in Procs /\ Handling(p) /\ UpdateWhere(r, failed, new) /\ UNCHANGED provider
  BY DEF Procs, RetryReopen, At, Handling
<1>2. r \in Rows /\ Exists(r) /\ approval[r] \in Stored
  BY <1>1, HandledRow
<1>3. new \in Stored /\ new.status = "approved" /\ new.payload = approval[r].payload
  BY <1>2 DEF Stored, ApprovalStatus
<1> HIDE DEF new, r
<1> QED BY <1>1, <1>2, <1>3, StatusStep

LEMMA LockStep ==
  ASSUME IInv, NEW p \in Procs, ExecLock(p) PROVE MachineStep
<1> DEFINE r == job[p].row
           ready == approval[r].status = job[p].seen
           new == [approval[r] EXCEPT !.status = "executing"]
<1>1. /\ Handling(p) /\ job[p].seen = "approved" /\ UNCHANGED provider
      /\ UNCHANGED approval \/ (ready /\ UpdateWhere(r, TRUE, new))
  BY DEF IInv, JobInv, ExecLock, At, Handling
<1>2. r \in Rows /\ Exists(r) /\ approval[r] \in Stored
  BY <1>1, HandledRow
<1>3. new \in Stored /\ new.status = "executing" /\ new.payload = approval[r].payload
  BY <1>2 DEF Stored, ApprovalStatus
<1>4. CASE UNCHANGED approval
  BY <1>1, <1>4, Stutters DEF provider
<1>5. CASE ready /\ UpdateWhere(r, TRUE, new)
  <2> HIDE DEF new, r
  <2> QED BY <1>1, <1>2, <1>3, <1>5, StatusStep
<1> QED BY <1>1, <1>4, <1>5

LEMMA SettleStep ==
  ASSUME IInv, NEW p \in Procs, ExecSettle(p) PROVE MachineStep
<1> DEFINE r == job[p].row
           new == SettledRow(p)
<1>1. Handling(p) /\ Executing(p) /\ UNCHANGED provider
  BY DEF ExecSettle, At, Handling, Executing
<1>2. r \in Rows /\ approval[r] \in Stored /\ job[p] \in Job
  BY <1>1, HandledRow
<1>3. approval[r].status = "executing" /\ (job[p].pc = "succeeded" => sent[r] # {})
  BY <1>1 DEF IInv, JobInv, SingleExecutor
<1>4. PICK written \in BOOLEAN : UpdateWhere(r, written, new)
  BY DEF ExecSettle
<1>5. /\ new \in Stored /\ new.payload = approval[r].payload
      /\ new.status \in {"executed", "approved", "failed"}
      /\ new.status = "executed" => job[p].pc = "succeeded"
  BY <1>2, SettledFields
<1> HIDE DEF new, r
<1> QED BY <1>1, <1>2, <1>3, <1>4, <1>5, StatusStep

\* A request leaves for the provider with the payload its row holds.
LEMMA RequestStep ==
  ASSUME IInv, NEW p \in Procs,
         DispatchRefused(p) \/ DispatchOk(p) \/ DispatchRetryable(p) \/ DispatchFatal(p)
  PROVE  MachineStep
<1> DEFINE r == job[p].row
<1>1. /\ At(p, "dispatch") /\ UNCHANGED approval
      /\ Acts(p) \/ Withholds(p) \/ UNCHANGED provider
  BY DEF DispatchRefused, DispatchOk, DispatchRetryable, DispatchFatal
<1>2. /\ r \in Rows /\ approval[r].status = "executing" /\ job[p].payload = approval[r].payload
  <2>1. Handling(p) /\ Executing(p)
    BY <1>1 DEF Handling, Executing, At
  <2> QED BY <2>1 DEF IInv, JobInv, SingleExecutor
<1>3. CASE Acts(p) \/ Withholds(p)
  <2>1. /\ StatusOf[r] = "executing" /\ PayloadOf[r] = job[p].payload
        /\ StatusOf' = StatusOf /\ PayloadOf' = PayloadOf
    BY <1>1, <1>2 DEF StatusOf, PayloadOf
  <2>2. Machine!Request(r)
    BY <1>3, <2>1 DEF Machine!Request, Acts, Withholds
  <2>3. Machine!Next
    BY <1>2, <2>2 DEF Machine!Next
  <2> QED BY <2>3 DEF MachineStep
<1>4. CASE UNCHANGED provider
  BY <1>1, <1>4, Stutters DEF provider
<1> QED BY <1>1, <1>3, <1>4

LEMMA LateStep ==
  ASSUME IInv, NEW r \in Rows, LateEffect(r) PROVE MachineStep
<1>1. /\ StatusOf' = StatusOf /\ PayloadOf' = PayloadOf /\ PayloadOf[r] = approval[r].payload
  BY DEF LateEffect, StatusOf, PayloadOf
<1>2. late[r] \subseteq {approval[r].payload}
  BY DEF LateEffect, IInv, SentAsApproved
<1>3. Machine!LateEffect(r)
  BY <1>1, <1>2 DEF Machine!LateEffect, LateEffect
<1>4. Machine!Next
  BY <1>3 DEF Machine!Next
<1> QED BY <1>4 DEF MachineStep

LEMMA SweepStep ==
  ASSUME IInv, NEW c \in Crons, CronSweep(c) PROVE MachineStep
<1> DEFINE S == {r \in Rows : /\ approval[r].status \in {"pending", "approved"}
                              /\ IsExpired(approval[r].expires, now)}
<1>1. /\ approval' = [r \in Rows |-> IF r \in S THEN [approval[r] EXCEPT !.status = "expired"]
                                                  ELSE approval[r]]
      /\ UNCHANGED provider
  BY DEF CronSweep
<1>2. \A r \in Rows : LET new == [approval[r] EXCEPT !.status = "expired"]
                      IN new.status = "expired" /\ new.payload = approval[r].payload
  BY DEF IInv, TypeOK, Stored
<1>3. /\ S \subseteq Rows
      /\ \A r \in S : approval[r].status \in {"pending", "approved"}
  OBVIOUS
<1> HIDE DEF S
<1>4. \A r \in Rows : /\ approval'[r].status = IF r \in S THEN "expired" ELSE approval[r].status
                      /\ approval'[r].payload = approval[r].payload
  BY <1>1, <1>2
<1>5. /\ StatusOf' = [r \in Rows |-> IF r \in S THEN "expired" ELSE StatusOf[r]]
      /\ PayloadOf' = PayloadOf
  BY <1>4 DEF StatusOf, PayloadOf
<1>6. \A r \in S : StatusOf[r] \in {"pending", "approved"}
  BY <1>3 DEF StatusOf
<1>7. Machine!Close(S, "expired")
  BY <1>1, <1>5, <1>6 DEF Machine!Close, Machine!CanTransition, Machine!Transitions, provider
<1>8. Machine!Next
  BY <1>3, <1>7 DEF Machine!Next
<1> QED BY <1>8 DEF MachineStep

LEMMA CloseStep ==
  ASSUME IInv, NEW p \in Users, DecideExpire(p) \/ DecideReject(p) PROVE MachineStep
<1> DEFINE r == job[p].row
<1>1. p \in Procs /\ Handling(p) /\ UNCHANGED provider
  BY DEF Procs, DecideExpire, DecideReject, At, Handling
<1>2. r \in Rows /\ Exists(r)
  BY <1>1, HandledRow
<1>3. PICK verdict \in {"rejected", "expired"}, matches \in BOOLEAN :
        UpdateWhere(r, matches, [approval[r] EXCEPT !.status = verdict])
  BY DEF DecideExpire, DecideReject
<1> HIDE DEF r
<1> QED BY <1>1, <1>2, <1>3, CloseOne

LEMMA NextStep == IInv /\ [Next]_vars => MachineStep
<1> SUFFICES ASSUME IInv, [Next]_vars PROVE MachineStep
  OBVIOUS
<1>1. CASE UNCHANGED vars
  BY <1>1, Stutters DEF vars
<1>2. ASSUME NEW p \in Users, Create(p) PROVE MachineStep
  <2>1. CASE \E k \in Keys, x \in Payload : CreateRead(p, k, x)
    BY <2>1, Stutters DEF CreateRead, provider
  <2>2. CASE CreateRefresh(p) \/ CreateInsert(p)
    BY <2>2, ProposeStep
  <2>3. CASE CreateRelease(p)
    BY <2>3, ReleaseStep
  <2> QED BY <1>2, <2>1, <2>2, <2>3 DEF Create
<1>3. ASSUME NEW p \in Users, Decide(p) PROVE MachineStep
  <2>1. CASE DecideExpire(p) \/ DecideReject(p)
    BY <2>1, CloseStep
  <2>2. CASE DecideClaim(p)
    BY <2>2, ClaimStep
  <2>3. CASE \/ \E r \in Rows : OpenCard(p, r)
             \/ DecideReadExpired(p) \/ DecideReadReject(p)
             \/ \E edit \in Payload \cup {Null} : DecideReadApprove(p, edit)
    BY <2>3, Stutters DEF OpenCard, DecideReadExpired, DecideReadReject, DecideReadApprove, provider
  <2> QED BY <1>3, <2>1, <2>2, <2>3 DEF Decide
<1>4. ASSUME NEW p \in Users, Retry(p) PROVE MachineStep
  <2>1. CASE RetryRead(p)
    BY <2>1, Stutters DEF RetryRead, provider
  <2> QED BY <1>4, <2>1, ReopenStep DEF Retry
<1>5. ASSUME NEW p \in Procs, Execute(p) PROVE MachineStep
  <2>1. CASE ExecLoad(p)
    BY <2>1, Stutters DEF ExecLoad, provider
  <2> QED BY <1>5, <2>1, LockStep, SettleStep, RequestStep DEF Execute
<1>6. ASSUME NEW p \in Procs, Abort(p) PROVE MachineStep
  BY <1>6, Stutters DEF Abort, provider
<1>7. ASSUME NEW c \in Crons, Sweep(c) PROVE MachineStep
  <2>1. CASE CronList(c) \/ CronNext(c) \/ CronSkip(c)
    BY <2>1, Stutters DEF CronList, CronNext, CronSkip, provider
  <2> QED BY <1>7, <2>1, SweepStep DEF Sweep
<1>8. ASSUME NEW r \in Rows, LateEffect(r) PROVE MachineStep
  BY <1>8, LateStep
<1>9. CASE Tick
  BY <1>9, Stutters DEF Tick, provider
<1> QED BY <1>1, <1>2, <1>3, <1>4, <1>5, <1>6, <1>7, <1>8, <1>9 DEF Next

\* The gate implements the status machine: every step of every invocation, in any
\* interleaving, is one legal step of some row, or invisible.
THEOREM GateImplementsMachine == Spec => ImplementsMachine
<1>1. Init => Machine!Init
  BY DEF Init, Machine!Init, StatusOf, PayloadOf, Blank
<1>2. IInv /\ [Next]_vars => [Machine!Next]_(Machine!vars)
  BY NextStep DEF MachineStep
<1> QED BY <1>1, <1>2, Invariance, PTL DEF Spec, ImplementsMachine, Machine!Spec
-----------------------------------------------------------------------------
(* Terminal rows are final *)

\* The machine never moves a terminal row.
LEMMA MachineFinal ==
  ASSUME MachineStep, NEW r \in Rows, Terminal(r), Exists(r)
  PROVE  approval'[r].status = approval[r].status /\ approval'[r].payload = approval[r].payload
<1> DEFINE Kept == StatusOf'[r] = StatusOf[r] /\ PayloadOf'[r] = PayloadOf[r]
<1>1. /\ StatusOf[r] = approval[r].status /\ PayloadOf[r] = approval[r].payload
      /\ StatusOf'[r] = approval'[r].status /\ PayloadOf'[r] = approval'[r].payload
  BY DEF StatusOf, PayloadOf
<1>2. /\ StatusOf \in [Rows -> {approval[s].status : s \in Rows}]
      /\ PayloadOf \in [Rows -> {approval[s].payload : s \in Rows}]
  BY DEF StatusOf, PayloadOf
<1>3. StatusOf[r] \notin {"absent", "pending", "approved", "executing", "failed"}
  BY <1>1 DEF Terminal, IsTerminal, Transitions, Exists
<1>4. Kept
  <2>1. CASE UNCHANGED Machine!vars
    BY <2>1 DEF Machine!vars
  <2>2. ASSUME NEW s \in Rows, NEW x, Machine!Propose(s, x) \/ Machine!Approve(s, x) PROVE Kept
    BY <1>2, <1>3, <2>2 DEF Machine!Propose, Machine!Approve
  <2>3. ASSUME NEW s \in Rows,
               \/ Machine!Begin(s) \/ Machine!Request(s) \/ Machine!LateEffect(s)
               \/ Machine!Finish(s) \/ Machine!Reopen(s)
        PROVE  Kept
    BY <1>2, <1>3, <2>3 DEF Machine!Begin, Machine!Request, Machine!LateEffect,
       Machine!Finish, Machine!Reopen
  <2>4. ASSUME NEW S \in SUBSET Rows, NEW verdict \in {"rejected", "expired"},
               Machine!Close(S, verdict)
        PROVE  Kept
    <3>1. r \notin S
      BY <1>1, <2>4 DEF Machine!Close, Machine!CanTransition, Machine!Transitions,
         Terminal, IsTerminal, Transitions
    <3> QED BY <2>4, <3>1 DEF Machine!Close
  <2> QED BY <2>1, <2>2, <2>3, <2>4 DEF MachineStep, Machine!Next
<1> QED BY <1>1, <1>4

\* Nor does the provider act for a row nobody executes, except on a request it
\* already holds.
LEMMA ProviderQuiet ==
  ASSUME IInv, [Next]_vars, NEW r \in Rows, \A p \in Procs : Executing(p) => job[p].row # r
  PROVE  Quiet(r)
<1>1. TypeOK
  BY DEF IInv
<1>2. CASE late'[r] = late[r] /\ effects'[r] = effects[r] /\ sent'[r] = sent[r]
  BY <1>2 DEF Quiet
<1>3. ASSUME NEW s \in Rows, LateEffect(s)
      PROVE  Quiet(r)
  BY <1>1, <1>3 DEF LateEffect, TypeOK, Quiet
<1>4. ASSUME NEW p \in Procs, At(p, "dispatch"), Acts(p) \/ Withholds(p)
      PROVE  late'[r] = late[r] /\ effects'[r] = effects[r] /\ sent'[r] = sent[r]
  <2>1. Executing(p)
    BY <1>4 DEF Executing, At
  <2>2. job[p].row # r
    BY <2>1
  <2> QED BY <1>1, <1>4, <2>2 DEF Acts, Withholds, TypeOK
<1>5. \/ UNCHANGED provider
      \/ \E s \in Rows : LateEffect(s)
      \/ \E p \in Procs : At(p, "dispatch") /\ (Acts(p) \/ Withholds(p))
  <2>1. CASE UNCHANGED vars
    BY <2>1 DEF vars, provider
  <2>2. ASSUME NEW p \in Users, Create(p) \/ Decide(p) \/ Retry(p) PROVE UNCHANGED provider
    BY <2>2 DEF Create, CreateRead, CreateRefresh, CreateRelease, CreateInsert,
       Decide, OpenCard, DecideReadExpired, DecideReadReject, DecideReadApprove, DecideExpire,
       DecideReject, DecideClaim, Retry, RetryRead, RetryReopen
  <2>3. ASSUME NEW p \in Procs, Execute(p)
        PROVE  UNCHANGED provider \/ (At(p, "dispatch") /\ (Acts(p) \/ Withholds(p)))
    BY <2>3 DEF Execute, ExecLoad, ExecLock, DispatchRefused, DispatchOk, DispatchRetryable,
       DispatchFatal, ExecSettle
  <2>4. ASSUME NEW p \in Procs, Abort(p) PROVE UNCHANGED provider
    BY <2>4 DEF Abort
  <2>5. ASSUME NEW c \in Crons, Sweep(c) PROVE UNCHANGED provider
    BY <2>5 DEF Sweep, CronSweep, CronList, CronNext, CronSkip
  <2>6. CASE Tick
    BY <2>6 DEF Tick
  <2> QED BY <2>1, <2>2, <2>3, <2>4, <2>5, <2>6 DEF Next
<1> QED BY <1>2, <1>3, <1>4, <1>5 DEF provider

\* An executed, rejected or expired row keeps its status and its payload for good, and
\* no new request leaves for it.
THEOREM TerminalStaysFinal == Spec => TerminalIsFinal
<1> DEFINE Final ==
      \A r \in Rows : Exists(r) /\ IsTerminal(approval[r].status) =>
        /\ approval'[r].status = approval[r].status
        /\ approval'[r].payload = approval[r].payload
        /\ Quiet(r)
<1>1. ASSUME IInv, [Next]_vars PROVE Final
  <2> SUFFICES ASSUME NEW r \in Rows, Exists(r), Terminal(r)
               PROVE  /\ approval'[r].status = approval[r].status
                      /\ approval'[r].payload = approval[r].payload
                      /\ Quiet(r)
    BY DEF Terminal
  <2>1. \A p \in Procs : Executing(p) => job[p].row # r
    BY <1>1 DEF IInv, SingleExecutor, Terminal, IsTerminal, Transitions
  <2> QED BY <1>1, <2>1, NextStep, MachineFinal, ProviderQuiet
<1>2. IInv /\ [Next]_vars => [Final]_vars
  BY <1>1
<1> HIDE DEF Final
<1>3. Spec => [][Final]_vars
  BY <1>2, Invariance, PTL DEF Spec
<1> QED BY <1>3 DEF TerminalIsFinal, Final

-----------------------------------------------------------------------------
(* An execution that died is inert *)

\* An invocation executes a row only if it did before, or has just locked it.
LEMMA ExecutorsAreNotMade ==
  ASSUME IInv, [Next]_vars, NEW q \in Procs, Executing(q)'
  PROVE  /\ job'[q].row = job[q].row
         /\ Executing(q) \/ approval[job[q].row].status = "approved"
<1> DEFINE Goal == /\ job'[q].row = job[q].row
                   /\ Executing(q) \/ approval[job[q].row].status = "approved"
<1> SUFFICES Goal
  OBVIOUS
<1> HIDE DEF Goal
<1>0. job \in [Procs -> Job] /\ \A p \in Procs : job[p] \in Job
  BY DEF IInv, TypeOK
<1>1. CASE UNCHANGED job
  BY <1>1 DEF Executing, Goal
<1>2. ASSUME NEW p \in Procs, NEW held, Goto(p, held), held.pc \notin {"dispatch", "succeeded", "errored"}
      PROVE  Goal
  BY <1>0, <1>2 DEF Goto, Executing, Goal
<1>3. ASSUME NEW p \in Procs, NEW held, Goto(p, held), held.row = job[p].row,
             Executing(p) \/ approval[job[p].row].status = "approved"
      PROVE  Goal
  BY <1>0, <1>3 DEF Goto, Executing, Goal
<1>4. \A p \in Procs : Done(p).pc \in {"idle", "next"} /\ Idle.pc = "idle"
  BY DEF Done, Idle
<1>5. ASSUME NEW p \in Users, Create(p) PROVE Goal
  <2>0. p \in Procs
    BY DEF Procs
  <2>1. CASE \E k \in Keys, x \in Payload : CreateRead(p, k, x)
    <3>1. PICK k \in Keys, x \in Payload : CreateRead(p, k, x)
      BY <2>1
    <3> DEFINE start == [Idle EXCEPT !.now = now, !.payload = x, !.key = k]
    <3>2. CASE Goto(p, [start EXCEPT !.pc = "insert"])
      <4>1. [start EXCEPT !.pc = "insert"].pc = "insert"
        BY DEF Idle
      <4> HIDE DEF start
      <4> QED BY <2>0, <3>2, <4>1, <1>2
    <3>3. ASSUME NEW r, NEW step \in {"refresh", "release"}, Goto(p, [start EXCEPT !.pc = step, !.row = r])
          PROVE  Goal
      <4>1. [start EXCEPT !.pc = step, !.row = r].pc = step
        BY DEF Idle
      <4> HIDE DEF start
      <4> QED BY <2>0, <3>3, <4>1, <1>2
    <3> QED BY <3>1, <3>2, <3>3 DEF CreateRead
  <2>2. CASE CreateRefresh(p) \/ CreateInsert(p)
    BY <2>0, <2>2, <1>2, <1>4 DEF CreateRefresh, CreateInsert
  <2>3. CASE CreateRelease(p)
    <3>1. [job[p] EXCEPT !.pc = "insert", !.row = Null].pc = "insert"
      BY <1>0, <2>0 DEF Job
    <3> QED BY <2>0, <2>3, <3>1, <1>2 DEF CreateRelease
  <2> QED BY <1>5, <2>1, <2>2, <2>3 DEF Create
<1>6. ASSUME NEW p \in Users, Decide(p) PROVE Goal
  <2>0. p \in Procs /\ job[p] \in Job
    BY <1>0 DEF Procs
  <2>1. CASE \E r \in Rows : OpenCard(p, r)
    <3>1. PICK r \in Rows : OpenCard(p, r)
      BY <2>1
    <3>2. [Idle EXCEPT !.pc = "card", !.row = r, !.shown = approval[r].payload].pc = "card"
      BY DEF Idle
    <3> QED BY <2>0, <3>1, <3>2, <1>2 DEF OpenCard
  <2>2. CASE DecideReadExpired(p)
    <3>1. [Idle EXCEPT !.pc = "expire", !.row = job[p].row].pc = "expire"
      BY DEF Idle
    <3> QED BY <2>0, <2>2, <3>1, <1>2 DEF DecideReadExpired
  <2>3. CASE DecideReadReject(p)
    <3> DEFINE held == [Idle EXCEPT !.pc = "reject", !.row = job[p].row,
                                    !.seen = approval[job[p].row].status]
    <3>1. held.pc = "reject" /\ Goto(p, held)
      BY <2>3 DEF Idle, DecideReadReject
    <3> HIDE DEF held
    <3> QED BY <2>0, <3>1, <1>2
  <2>4. CASE \E edit \in Payload \cup {Null} : DecideReadApprove(p, edit)
    <3>1. PICK edit \in Payload \cup {Null} : DecideReadApprove(p, edit)
      BY <2>4
    <3> DEFINE held == [job[p] EXCEPT !.pc = "claim", !.now = now, !.payload = edit,
                                      !.shown = IF edit = Null THEN @ ELSE edit]
    <3>2. held.pc = "claim"
      BY <2>0 DEF Job
    <3>3. Goto(p, held)
      BY <3>1 DEF DecideReadApprove
    <3> HIDE DEF held
    <3> QED BY <2>0, <3>2, <3>3, <1>2
  <2>5. CASE DecideExpire(p) \/ DecideReject(p)
    BY <2>0, <2>5, <1>2, <1>4 DEF DecideExpire, DecideReject
  <2>6. CASE DecideClaim(p)
    <3> DEFINE held == [Idle EXCEPT !.pc = "load", !.row = job[p].row, !.now = job[p].now]
    <3>1. held.pc = "load" /\ (Goto(p, held) \/ Goto(p, Idle))
      BY <2>6 DEF Idle, DecideClaim
    <3> HIDE DEF held
    <3> QED BY <2>0, <3>1, <1>2, <1>4
  <2> QED BY <1>6, <2>1, <2>2, <2>3, <2>4, <2>5, <2>6 DEF Decide
<1>7. ASSUME NEW p \in Users, Retry(p) PROVE Goal
  <2>0. p \in Procs /\ job[p] \in Job
    BY <1>0 DEF Procs
  <2>1. CASE RetryRead(p)
    <3> DEFINE start == [Idle EXCEPT !.row = job[p].row, !.now = now]
    <3>1. ASSUME NEW step \in {"reopen", "load"}, Goto(p, [start EXCEPT !.pc = step]) PROVE Goal
      <4>1. [start EXCEPT !.pc = step].pc = step
        BY DEF Idle
      <4> HIDE DEF start
      <4> QED BY <2>0, <3>1, <4>1, <1>2
    <3> QED BY <2>1, <3>1 DEF RetryRead
  <2>2. CASE RetryReopen(p)
    <3>1. [job[p] EXCEPT !.pc = "load"].pc = "load"
      BY <2>0 DEF Job
    <3> QED BY <2>0, <2>2, <3>1, <1>2 DEF RetryReopen
  <2> QED BY <1>7, <2>1, <2>2 DEF Retry
<1>8. ASSUME NEW p \in Procs, Execute(p) PROVE Goal
  <2>0. job[p] \in Job
    BY <1>0
  <2>1. CASE ExecLoad(p)
    <3> DEFINE r == job[p].row
               held == [job[p] EXCEPT !.pc = "lock", !.seen = approval[r].status,
                          !.payload = approval[r].payload, !.attempts = approval[r].attempts]
    <3>1. held.pc = "lock"
      BY <2>0 DEF Job
    <3>2. Goto(p, held) \/ Goto(p, Done(p))
      BY <2>1 DEF ExecLoad
    <3> HIDE DEF held
    <3> QED BY <3>1, <3>2, <1>2, <1>4
  <2>2. CASE ExecLock(p)
    <3> DEFINE held == [job[p] EXCEPT !.pc = "dispatch", !.tries = 1]
    <3>1. held.row = job[p].row
      BY <2>0 DEF Job
    <3>2. job[p].seen = "approved"
      BY <2>2 DEF IInv, JobInv, ExecLock, At
    <3>3. \/ approval[job[p].row].status = "approved" /\ Goto(p, held)
          \/ Goto(p, Done(p))
      BY <2>2, <3>2 DEF ExecLock
    <3> HIDE DEF held
    <3> QED BY <3>1, <3>3, <1>2, <1>3, <1>4
  <2>3. CASE DispatchRefused(p) \/ DispatchOk(p) \/ DispatchRetryable(p) \/ DispatchFatal(p)
    <3>1. Executing(p)
      BY <2>3 DEF DispatchRefused, DispatchOk, DispatchRetryable, DispatchFatal, At, Executing
    <3>2. ASSUME NEW canRetry, Errored(p, canRetry) PROVE Goal
      <4>1. [job[p] EXCEPT !.pc = "errored", !.retryable = canRetry].row = job[p].row
        BY <2>0 DEF Job
      <4> QED BY <3>1, <3>2, <4>1, <1>3 DEF Errored
    <3>3. /\ [job[p] EXCEPT !.pc = "succeeded"].row = job[p].row
          /\ [job[p] EXCEPT !.tries = @ + 1].row = job[p].row
      BY <2>0 DEF Job
    <3>4. \/ \E canRetry \in BOOLEAN : Errored(p, canRetry)
          \/ Goto(p, [job[p] EXCEPT !.pc = "succeeded"])
          \/ Goto(p, [job[p] EXCEPT !.tries = @ + 1])
      BY <2>3 DEF DispatchRefused, DispatchOk, DispatchRetryable, DispatchFatal
    <3> QED BY <3>1, <3>2, <3>3, <3>4, <1>3
  <2>4. CASE ExecSettle(p)
    BY <2>4, <1>2, <1>4 DEF ExecSettle
  <2> QED BY <1>8, <2>1, <2>2, <2>3, <2>4 DEF Execute
<1>9. ASSUME NEW p \in Procs, Abort(p) PROVE Goal
  BY <1>2, <1>4, <1>9 DEF Abort
<1>10. ASSUME NEW c \in Crons, Sweep(c) PROVE Goal
  <2>0. c \in Procs /\ job[c] \in Job
    BY <1>0 DEF Procs
  <2>1. CASE CronSweep(c)
    <3>1. [Idle EXCEPT !.pc = "list", !.now = now].pc = "list"
      BY DEF Idle
    <3> QED BY <2>0, <2>1, <3>1, <1>2 DEF CronSweep
  <2>2. CASE CronList(c)
    <3>1. PICK batch : Goto(c, [job[c] EXCEPT !.pc = "next", !.queue = batch])
      BY <2>2 DEF CronList
    <3>2. [job[c] EXCEPT !.pc = "next", !.queue = batch].pc = "next"
      BY <2>0 DEF Job
    <3> QED BY <2>0, <3>1, <3>2, <1>2
  <2>3. CASE CronNext(c)
    <3>1. ASSUME NEW r, Goto(c, [job[c] EXCEPT !.pc = "load", !.row = r, !.queue = @ \ {r}])
          PROVE  Goal
      <4>1. [job[c] EXCEPT !.pc = "load", !.row = r, !.queue = @ \ {r}].pc = "load"
        BY <2>0 DEF Job
      <4> QED BY <2>0, <3>1, <4>1, <1>2
    <3> QED BY <2>0, <2>3, <3>1, <1>2, <1>4 DEF CronNext
  <2>4. CASE CronSkip(c)
    BY <2>0, <2>4, <1>2, <1>4 DEF CronSkip
  <2> QED BY <1>10, <2>1, <2>2, <2>3, <2>4 DEF Sweep
<1>11. CASE UNCHANGED vars \/ Tick \/ \E r \in Rows : LateEffect(r)
  BY <1>1, <1>11 DEF vars, Tick, LateEffect
<1> QED BY <1>5, <1>6, <1>7, <1>8, <1>9, <1>10, <1>11 DEF Next

LEMMA OrphanRow ==
  ASSUME IInv, [Next]_vars, NEW r \in Rows, Orphaned(r)
  PROVE  approval'[r] = approval[r]
<1>0. approval \in [Rows -> Stored] /\ approval[r].status = "executing" /\ Exists(r) /\ ~Terminal(r)
  BY DEF IInv, TypeOK, Orphaned, Exists, Terminal, IsTerminal, Transitions
<1>1. ASSUME NEW p \in Users, Create(p) PROVE approval'[r] = approval[r]
  <2>1. CASE CreateRefresh(p)
    BY <1>0, <2>1 DEF CreateRefresh, UpdateWhere
  <2>2. CASE CreateRelease(p)
    <3>1. Terminal(job[p].row)
      BY <2>2 DEF IInv, JobInv, CreateRelease, At, Procs
    <3>2. job[p].row # r
      BY <1>0, <3>1
    <3> QED BY <1>0, <2>2, <3>2 DEF CreateRelease, UpdateWhere
  <2>3. CASE CreateInsert(p)
    BY <1>0, <2>3 DEF CreateInsert
  <2> QED BY <1>1, <2>1, <2>2, <2>3 DEF Create, CreateRead
<1>2. ASSUME NEW p \in Users, Decide(p) PROVE approval'[r] = approval[r]
  <2>1. CASE DecideExpire(p) \/ DecideReject(p)
    <3>1. PICK verdict \in {"rejected", "expired"}, matches \in BOOLEAN :
            UpdateWhere(job[p].row, matches, [approval[job[p].row] EXCEPT !.status = verdict])
      BY <2>1 DEF DecideExpire, DecideReject
    <3> DEFINE new == [approval[r] EXCEPT !.status = verdict]
    <3>2. new.status = verdict
      BY <1>0 DEF Stored
    <3>3. ~TriggerAllows("executing", verdict)
      BY DEF TriggerAllows, CanTransition, Transitions
    <3>4. CASE job[p].row = r
      <4> HIDE DEF new
      <4>1. UpdateWhere(r, matches, new)
        BY <3>1, <3>4 DEF new
      <4> QED BY <1>0, <3>2, <3>3, <4>1 DEF UpdateWhere
    <3>5. CASE job[p].row # r
      BY <1>0, <3>1, <3>5 DEF UpdateWhere
    <3> QED BY <3>4, <3>5
  <2>2. CASE DecideClaim(p)
    BY <1>0, <2>2 DEF DecideClaim, UpdateWhere
  <2> QED BY <1>2, <2>1, <2>2 DEF Decide, OpenCard, DecideReadExpired, DecideReadReject,
             DecideReadApprove
<1>3. ASSUME NEW p \in Users, Retry(p) PROVE approval'[r] = approval[r]
  BY <1>0, <1>3 DEF Retry, RetryRead, RetryReopen, UpdateWhere
<1>4. ASSUME NEW p \in Procs, Execute(p) PROVE approval'[r] = approval[r]
  <2>1. CASE ExecLock(p)
    <3>1. job[p].seen = "approved"
      BY <2>1 DEF IInv, JobInv, ExecLock, At
    <3> QED BY <1>0, <2>1, <3>1 DEF ExecLock, UpdateWhere
  <2>2. CASE ExecSettle(p)
    <3>1. job[p].row # r
      BY <2>2 DEF Orphaned, ExecSettle, At, Executing
    <3> QED BY <1>0, <2>2, <3>1 DEF ExecSettle, UpdateWhere
  <2> QED BY <1>4, <2>1, <2>2 DEF Execute, ExecLoad, DispatchRefused, DispatchOk,
             DispatchRetryable, DispatchFatal
<1>5. ASSUME NEW c \in Crons, Sweep(c) PROVE approval'[r] = approval[r]
  BY <1>0, <1>5 DEF Sweep, CronSweep, CronList, CronNext, CronSkip
<1>6. CASE \/ UNCHANGED vars \/ Tick
           \/ \E p \in Procs : Abort(p)
           \/ \E s \in Rows : LateEffect(s)
  BY <1>6 DEF vars, Tick, Abort, LateEffect
<1> QED BY <1>1, <1>2, <1>3, <1>4, <1>5, <1>6 DEF Next

\* No step of any invocation touches the row of an execution that died, whatever it
\* read before the row was locked, and nothing more is sent for it.
THEOREM OrphanStaysInert == Spec => OrphanIsInert
<1> DEFINE Inert ==
      \A r \in Rows : Orphaned(r) => Orphaned(r)' /\ approval'[r] = approval[r] /\ Quiet(r)
<1>1. ASSUME IInv, [Next]_vars PROVE Inert
  <2> SUFFICES ASSUME NEW r \in Rows, Orphaned(r)
               PROVE  Orphaned(r)' /\ approval'[r] = approval[r] /\ Quiet(r)
    OBVIOUS
  <2>1. approval'[r] = approval[r]
    BY <1>1, OrphanRow
  <2>2. Quiet(r)
    BY <1>1, ProviderQuiet DEF Orphaned
  <2>3. ASSUME NEW q \in Procs, Executing(q)' PROVE job'[q].row # r
    BY <1>1, <2>3, ExecutorsAreNotMade DEF Orphaned
  <2> QED BY <2>1, <2>2, <2>3 DEF Orphaned
<1>2. IInv /\ [Next]_vars => [Inert]_vars
  BY <1>1
<1> HIDE DEF Inert
<1>3. Spec => [][Inert]_vars
  BY <1>2, Invariance, PTL DEF Spec
<1> QED BY <1>3 DEF OrphanIsInert, Inert
=============================================================================
