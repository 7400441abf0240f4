# Formal models of Dijital Asistan

TLA+ models of the protocols of Dijital Asistan that are easy to get wrong and
hard to test, the TLC runs that check them on small instances, and TLAPS proofs
that carry the main results to instances of any size.

Dijital Asistan is a personal assistant: it reads a user's mail, calendar and
tasks, prepares briefings, reminders and drafts, and acts on the user's behalf
only after the user has approved the action. The repository is a TypeScript
monorepo with a Postgres database behind it. Everything here is translated from
the code; where a comment, a document or a message in the repository says
something else, section 11 says so, with a run or in words.

Contents: [1 files](#1-files) · [2 the system](#2-the-system) ·
[3 approvals](#3-the-approval-gate) · [4 support access](#4-support-access) ·
[5 notifications](#5-notifications) · [6 admin roster](#6-the-admin-roster) ·
[7 mail sync](#7-mail-sync) · [8 connections](#8-connections) · [9 prompts](#9-prompt-versions) ·
[10 runs and bounds](#10-runs-and-bounds) · [11 divergences](#11-where-code-and-documentation-part) ·
[12 proofs](#12-proofs) · [13 not modelled](#13-what-is-not-modelled) · [14 plan](#14-plan)

## 1 Files

| module | what it is |
| --- | --- |
| `ApprovalRules` | the pure rules of an approval: status machine, TTL, retry budget, edit check (`packages/domain/src/approval.ts`) |
| `ApprovalMachine` | the abstract specification of the approval gate: no invocations, no reads, no races |
| `Approvals` | the gate in detail: four edge functions, the executor, the table with its index and trigger, the provider |
| `GrantLedger` | the abstract specification of Support Access: grants decided in one step, reads, two logs; no calls, no locks |
| `SupportAccess` | an operator's temporary access to a user's content: grants, reveals, the sweep, the audit trail |
| `Outbox` | the abstract specification of the push sender: a message is claimed, and the claim is used, refused or let go once |
| `Notifications` | the scheduler's sweep, the sender, device tokens, reminders and meetings |
| `Roster` | the abstract specification of the roster: standings change one at a time and the last super_admin stays. `AdminRoster` implements it, `SupportAccess` is built on it |
| `AdminRoster` | operators, their sessions, and the trigger that keeps one super_admin |
| `Inbox` | the abstract specification of reading a mailbox: stored or passed over, one turn to be analysed, a cursor that covers |
| `MailSync` | overlapping runs over one Gmail mailbox: cursor, pages, storing, analysing |
| `Links` | the abstract specification of connected accounts: a consent spent once, a mailbox for life, grants of its own |
| `Connections` | consents, connected accounts, tokens, refresh and disconnect, under key rotation |
| `Shelf` | the abstract specification of prompt versions: what a feature that asks for its prompt may assume |
| `Prompts` | the console's prompt versions: draft, edit, swap, archive |
| `*Proofs` | one per detailed module: its inductive invariant, safety theorems, action properties, the refinement of its abstract specification |
| `PromisesProofs` | what each abstract specification gives by itself, whatever implements it |
| `MC*` | one per module: symmetry sets and constants for TLC |

Each `.cfg` is one run; `PROJECT.json` lists runs, mutants, the map from
definitions to source lines, findings, hazards and theorems. To repeat a run:
`tlc -config ApprovalRace.cfg MCApprovals`; to repeat the proofs:
`tlapm ApprovalsProofs.tla`.

Definitions whose comment starts with "Mutant:" are not part of any next-state
relation. Each is a plausible bug in the definition that follows it; substituted
for it, a named property must fail. They show the properties are about the code.

## 2 The system

```
 mobile app ──── edge functions (48) ───┬── Postgres (tables, triggers, RLS)
   (Expo)           │    ▲              │        ▲          │ pg_cron
                    │    └──────────────┼────────┼──────────┘ jobs
                    ▼                   │        │
         Google / Microsoft APIs,       │   back-office console (Next.js)
         push, RevenueCat               │        operators, 24 h grants
```

A user request is one HTTP call of an edge function. An edge function keeps no
state between calls: it reads rows, calls a provider, writes rows, and each of
those is its own request over the network. There is no transaction around
them. Two calls for the same user may run on two machines at the same time, a
cron job may call the same code, and the platform may kill any of them.
Everything that must hold across calls therefore hangs on single-statement
conditional UPDATEs, unique indexes and triggers. The console is a Next.js server
whose actions work the same way against Postgres, with one difference: some of
its database functions run several statements in one transaction.

### 2.1 Components

**Approval gate** — *section 3.* State: `approval_actions` (status,
payload, original payload, idempotency key, attempts, next attempt, expiry).
Operations: propose (`approval-create`), approve, edit or reject
(`approval-decide`), retry (`approval-retry`), sweep and re-execute
(`approvals-expire`), execute (`_shared/executor.ts` through `_shared/http.ts`).
Talks to the providers, to the audit trail and, through the row, to every other
function that proposes something. Hard: two devices and the cron racing for a
row; a provider's answer that is lost or late; a call dying between the lock
and its outcome; rows rewritten between what was read and what is written.
Correct when: one executor at a time, nothing is sent but what was approved,
`executed` means sent, a closed row stays closed, one live proposal per action,
nothing waits forever.

**Support access and the action runner** — *section 4.* State:
`support_access_grants`, `support_access_reveals`, the audit rows of the
console. Operations: request, approve, deny, revoke, reveal, hourly sweep; all
through `runAdminAction` (permission, work, audit). Hard: two operators decide at
once; a grant ends between being asserted and being used; the audit row is
written apart from the work. Correct when: content is seen only under a live
grant that somebody else approved and is accounted for twice; a pair has one
active grant; closed grants are evidence and stay as they are.

**Admin roster, sessions and invites** — *section 6; invites are left out.* State:
`admin_users`, `admin_sessions`, `admin_invites`, `admin_roles`. Operations:
sign in, invite, accept, change a role, disable, reopen, revoke sessions. A
trigger keeps one enabled super_admin and takes an advisory lock to count. Hard:
two demotions at once; disabling an operator in two steps (the account, then
its sessions); a status derived from a read of a call earlier; deletion of the auth
user behind an operator. Correct when: the console always has a super_admin; who is
active can sign in; an ended session stays ended. Support Access sees the roster as
its environment (`Revise`).

**Console content** — *prompt versions in section 9, the rest not modelled.* Flags
and overrides, prompt versions, announcements, tickets and notes, entitlement
grants, health checks, through the runner that Support Access models. All but the
prompts are one-row edits by one operator. Hard: replacing the active prompt takes
two statements and two operators may do it at once. Correct when: one active version
per feature, and a lost race never leaves a feature without one.

**Console reading side** — *not modelled.* Queries, views and pages; no state.

**Connected accounts and OAuth tokens** — *section 8.* State:
`connected_accounts`, `oauth_credentials` (sealed, with key versions),
`oauth_states` (single-use). Operations: start and complete a consent, get a
valid token (refreshing it), disconnect. Used by the executor and the sync. Hard:
two refreshes of one account; a disconnect during a refresh or a consent; the
redirect delivered twice; the user signing into another mailbox than was meant; key
rotation one token at a time. Correct when: a consent is bound once; a row holds
tokens of its own mailbox only; nothing is left of a disconnected account; one
primary account; what is stored can be opened.

**Mail, calendar and task sync** — *section 7, the Gmail side.* State:
`sync_states` (cursor, failure count), `email_threads`, `email_messages`,
`calendar_events`, `tasks`. Operations: sync per account (`sync-start`), the first
analysis. Hard: two runs with the same
cursor, a cursor moving past messages not read, a run that dies half-way. Correct
when: what the cursor has passed was stored or knowingly given up; a message is
analysed once; new mail gets in.

**Push, reminders and the scheduler** — *section 5.* State:
`reminders`, `notification_deliveries` (one row per claimed delivery),
`push_tokens`, preferences. Operations: the sweep every 5 minutes (briefings,
reminders, meetings), sending under quiet hours, registering a phone, creating and
cancelling a reminder. Hard: overlapping sweeps; a claim whose sender died; a lost
answer of the provider; one failure ending a sweep. Correct when: at most one
delivery per occasion, marks that tell the truth, and no reminder that blocks
every later sweep.

**Briefings** — *not modelled, planned.* State: `briefings`, `briefing_items`.
Three callers (`briefing-generate`, the scheduler, the first analysis) upsert the
row, delete its items and insert new ones in three calls. Correct when: a ready
briefing has exactly the items of one generation.

**Follow-ups** — *not modelled, planned.* State: `follow_ups`. The hourly sweep
opens and closes threads by id, the user snoozes, dismisses and nudges. Correct
when: the sweep never reopens what the user closed, and no dismissal is lost.

**Captures and uploads** — *not modelled.* State: `captures`, storage objects. A
call inserts a row as `analyzing`, extracts, updates it; transcription likewise.

**Assistant, search and memory** — *not modelled.* Threads, messages and memory
chunks; prompting and ranking.

**Planning and priorities** — *not modelled.* Scores, triage and date extraction:
pure functions with unit tests, whose inputs are natural language.

**Entitlements, limits and billing** — *not modelled, planned.* State:
`subscriptions`, `ai_usage_events`, `rate_limit_counters`. Two writers of a
subscription: the store's webhook and a refresh the app asks for. Hard: store
events out of order, a refresh overtaken by an event, budgets checked long
before they are spent. Correct when: the stored state is the store's newest.

**Referral** — *not modelled, planned.* State: `referrals`, `referral_credits`.
Correct when: a redemption credits both sides once, and the referrer's limit
holds.

**Privacy: export, deletion, retention** — *not modelled, planned.* Export to a
signed link, account deletion across tokens, storage and the auth user, nightly
retention. Correct when: nothing of a deleted user survives, whatever ran beside
the deletion, and a failed deletion can be resumed.

**Profile and preferences** — *not modelled.* Rows written by their owner alone.

**Row-level security and SQL helpers** — *partly modelled.* The transition
trigger of approvals, the sweep that expires them and its cron job are actions of
`Approvals`; the indexes, constraints and triggers other modules rest on are part of those
modules. Policies, search functions and rate limiting are not modelled.

**Mobile client** — *not modelled as a component.* It appears as the free choices
of the user (which card is open, for how long, what is tapped) and, in `Notifications`, as the
phone with its token and what it remembers of registering.

**Marketing site, design tokens, translations, validation schemas**;
**build, checks and tests** — *not modelled.* No protocol.

### 2.2 How they interact

* `approval-decide`, `approval-retry` and `approvals-expire` call the executor in
  process; each reaches it with a row id and nothing else, so all they share is
  the row. The executor calls token refresh (OAuth) and the providers.
* pg_cron starts: sync every 15 minutes (a call that is refused, section 11), the
  scheduler every 5, follow-up detection hourly, approval expiry every 10, retention and export clean-up daily,
  console clean-up hourly. A slow run may overlap the next one.
* The scheduler is the only caller of push; it also generates briefings, beside
  `briefing-generate` and the first analysis.
* The console reads users' content only through Support Access. Its actions read
  the roster at the start of a call and rely on it until the end.
* Deleting a user cascades through almost every table while other calls for that
  user may be running.

## 3 The approval gate

### 3.1 State and code

| `Approvals` | code |
| --- | --- |
| `approval[r]` | a row of `approval_actions`: `status`, base key and `released` (the key was rewritten so that the base key is free), `payload`, `original` = `original_payload`, `expires` = `expires_at`, `attempts` = `attempt_count`, `due` = `next_attempt_at` |
| `job[p]` | a running invocation: `pc` names its next database or provider call, the rest is what its local variables hold |
| `consent[r]` | history: the payload the approving user had on screen or typed |
| `effects`, `sent`, `late` | the provider: how often it acted for a row, with which payloads, and what it holds of requests the executor gave up on |
| `now` | wall clock in ticks |

A payload is a pair: `text`, the fields the review card lets the user change, and
`fixed`, all others. Nothing in the gate tells more apart. Keys are model values.
What the code logs, shows, or stores without ever reading it back is left out.

Granularity: one action per call to the database or to a provider. A handler is
interrupted exactly where it awaits. Between two calls only `job[p]` remembers;
so every stale read of the code is a stale read of the model. An UPDATE with a
filter is one action that reads and writes the row (Postgres locks it), and
matching zero rows is a branch of it.

| actions | handler |
| --- | --- |
| `CreateRead`, `CreateRefresh`, `CreateRelease`, `CreateInsert` | `approval-create`: look the key up; refresh a pending row; or release the key of a closed row, then insert; the loser on the unique index returns the winner's row |
| `OpenCard` | the app fetches a row and shows it |
| `DecideReadExpired`, `DecideReadReject`, `DecideReadApprove`, `DecideExpire`, `DecideReject`, `DecideClaim` | `approval-decide`: one read, then expire, reject or claim; a claim goes on into the executor |
| `RetryRead`, `RetryReopen` | `approval-retry` |
| `ExecLoad`, `ExecLock`, `Dispatch*`, `ExecSettle` | `executeApproval`: load, conditional lock, provider call with `withRetry`, outcome written by id |
| `CronSweep`, `CronList`, `CronNext`, `CronSkip` | `approvals-expire`: `expire_stale_approvals`, the due-retries query, one row after another |
| `LateEffect` | the provider completes a request nobody waits for any more |
| `Abort` | the invocation dies, or a call fails and the handler throws |
| `Tick` | time passes |

The closing UPDATE of the executor may fail without anybody noticing (supabase-js
returns the error in a result that is not looked at): `ExecSettle` chooses whether
it was written. A provider call may take effect and be reported as an error, may
fail without effect, or may be given up while still under way.

### 3.2 What it promises

* `SingleExecutor`: at most one invocation is between the lock and the outcome of
  a row, and the row says `executing` all that time. The outcome is written by id
  with no filter; this is why that is safe.
* `SentAsApproved`: what the provider acted on, or still may, belongs to a decided
  row and is the payload the row holds, across refreshes, edits and re-executions.
* `ExecutedWasSent`: `executed` is said only of what the provider did.
* `OneLivePerKey`: two proposals in play never share a key, although lookup, release
  and insert are separate calls.
* `TerminalIsFinal` (action): an executed, rejected or expired row keeps status and
  payload and no new request leaves for it.
* `OrphanIsInert` (action): a row whose executor died, or could not write the outcome, is never taken up again:
  no retry, sweep, decision or second cron run touches it and nothing more is sent for it, whatever they read
  before it was locked. This is what makes the silence of section 11 (such a row stays `executing`) the safe side.
* `ImplementsMachine`: the gate implements `ApprovalMachine`, with
  `status <- StatusOf`, `payload <- PayloadOf`, `held <- late`, `sent` as is. That
  module has nine steps and no invocation: a reader of the table and of the
  provider sees one legal transition at a time.
* `SweptInTime` (liveness): a pending row past its expiry does not stay pending, and
  an approved row does not stay approved, even if the invocation that approved it died.

## 4 Support access

### 4.1 State and code

| `SupportAccess` | code |
| --- | --- |
| `role[a]` | `admin_users`: one of the roles the three permissions tell apart (`super_admin`, `operations`, `support`, `other`) or `disabled` |
| `grant[g]` | a row of `support_access_grants`: status, holder, subject, scopes, requested, approver, granted, expires |
| `call[p]` | a running server action: next statement, who calls, on which grant, the clock it read |
| `reveals` | `support_access_reveals`, what was looked at under which grant |
| `trail` | successful rows of `audit_logs` |
| `seen` | history: what reached an operator's screen |
| `now` | wall clock in ticks |

`runAdminAction` does three things for every action: reads the permission
(`Start`), does the work, writes the audit row (`Audit`). They are separate calls
to the database. Work that is one statement is one action (`RequestInsert`,
`Approve`, `Deny`, `Revoke`, `Cleanup`); a refusal by filter, four-eyes check or
index ends the call (`ApproveRefused`, `ApproveConflict`). The four-eyes check
compares the approver with the holder.

A reveal is a transaction of several statements: `RevealAssert` reads the grant
without locking it; `RevealLog` inserts into the reveal log, whose trigger takes
the grant's row FOR UPDATE and asks again; `RevealCommit` commits. Between the last
two the row is `Locked`, and every statement that would update it waits (its action
is not enabled). Its clock is `now()` of the transaction, fixed at its start. `Abort`
is a dying process, and a transaction not committed leaves nothing.

`Revise` is the environment: a step of `Roster`, the abstract specification that `AdminRoster` implements. Operators
change role, are disabled and reopened at any moment, with one enabled super_admin left. `disabled` is the standing
of every account that is not active.

### 4.2 What it promises

* `SeenIsAccounted`: what an operator saw stands under a grant of theirs, for a scope
  it names, approved by somebody else, with a row in the reveal log and one in the
  audit trail, whatever failed or died on the way.
* `RevealedWhileLive` (action): content leaves the database only while its grant is
  active and inside its window: a revocation or sweep that has answered has taken effect.
* `OneActive`: never two active grants of one operator for one user, however many
  approvals race.
* `ImplementsLedger`: the calls implement `GrantLedger` with `open <- Opened`, the reads that reveals have logged
  and not committed. To somebody who looks at the grants, the two logs and the screens, a grant is
  asked for, decided by somebody else and closed once, each in one step, a read happens in one step while the
  grant is active, and a log never says what has not happened. No call, permission read or lock is left.
* `LapsedIsClosed` (liveness): a lapsed grant does not read `active` forever, although
  reveal after reveal may lock its row.

## 5 Notifications

### 5.1 State and code

| `Notifications` | code |
| --- | --- |
| `sweep[w]` | a run of `notification-scheduler`: phase, next call, the clock it read at its start, what its last select gave it, the message in hand and the token rows it read |
| `delivery[k]` | a row of `notification_deliveries`, by dedupe key (`unique (user_id, dedupe_key)`) |
| `reminder[r]`, `meeting[m]` | rows of `reminders` and `calendar_events`, as far as the sweep reads them |
| `tokenRow[d]` | `push_tokens`, by device id: the token and whether it is disabled |
| `phone` | the phone: its live token, the id it gave itself, the token it remembers having registered |
| `settings` | `notification_preferences`: what is off and when it is quiet |
| `handed`, `shown`, `hushed`, `unread` | history: what the provider took, what the phone showed, which reminders a sweep held back, and which it passed over because it could not read the profile |

One action per call. `Start`, `SelectReminders`, `SelectMeetings`, `Finish` are the three loops of
the sweep; `LoadSettings`, `Claim`, `LoadTokens`, `Post*`, `DisableToken`, `MarkSent` are
`sendPush`; `Fire` is the scheduler's mark of a reminder. A throw is caught for a briefing and
ends the sweep for anything else (`Threw`). An UPDATE whose error nobody looks at chooses whether it
was written (`Attempted`, `Missed`). The provider may take a message and its answer be lost
(`PostThrew`). `Die`, `CallFails` and `ProfileUnread` are faults: `loadSettings` makes two reads and looks at
the error of one. When the preferences cannot be read it throws (`SettingsUnread`, in `CallFails`); when the profile cannot,
`sendPush` answers `no_tokens` before any claim, and the sweep is done with the message. The phone registers a token once, as far as it
remembers; signing out wipes what it remembers and the server hears nothing.

### 5.2 What it promises

* `ImplementsOutbox`: overlapping, dying and retried sweeps implement `Outbox` with `open <- Open`, the
  messages whose claim some sweep may still use. A claim is made once and never given back; it is used by one hand-over,
  refused, or let go (no token, a throw, a death), and is not open again; `sent` is only written of what was handed
  over, `failed` only of what was not.
* `MarksAreTrue`: `sent` means handed over once, `failed` means not at all, whichever sweep wrote the mark.
* `ShownOnce`: a phone with a stable id shows a message once, through any change of token or user.
* `FiredHadItsMoment`: a reminder marked `fired` was due, and `sendPush` answered for it: its delivery was
  claimed, the settings held it back, or the profile could not be read and it was taken for one without devices
  (section 11). A send that threw ends the sweep before the mark, so a later one marks only
  what it answered for or found claimed.
* `CancelledStays` (action): a reminder cancelled before a sweep picked it up is never picked up, sent
  or overwritten. (One cancelled later is: see section 11.)
* `RemindersLeave` (liveness): a due reminder does not stay in the way of the sweeps for ever, even if
  the provider never answers: its claim makes the next sweep pass over it.

## 6 The admin roster

### 6.1 State and code

| `AdminRoster` | code |
| --- | --- |
| `admin[a]` | a row of `admin_users`: role, status, whether `user_id` names a login |
| `session[s]` | a row of `admin_sessions`: owner, idle and hard deadline, revoked |
| `floor` | who holds the advisory lock of `admin_users_protect_last_super_admin` |
| `call[p]` | a running server action: next statement, who acts, on whom, what it is going to write |

A sign-in is two calls (`Resolve`, then `Issue`, which does not ask again). A request touches its session
(`Touch`, one statement), reads its permission (`Authorize`) and asks again at the moment of
acting (`Ask`). An UPDATE that takes a super_admin away is a transaction in steps: it locks
its row and waits for the lock (`Update`, `TakeFloor`), counts the others as committed by then (`Count`) and
commits (`Commit`). Closing an account and ending its sessions are two calls (`Disable`, `Evict`), so are
reading a login's binding and reopening the account with the status derived from it (`ReadBinding`,
`Reopen`). `EraseLogin` is the cascade of a deleted auth user. `Abort` is refusal, failure or
death: a transaction is rolled back and its lock goes.

### 6.2 What it promises

* `FloorHolds`: an enabled super_admin always remains, whoever demotes and disables whom at once.
* `ActiveIsBound`: an active operator has a login, although a reopening writes what an
  earlier read implied.
* `ImplementsRoster`: to everybody else a removal, with its row lock, its advisory lock, its count and its commit,
  takes one step and is a step of `Roster`; so are reopenings and promotions. `role <- Standings`, and `OtherRoles`
  are the roles below super_admin, of which nothing else is told apart.
* `OverStaysOver` (action): a session that was revoked or ran past a deadline gets no later deadline and
  keeps its revocation, whatever request arrives with it.
* `FloorIsGivenBack` (liveness): whoever holds the lock gives it back.

## 7 Mail sync

### 7.1 State and code

| `MailSync` | code |
| --- | --- |
| `arrived` | the mailbox: messages are numbered as they arrive, which is also Gmail's history id |
| `cursor` | `sync_states.cursor` |
| `stored`, `analysed` | `email_messages`, and how often each was analysed |
| `run[r]` | an invocation of `syncMail`: the cursor it read, the one it will save, the ids to fetch, the messages it stored |
| `listed`, `given` | history: up to where the mailbox was listed in full; what a run read of and gave up |

`Begin` reads the cursor. `FetchHistory` asks for what came since and keeps a page of it; `ListMessages` and
`GetProfile` are the full list, taken when there is no cursor or the provider has forgotten it.
`GetMessages`, `Store`, `StoreFails` and `Analyse` go message by message; one failure does not stop the
rest. `Save` writes the cursor over whatever another run wrote, and nobody looks at whether it was
written. `GiveUp` is an exception or a death. Nothing keeps two runs from one account.

### 7.2 What it promises

* `CursorCovers`: nothing is lost between two runs. A message the cursor has passed is stored, or was
  in the mailbox when it was last listed in full, or was given up by a run that read of it.
* `AnalysedOnce`: runs that read a message together or again analyse it once.
* `ImplementsInbox`: overlapping runs that die, lose writes and overwrite each other's cursor implement `Inbox`
  with `waiting <- Waiting`, the messages some run has stored and not come to analyse. A message gets its turn from
  the run that stored it, once; the turn may be lost and never returns; a save moves the cursor to where everything
  was dealt with, back, or to the end of a full list.
* `CutsOnlyFullPages` (action, proved only): a history answer is cut only when the page is full, and what is
  cut is younger than everything the run takes.
* `NewMailGetsIn` (liveness): as long as syncs are asked for, a message that arrives after the first list is
  stored, given up or covered by a later list. The premise is part of the property: section 11 says why
  nothing in the code can be assumed to start a run.

`given` and `listed` are where the code gives something up: the properties say exactly how much is
lost, and section 11 where the repository promises more.

## 8 Connections

### 8.1 State and code

| `Connections` | code |
| --- | --- |
| `state`, `names` | `oauth_states`: open or gone, and the account a consent is to widen |
| `picked`, `live` | the provider: the mailbox the user signed into, and the grants it honours |
| `account[a]` | `connected_accounts`: mailbox, status, primary |
| `credential[a]` | `oauth_credentials`: two sealed tokens, each with the grant it belongs to, the key it was sealed with and the version written beside it |
| `key` | `OAUTH_ENCRYPTION_KEY_VERSION` |
| `call[p]` | an invocation of `oauth-complete`, `getAccessToken` or `accounts-disconnect` and its locals |
| `bound`, `used` | history: how often each consent was bound; ids that were taken |

`oauth-start` is `Start`; `oauth-complete` is `Consume` (a DELETE that returns its row), `Exchange`, `Lookup`,
`Total`, `Upsert`, `StoreTokens`; a refresh is `Begin`, `Load`, `Ask`, `Keep`, `Mark`; a disconnect is
`Disconnect`, `Revoke`, `Recall`, `Forget`, `Unlink`, `Delete`. Key rotation, withdrawal of a grant by its
owner and the end of an access token happen at any moment.

### 8.2 What it promises

* `TokensMatch`: a row only ever holds tokens of its own mailbox. Here the identity check, the upsert
  and the id the tokens are stored under are three calls, with disconnects and reconnects between them.
* `NothingLeftBehind`: no credentials and no open consent outlive their account, whatever refresh or
  consent was under way.
* `OnePrimary`: first accounts connected together do not both become the primary one.
* `ImplementsLinks`: the calls implement `Links`, with `spent <-` the consents bound to an account and `held <-` the
  grants whose tokens a row holds. A consent is spent once, on the mailbox it was given for (`BoundOnce` is the part of
  it about the redirect that arrives twice), an account keeps its mailbox for life, holds only grants given for it, and
  goes together with them.
* `Readable`: every stored token can be opened with the version written beside it, through rotations and
  refreshes that replace only one of the two.

## 9 Prompt versions

### 9.1 State and code

| `Prompts` | code |
| --- | --- |
| `prompt[v]` | a row of `prompt_versions`: feature, number, status, text; rows are never deleted |
| `call[c]` | a running server action: its next statement and what it read |
| `retired` | history: versions an operator archived |
| `bare` | history: features whose lack of a live version is accounted for |

`CreateBegin` reads the next number, `Insert` uses it. Activating is `ActivateBegin`, `LoadActive`, then the
swap: `Demote` archives the outgoing version, `Promote` makes the draft active; if the draft has moved
meanwhile, `PromoteMissed` goes on to `Restore`, which puts the outgoing version back. `MakeActive` is either
UPDATE as the unique index takes or refuses it. `ArchiveBegin` and `Archive` are the other way out.
`Edit` is one conditional UPDATE. `GiveUp` is a failing statement or a death.

### 9.2 What it promises

* `NeverLeftWithout`: a lost race costs an error message and never the prompt. A served feature stays
  served unless its version is just being replaced, an operator archived it, or an action died
  in the middle of the swap.
* `RetiredStays`: what an operator archived never serves again, although `Restore` reactivates archived rows.
* `NumbersRunOn`: the numbers of a feature have no gap and no repeat.
* `ImplementsShelf`: the actions implement `Shelf` with `shelf <- Shelved`, where a version archived in the middle of
  a swap reads `down`. To a feature that asks for its prompt a swap is two steps: taken down, replaced; or it is put
  back, or the feature is known to be bare. `ServedTextIsFixed`, that what has left the drafts keeps text, number and
  feature whatever form was still open, is part of it and has a theorem of its own.

`PromptsProofs` also shows `OneLive` (the index makes TLC's view of it immediate) and that
`Restore` finds its version archived every time: its filter on the status is a safeguard that no
interleaving of these actions needs, so the branch that does not match is in the model because
it is in the code, and is never taken.

## 10 Runs and bounds

| run | instance | distinct states | shows |
| --- | --- | --- | --- |
| `approval_race` | 1 row, 2 devices, 1 cron, 2 texts, 2 attempts, horizon 1, fair | 1 462 686 | one executor, only what was approved is sent, finality, orphans left alone, refinement, nothing waits forever |
| `approval_keys` | 3 rows, 1 key, 2 devices, 2 tries per call | 408 276 | one live proposal per key |
| `support_reveal` | 2 operators, 1 grant, 2 calls, changing roster, horizon 1, fair | 1 172 682 | accountable reveals, the ledger, lapsed grants are closed |
| `support_pairs` | 2 operators, 2 grants, 2 calls, every initial roster | 1 823 177 | one active grant per pair |
| `push_race` | 1 briefing, 1 reminder, 1 meeting, 2 sweeps, 1 token, 1 fault | 1 636 420 | at most one delivery, true marks, the outbox |
| `push_sweep` | 1 reminder, 2 sweeps, 2 tokens, horizon 1, 1 fault, fair | 530 604 | no reminder is marked that was not answered for, shown once, cancelled ones are left alone, due ones leave |
| `admin_roster` | 2 operators, 2 sessions, 2 calls, horizon 2, fair | 1 272 689 | the floor, the roster, logins behind active rows, ended sessions, the lock given back |
| `mail_sync` | 2 messages, 2 runs, page of 1, 1 fault, fair | 714 732 | nothing lost between runs, analysed once, the inbox, new mail gets in |
| `connections` | 2 accounts, 2 mailboxes, 2 consents, 2 calls, 2 key versions, 1 fault | 3 146 511 | right tokens, nothing left behind, one primary, readable, the links |
| `prompts` | 1 feature, 3 versions, 2 texts, 3 calls | 548 847 | no feature without its prompt, retired stays retired, numbers, the shelf |
| `sent_twice` | 1 row, 1 device, 2 tries per call | violation | section 11 |
| `revoke_skipped` | 1 account, 1 call, 2 key versions | violation | section 11 |

State counts are after symmetry where a run uses it. Every detailed module is checked against its abstract
specification in one of these runs. Properties that follow from a refinement or are proved without a run of
their own (`EvidenceStays`, `BoundOnce`, `ServedTextIsFixed`, `TrailIsTrue`, `CutsOnlyFullPages`, the type
invariants of Approvals, AdminRoster, MailSync and Prompts) are in section 12.

**Bounds, Approvals.** `Horizon` stops the clock; with a TTL of one tick, horizon 1 has a row before and
after its expiry. Nothing is proposed that would expire after the horizon, so every proposal can be seen
to expire. `AttemptCap` ends the user's own retries: it bounds `attempts`, which the code does not (the
automatic budget is `MaxApprovalAttempts`, where 2 has a re-queued and a final failure). `EffectCap` saturates
the effect counter; it is 2 where "twice" is the question. `CallAttempts` 2 has a first and a last try of
one call; the race uses 1 to keep liveness affordable, and leaves the second try to `approval_keys` and
`sent_twice`, since a re-queued row repeats the request too. `RetryBatch` 1 with one row never leaves a due row
behind. `RetryDelay` 0: the code's longest delay is a minute and the sweep runs every ten, so a retry is
due at the next sweep. One row is enough for the race because no action but the sweep and the key logic
relates two rows; three rows under one key give the key logic a closed row, its replacement, and a rival. One
text is enough where no property compares payloads, two where one does.

**Bounds, Support Access.** `Ceiling` is 24 hours in ticks. A grant that lapses after the horizon
never lapses inside the run, which the liveness property does not ask for. `Movable` limits which
operators' accounts change during the run, and all initial rosters are explored in any case.

**Bounds, Notifications.** `MaxFaults` counts database errors and dead sweeps; one is enough for a claim that
outlives its sender, and answers the provider loses are not counted. `push_race` has no clock: three kinds of
message, all due, meet two sweeps. `push_sweep` has one reminder, a tick on either side of its time, a
replaced token and the switches of its owner: the token changes in this run alone, so `ShownOnce` is checked
here. Neither run cuts a page: one reminder and one meeting never fill a select of more than `Limit`, and two reminders
with two fair sweeps are out of TLC's reach. The safety theorems of section 12 hold for any `Limit`; `RemindersLeave`
is not checked where a reminder has to wait for the next sweep's select. `Choices` are loud, or quiet at the first tick.

**Bounds, AdminRoster.** `OtherRoles` is one role, since none below super_admin is told apart. Two operators are the case in question: each may remove the other, and then
nobody is left. `IdleWindow` 2, `HardWindow` 3 and `Horizon` 2 let a session run out, and let a slide be cut off at the
hard deadline. The hard deadline itself lies past the horizon; in the model, as in the code, the idle
one never passes it.

**Bounds, MailSync.** `Limit` 1 with two messages cuts a page; `Windows` lets the time window leave out none or
one; one fault is a dead run, a give-up or a lost save.

**Bounds, Connections.** Account ids are never used twice, so two ids allow one reconnect after a disconnect, or
two accounts side by side. One mailbox is `Revocable` and one is not. One rotation gives two key
versions.

**Bounds, Prompts.** Three versions are a live one, a draft and a rival; three calls are two activations
and an archive. Faults are not bounded.

The theorems of section 12 hold without these values: they need only the named assumptions.

**Deadlock** is checked except in `approval_keys` and `sent_twice` (no cron: the clock may reach its bound before
anything was proposed), in `connections` and `revoke_skipped` (consents and account ids run out), and in `prompts`
(versions run out). These stops are the bounds' and not the system's.

**Symmetry** is used in safety runs only, and only of sets the definitions treat alike and name no member of:
rows and devices in `approval_keys`; operators, grants and calls in `support_pairs`; sweeps in `push_race`;
accounts, consents and calls in `connections`, where the mailboxes differ by `Revocable`; versions, texts and calls in
`prompts`. The refinements checked there (`ImplementsOutbox`, `ImplementsLinks`, `ImplementsShelf`) are safety
properties, not liveness, and say the same of every member.

**Fairness.** Nothing is assumed of users, their devices, operators or providers, and every run may still die
at any point its fault bound allows.

* Approvals: the clock advances, and each cron slot takes its next step when it has one, because
  pg_cron starts the sweep every ten minutes and the platform runs it.
* Support Access: the clock advances; Postgres ends every transaction (`RevealCommit`, weakly); and
  `Cleanup` is strongly fair, because its statement waits in the queue of the row lock: reveals may take the
  row again and again, but one that was queued earlier is served first. Weak fairness would be wrong here: the
  sweep is not continuously enabled while reveals come and go.
* Notifications: cron starts runs every five minutes, and a run goes on (`Start`, `SweepStep`, weakly). The clock
  need not advance.
* AdminRoster: a transaction that holds the lock goes on to its end (`Count`, `Commit`, weakly); taking
  the lock needs no fairness for what is claimed.
* MailSync: a run that was started goes on (`Proceed`, weakly). That runs are started, and that messages arrive, is
  not assumed: `NewMailGetsIn` has "runs are started again and again" as its premise.

The fairness of cron presupposes a deployment whose `CRON_SECRET` is the service key the jobs send as their
bearer token (0014:57; `approvals-expire` 14 and `notification-scheduler` 60 ask for `CRON_SECRET`). Nothing in the
repository names that variable outside the functions; where it is missing or differs, every cron call is refused and the
liveness properties of Approvals and Notifications say nothing.

## 11 Where code and documentation part

Two runs end in a counterexample to a sentence of the repository.

| run | the sentence | what the code does |
| --- | --- | --- |
| `sent_twice` | a retry after a timeout "can never send the same mail twice" (0006:88) | `withRetry` and the re-queue repeat a request whose answer was lost, with nothing the provider could recognise it by |
| `revoke_skipped` | "Provider-side revocation is attempted first" (`accounts-disconnect` 11) | `revokeAndDelete` opens the refresh token with the access token's key version; after a rotation and a refresh that kept the refresh token it cannot, and the provider is never asked |

More of the same kind were met while modelling. They follow from actions of the modules, or lie just beside them,
and have no run of their own.

**Approvals.** A re-proposal refreshes the row after the card was fetched, so an approval without an edit
is of a payload its user may not have seen (`approval-decide` says it "carries the payload the user
actually saw"); an edit checked against one proposal may be claimed onto the next (`approval-decide` 114).
The attempt count is read before the lock and written after it, so one failure overwrites another (`executor.ts`
134). A row whose executor died stays `executing` for good (`executor.ts` 103; `OrphanIsInert` shows that nothing else
happens to it either). Failed rows, and such rows, outlive their TTL: the sweep closes
pending and approved rows only, and `approval-retry` 31 executes a failed one after its expiry. A timed-out send
leaves a failed row that can be refused while the provider may still act (`DispatchRetryable`, `DecideReject`,
`LateEffect`). Past its expiry `approval-decide` records `approval.expired` even when the trigger refused the
UPDATE, and may close a proposal that was renewed meanwhile.

**Support Access.** If the audit row cannot be written the effect stays, though `admin-action.ts` says "the
effect failed too". The sweep expires a request when the window it asked for has passed since the request,
though `docs/SUPPORT_ACCESS.md` says "the request waits". A lapsed grant not swept yet refuses the next
approval, because the unique index looks at the status alone.

**Notifications.** "Once, ever" (`push.ts` 15) holds where the platform gives the phone a stable id. Elsewhere signing
out makes it register under a new id beside the old row, and a message is shown for both
(`notifications.ts` 117): this is why `ShownOnce` and its theorem assume `StableId`. A sweep that read a token
row before the phone refreshed it disables the fresh token, by the row's id (`push.ts` 227 against
`push-token-register` 35). `push.ts` 120 leaves a refused delivery to "try again later", but the scheduler has marked the
reminder fired and the claim suppresses the next attempt. A profile that could not be read is taken for a user without
devices (`push.ts` 62, 128: the read's error is not looked at), and the scheduler marks the reminder fired though nobody
tried it and no setting held it back, while its comment (254) speaks of quiet hours. A reminder cancelled while a sweep has it in hand is sent
and marked fired by id. A meeting is announced once, even when it is moved afterwards.

**AdminRoster.** If revoking the sessions fails after the account was closed, they stay until they run out, and a
sign-in that was already resolved inserts one more (`admins.ts` 484). Neither is usable while the account is closed
(`Usable` asks for the status); both come back to life with it.

**MailSync.** The first page of the full list sets the cursor to the newest message, so older mail in the window
is never read (`sync.ts` 155 against 14), although the first analysis promises a backfill
(`initial-analysis` 16): nothing reads `backfill_cursor`. A history answer's next page and everything past
its first 200 ids are dropped while the cursor moves on; so are messages that fail alone. A run that dies between
storing and analysing leaves messages never analysed, since the next run skips what is stored, though
`ingest.ts` 195 says the "next pass only has to redo the analysis". The cron job `da_sync_incremental` calls
`sync-start` with the service key, which `sync-start` refuses (33: it asks for a user), and what the webhooks mark as due
(`next_run_at`; "the actual sync runs on the next scheduler tick", `webhook-gmail` 11) is read by screens only. In
fact a sync runs when the first analysis does and when the user asks for one on the accounts screen.

**Connections.** Of two refreshes of one account the one that fails later marks it expired although it has just
been refreshed, and syncs skip it until it is reconnected (`oauth.ts` 380). Two first consents completed
together: the second is refused after its state was consumed. The account limit is counted before the insert
(`oauth-complete` 162). A death between the upsert and `storeTokens` leaves a connected account without
credentials. Disconnecting the primary account leaves none primary. A consent for an account that exists writes back the `is_primary`
it read (`oauth-complete` 177-203): if that account was disconnected and another became primary meanwhile, the index refuses
the upsert; if it was disconnected as a secondary one, it comes back secondary although it may be the only one.

**Prompts.** An archive of a version read as a draft but activated before the UPDATE takes down the live prompt
without the question that guards it, and the trail says `was_active: false`, although "the trail says which one this
was" (`prompts.ts` 823). A fault in mid-swap leaves the feature without a live version until an operator
acts; `bare` accounts for both.

**Elsewhere.** The trigger that keeps entitlement grants from overlapping takes no lock, so two inserts at
once may overlap (0019:1245). `referral-redeem` 75 gives both credit rows the same referee and code, which a
unique constraint forbids.

## 12 Proofs

TLAPS checks the eight proof modules to the last leaf, for any number of rows, keys, devices, sweeps,
operators, sessions, messages, runs, accounts, consents, versions and calls, and any TTL, budget, page limit or
horizon that satisfies the named ASSUMEs: bounds are natural numbers, positive where the code's constant is;
`Null`, `None` and `NoKey` are none of the other values; kinds of messages, devices and cron slots are
different; `Movable` is a set of operators, `Revocable` one of mailboxes. TLC evaluates the same assumptions in every
run. Of the properties that passing runs check only the five liveness properties named at the end are not proved.

The seven proof modules of the detailed modules follow one plan. The invariants TLC checks are not inductive alone; `IInv` strengthens them,
mostly with what a call may rely on between two of its statements. `Init => IInv`; frame lemmas carry
everything a kind of step does not touch; one lemma per action or family of actions; a last lemma splits
`Next`. The theorems are corollaries of `Spec => []IInv`. A refinement adds to `IInv` what the abstract step needs
to see, maps the initial states, and has one lemma per family of actions: the abstract step it is, or the stutter.

**Approvals.** `IInv` adds `JobInv(p)`: while an invocation handles a row the row exists; one about to release
a key holds a closed row; one at or past the lock holds exactly the payload the row has, and the row is
decided; `succeeded` means something was sent. This is what makes the stale locals harmless: an approved payload is
never rewritten, so what was read before the lock is still what is there after it. `RowInv(r)`: a stored row has
a payload and a key; a released key belongs to a closed row; a row past its approval has a consent.
`UniqueKey`: the unique index as a statement about all rows. `GateImplementsMachine` maps each action to one
step of `ApprovalMachine` or to a stutter: a claim is `Approve`, a lock `Begin`, an outcome `Finish`, or a
stutter when its write was lost, a sweep `Close` of many rows. `TerminalStaysFinal` is proved once of the
abstract machine (`MachineFinal`) and carried over, plus a lemma about the provider's side. `OrphanStaysInert` rests on two facts of
`IInv`: nobody is past the lock of a row it does not hold (`ExecutorsAreNotMade`: the only way in is an UPDATE that
asks for `approved`), and every other write asks for a status that is not `executing`.

**Support Access.** `IInv` adds `CallInv(p)` (at its commit a reveal's grant still covers it, which holds
because the row is locked and every action that writes a row requires it unlocked), `RowInv(g)` (an active row was
approved, and not by its holder), `Exclusive` (a row is locked by one transaction), `LogInv` and `SeenInv` (the log
names approved grants; what was seen is in the log and in the trail). `CallsImplementLedger` adds what a call about
to write the trail is going to write (`LedgerInv`: it has happened, and being decided is for good); the reads under way
are those between `RevealLog` and `RevealCommit`, and whatever ends a call may give one up. `TrailIsTrueAlways` comes with
it. `GrantsAreEvidence` is the action property `EvidenceStays`: a closed grant never changes, holder, subject, scopes and approver never do.

*Composition.* `StandingsFollowRoster` shows that `Roster` is all that Support Access assumes of the operators, and
`RosterIsKept` that `AdminRoster`, with its locks, its stale permission reads and its transactions in steps, implements
`Roster` (its standings for `role`). What is proved of Support Access therefore holds beside the real roster, whose
sign-ins, sessions and locks need not be explored together with it.

**Notifications.** `ClaimInv`: at most one sweep is past the claim of a message; while it is, the row says
`claimed` and the message was handed over exactly if that sweep has reached the receipts. It follows from the
unique index alone, with nothing assumed about sweeps that overlap or die. `MomentInv`: what a sweep holds was
due when it was selected, and one about to mark a reminder has its claim or its reason (the settings, or an unread profile). `RowInv`, under
`StableId`: the phone has one row, so a list of tokens read at any time names it at most once. `Refinement` maps
the insert to `Claim`, the answers of the provider to `Hand` or `Refuse`, the mark to `MarkSent`, and whatever ends a
sweep's use of its claim to `LetGo`; that a message in a sweep's hands is nobody else's (`Uses`, from `ClaimInv`) is what
keeps the others' claims open meanwhile (`OpenChanges`). `CancelledStaysAlways` is an
action property, from the lemma that a sweep holds only what a select gave it (`NotPickedUp`).

**AdminRoster.** `FloorInv(p)`: who counts or commits holds the lock, and at its commit another enabled super_admin is
still there, because anybody who could take that one away would have to hold the same lock (`CommitInv`).
`RowsLocked`: a row belongs to one transaction. The audit, sessions and permissions play no part in it. `RosterIsKept`: the
commit is the abstract step, and its guard is `CommitInv`; everything before it is a stutter.

**MailSync.** `ReadInv(r)`: of the messages below the cursor a run will save, those not listed in full are stored, given
up or in its hands. A run that overlaps another, or is overtaken, keeps this fact, since `stored`, `given` and
`listed` only grow; a cursor written back by a slower run is covered for the same reason. `TodoInv`: a message is in
at most one run's hands for analysis, the one whose insert the index accepted. `InboxIsKept` adds that runs only know of what
has arrived (`SeenInv`). `OldestIsAPage` is a lemma about the page itself: the members of `Oldest(ms)` come before all
others, there are at most `Limit`, and exactly `Limit` if any is left out. It needs that a finite set of numbers has a
first and a last member, which comes from the well-foundedness of strict inclusion among its subsets (`HasFirst`,
`HasLast`). `CutsAreOfFullPages` follows for every answer.

**Connections.** `CallInv(p)`: a call that holds a grant and an account holds a grant for that account's mailbox, or the
account is gone; `Known` and `used` make "gone" final, since ids are not used twice. `OneUse` and `Unspent`: a
consent not bound yet is in the hands of at most one call, the one whose DELETE returned it. `LinksAreWhole` adds
`GrantsSpent` (what an account holds, or a call is about to give it, is of a consent that is spent) and maps `Upsert` to `Link`, the
writes of tokens to `Hold`, and the rest of a consent or refresh to stutters.

**Prompts.** A version that is down for a swap is archived, was not retired, and is in the hands of one call
(`CallInv`, `OneSwap`); archived rows leave that state only through that call, so it finds what it left
(`RestoreMatches`). `NeverLeftWithout` then needs that a promotion refused by the index means another version
is live. `ShelfIsKept` reads a version in that state as `down`: the call's `Demote` takes it down, its `Promote` is one step
with the archiving of what it replaced, its `Restore` puts it back, and its death abandons it. It needs
`DownAssumption`, that `None` is no row with that reading either.

**The promises.** An abstract specification can be implemented and still say too little. `PromisesProofs` takes each of them
alone, with an inductive invariant of its own, and proves what its users count on: `OutboxSendsOnce`, `RosterKeepsItsLast`,
`InboxReadsOnce`, `LinksStayApart`, `ShelfStaysInOrder`, `LedgerAccountsForAll`, `MachineSendsWhatWasApproved` and
`MachineSettlesForGood`. Each holds of anything that implements the promise, and of the detailed module by its
refinement theorem; the invariants are short because calls, faults and stale reads are gone. The hypotheses about
constants (`N` and `Ceiling` are numbers, `None` and `Null` are no rows or operators, `connected` is a status) are
among the named assumptions of the detailed modules.

**Only model-checked:** `SweptInTime`, `LapsedIsClosed`, `RemindersLeave`, `FloorIsGivenBack` and `NewMailGetsIn`
(liveness under fairness needs ENABLED, which is out of this prover's reach) and the two counterexamples of section 11.
Nothing that a recursive definition computes had to be proved: the models use none.

## 13 What is not modelled

In the modelled components:

* Approvals: what each provider call contains; the checks before it (account, scopes, token, calendar
  conflict) beyond "refused before anything was sent"; rate limits; the audit trail; local mirror rows and
  result columns the gate never reads back; deletion of the user under a running execution. The due-retries
  query is a free choice of rows up to its limit.
* Support Access: the written reasons, the rate limiter, audit rows of refusals, what a scope shows, and the
  erasure of a subject's account (grants go with it). A failed audit write withholds the records of a reveal,
  and this is modelled; the runner's message is not.
* Notifications: wording, time zones and quiet days, what a locked screen shows, how a briefing is written,
  snoozing, the notifications a device schedules itself, the calendar date in a briefing's key (a kind is one
  day's briefing).
* AdminRoster: passwords, second factors and cookies, throttling, invites, roles below super_admin, reasons
  and audit rows, the sweep of long-ended sessions.
* MailSync: Microsoft's delta links, calendar and task sync, tokens (a failure is a run that gives up), the user's
  own and deleted mail, the bookkeeping only screens read.
* Connections: scopes and kinds, plan limits, rate limits, profiles, the audit trail, what tokens are used for.
* Prompts: permissions and rate limits, notes and model, reasons and the audit trail.

Components left out altogether are listed in 2.1 with the reason. Those that are a single row written by one
owner, a pure function over natural language, a query or a page have no protocol for a model to check. The hazards
of the ones that have a protocol and no module yet are in `PROJECT.json`, each at its line.

## 14 Plan

What is left, in order of what would hurt most if it went wrong.

| module | of | properties and theorems | abstract specification |
| --- | --- | --- | --- |
| `Billing` | store events and refresh | the newest store state wins (a counterexample is expected: nothing compares event times); budgets under concurrent requests | last writer by event time |
| `Briefings` | three writers | a ready briefing has the items of one generation (a counterexample is expected) | replace as one step |
| `FollowUps` | sweep and user | what a user closed stays closed (a counterexample is expected); no lost dismissal | — |
| `Erasure` | export and deletion | nothing outlives its user; a failed deletion can be resumed | — |
| `Referral` | redemption | both sides credited once; the limit | — |

Compositions: Support Access and `AdminRoster` meet in `Roster` (section 12). The same way, over `Links`: `Connections` in the
place of `DispatchRefused` in Approvals, which would show what a disconnect does to an execution under way, and in that
of the token in `MailSync`. Within modules: invites in `AdminRoster`, the delta side in `MailSync`, snoozing in
`Notifications`.
