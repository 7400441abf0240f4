--------------------------- MODULE SupportAccess ---------------------------
(***************************************************************************)
(* Support Access: the only way an operator of the console reads a user's  *)
(* content.  One operator asks for a grant, another one approves it, the   *)
(* holder then reveals records while it is live, and every reveal leaves a *)
(* row in the reveal log and one in the audit trail                        *)
(* (0019_admin_platform.sql, lib/actions/support-access.ts and the runner  *)
(* every console action goes through, lib/admin-action.ts).                *)
(*                                                                         *)
(* A call of a server action is a process: the permission read, the work   *)
(* and the audit row are calls to the database of their own.  A statement  *)
(* of one row is one action; the reveal is a transaction of several        *)
(* statements that locks the grant's row from its log entry to its commit, *)
(* so it is three.                                                         *)
(*                                                                         *)
(* Abstracted: the written reasons, the rate limiter and the audit rows of *)
(* refusals (a refused call changes nothing here), what a scope shows, and *)
(* the calls that change the roster, of which only the effect is modelled: *)
(* the changes that Roster allows, which AdminRoster implements.           *)
(***************************************************************************)
EXTENDS Integers

CONSTANTS
  Admins,    \* admin_users rows
  Subjects,  \* the users whose content may be read
  Scopes,    \* support_access_scope
  Grants,    \* ids of support_access_grants rows, absent until inserted
  Procs,     \* slots for calls of server actions
  Ceiling,   \* 24 hours, in clock ticks
  Horizon,   \* bound: the clock stops here
  Movable,   \* bound: the operators whose account may change
  Null

ASSUME CeilingAssumption == Ceiling \in Nat \ {0}
ASSUME HorizonAssumption == Horizon \in Nat
ASSUME MovableAssumption == Movable \subseteq Admins
ASSUME NullAssumption == Null \notin Admins \cup Subjects \cup Grants \cup Scopes

\* `disabled` stands for an account that is not active, and `other` for the roles
\* that hold none of the three permissions.
Roles == {"super_admin", "operations", "support", "other", "disabled"}

MayRequest == {"super_admin", "operations", "support"}
MayApprove == {"super_admin", "operations"}
MayReveal == {"super_admin", "support"}

GrantStatus == {"pending_approval", "active", "denied", "expired", "revoked"}
Closed == {"denied", "expired", "revoked"}

VARIABLES
  now,      \* the clock
  role,     \* admin_users: what each operator is
  grant,    \* support_access_grants
  call,     \* what each call holds between two statements
  reveals,  \* support_access_reveals: <<admin, grant, scope>>
  trail,    \* audit_logs, successes: <<action, grant>>
  seen      \* what reached an operator's screen: <<admin, grant, scope>>

vars == <<now, role, grant, call, reveals, trail, seen>>

\* What may happen to the roster meanwhile.
Staff == INSTANCE Roster

Absent ==
  [status |-> "absent", holder |-> Null, subject |-> Null, scopes |-> {},
   requested |-> 0, approver |-> Null, granted |-> 0, expires |-> 0]

Idle == [pc |-> "idle", admin |-> Null, grant |-> Null, scope |-> Null, now |-> 0, did |-> Null]

Actions == {"requested", "approved", "denied", "revoked", "revealed"}
Steps == {"idle", "request", "approve", "deny", "recheck", "revoke",
          "assert", "log", "commit", "audit"}

Row ==
  [status : GrantStatus \cup {"absent"}, holder : Admins \cup {Null},
   subject : Subjects \cup {Null}, scopes : SUBSET Scopes, requested : Nat,
   approver : Admins \cup {Null}, granted : Nat, expires : Nat]

Call ==
  [pc : Steps, admin : Admins \cup {Null}, grant : Grants \cup {Null},
   scope : Scopes \cup {Null}, now : Nat, did : Actions \cup {Null}]

Entry == Admins \X Grants \X Scopes

Init ==
  /\ now = 0
  /\ Staff!Init
  /\ grant = [g \in Grants |-> Absent]
  /\ call = [p \in Procs |-> Idle]
  /\ reveals = {}
  /\ trail = {}
  /\ seen = {}

At(p, step) == call[p].pc = step
Goto(p, held) == call' = [call EXCEPT ![p] = held]
Exists(g) == grant[g].status # "absent"
IsLive(g, t) == grant[g].status = "active" /\ grant[g].granted <= t /\ t < grant[g].expires

\* A reveal holds the row from its log entry to the end of its transaction.
Locked(g) == \E p \in Procs : At(p, "commit") /\ call[p].grant = g

\* The work is done: what is left is the audit row.
ToAudit(p, g, did) == Goto(p, [call[p] EXCEPT !.pc = "audit", !.grant = g, !.did = did])

\* The runner reads the permission, then the clock, and starts the work.
Start(p, a, allowed, held) ==
  /\ At(p, "idle")
  /\ role[a] \in allowed
  /\ Goto(p, [held EXCEPT !.admin = a, !.now = now])
  /\ UNCHANGED <<now, role, grant, reveals, trail, seen>>

-----------------------------------------------------------------------------
(* A request *)

RequestBegin(p, a) == Start(p, a, MayRequest, [Idle EXCEPT !.pc = "request"])

\* Mutant: a request without an end.
RequestedOpenEnded(p, u, scopes, window) ==
  [Absent EXCEPT !.status = "pending_approval", !.holder = call[p].admin, !.subject = u,
                 !.scopes = scopes, !.requested = call[p].now, !.expires = Null]

Requested(p, u, scopes, window) ==
  [Absent EXCEPT !.status = "pending_approval", !.holder = call[p].admin, !.subject = u,
                 !.scopes = scopes, !.requested = call[p].now, !.expires = call[p].now + window]

RequestInsert(p, u, scopes, window) ==
  /\ At(p, "request")
  /\ \E g \in Grants :
       /\ ~Exists(g)
       /\ grant' = [grant EXCEPT ![g] = Requested(p, u, scopes, window)]
       /\ ToAudit(p, g, "requested")
  /\ UNCHANGED <<now, role, reveals, trail, seen>>

-----------------------------------------------------------------------------
(* The decisions *)

ApproveBegin(p, a, g) ==
  /\ Exists(g)
  /\ Start(p, a, MayApprove, [Idle EXCEPT !.pc = "approve", !.grant = g])

\* The window asked for, counted from the approval, within the ceiling.  The call
\* loads it before its UPDATE; a pending row's window never changes, so the row
\* the UPDATE finds says the same.
Rebased(p, g) ==
  LET asked == call[p].now + (grant[g].expires - grant[g].requested)
      latest == grant[g].requested + Ceiling
  IN IF asked < latest THEN asked ELSE latest

\* The partial unique index on (admin, subject) where status is active.
SlotTaken(g) ==
  \E h \in Grants \ {g} : /\ grant[h].status = "active"
                          /\ grant[h].holder = grant[g].holder
                          /\ grant[h].subject = grant[g].subject

\* There is a window left, the UPDATE's filter matches and the four-eyes check holds.
Approvable(p, g) ==
  /\ grant[g].status = "pending_approval"
  /\ grant[g].holder # call[p].admin
  /\ Rebased(p, g) > call[p].now

Approved(p, g) ==
  [grant[g] EXCEPT !.status = "active", !.approver = call[p].admin,
                   !.granted = call[p].now, !.expires = Rebased(p, g)]

\* Mutant: no unique index on the active grants of a pair.
ApproveUnindexed(p) ==
  /\ At(p, "approve")
  /\ LET g == call[p].grant
     IN /\ Approvable(p, g)
        /\ grant' = [grant EXCEPT ![g] = Approved(p, g)]
        /\ ToAudit(p, g, "approved")
  /\ UNCHANGED <<now, role, reveals, trail, seen>>

Approve(p) ==
  /\ At(p, "approve")
  /\ LET g == call[p].grant
     IN /\ Approvable(p, g) /\ ~SlotTaken(g)
        /\ grant' = [grant EXCEPT ![g] = Approved(p, g)]
        /\ ToAudit(p, g, "approved")
  /\ UNCHANGED <<now, role, reveals, trail, seen>>

\* The index refuses the UPDATE: the pair already has an active grant.
ApproveConflict(p) ==
  /\ At(p, "approve")
  /\ LET g == call[p].grant
     IN Approvable(p, g) /\ SlotTaken(g)
  /\ Goto(p, Idle)
  /\ UNCHANGED <<now, role, grant, reveals, trail, seen>>

ApproveRefused(p) ==
  /\ At(p, "approve")
  /\ ~Approvable(p, call[p].grant)
  /\ Goto(p, Idle)
  /\ UNCHANGED <<now, role, grant, reveals, trail, seen>>

DenyBegin(p, a, g) ==
  /\ Exists(g)
  /\ Start(p, a, MayApprove, [Idle EXCEPT !.pc = "deny", !.grant = g])

\* An UPDATE of one row that matches only the statuses in `from`.
CloseWhere(p, from, status) ==
  LET g == call[p].grant
  IN \/ /\ grant[g].status \in from
        /\ ~Locked(g)
        /\ grant' = [grant EXCEPT ![g].status = status]
        /\ ToAudit(p, g, status)
     \/ /\ grant[g].status \notin from
        /\ Goto(p, Idle)
        /\ UNCHANGED grant

\* Mutant: the denial has lost its `status = pending_approval` filter.
DenyAlways(p) ==
  /\ At(p, "deny")
  /\ CloseWhere(p, GrantStatus, "denied")
  /\ UNCHANGED <<now, role, reveals, trail, seen>>

Deny(p) ==
  /\ At(p, "deny")
  /\ CloseWhere(p, {"pending_approval"}, "denied")
  /\ UNCHANGED <<now, role, reveals, trail, seen>>

\* The holder hands a grant back; anybody else is asked for a second permission.
RevokeBegin(p, a, g) ==
  /\ Exists(g)
  /\ Start(p, a, MayRequest,
           [Idle EXCEPT !.pc = IF grant[g].holder = a THEN "revoke" ELSE "recheck", !.grant = g])

RevokeRecheck(p) ==
  /\ At(p, "recheck")
  /\ Goto(p, IF role[call[p].admin] \in MayApprove THEN [call[p] EXCEPT !.pc = "revoke"] ELSE Idle)
  /\ UNCHANGED <<now, role, grant, reveals, trail, seen>>

Revoke(p) ==
  /\ At(p, "revoke")
  /\ CloseWhere(p, {"pending_approval", "active"}, "revoked")
  /\ UNCHANGED <<now, role, reveals, trail, seen>>

-----------------------------------------------------------------------------
(* The reveal *)

RevealBegin(p, a, g, s) ==
  /\ Exists(g)
  /\ Start(p, a, MayReveal, [Idle EXCEPT !.pc = "assert", !.grant = g, !.scope = s])

Covers(p, t) ==
  LET g == call[p].grant
  IN /\ grant[g].holder = call[p].admin
     /\ IsLive(g, t)
     /\ call[p].scope \in grant[g].scopes

\* sa_assert_grant, on a plain read; now() is the start of the transaction from here on.
RevealAssert(p) ==
  /\ At(p, "assert")
  /\ Goto(p, IF Covers(p, now) /\ role[call[p].admin] \in MayReveal
             THEN [call[p] EXCEPT !.pc = "log", !.now = now] ELSE Idle)
  /\ UNCHANGED <<now, role, grant, reveals, trail, seen>>

\* Mutant: the trigger trusts what was asserted before.
RevealLogTrusting(p) ==
  /\ At(p, "log")
  /\ ~Locked(call[p].grant)
  /\ Goto(p, [call[p] EXCEPT !.pc = "commit"])
  /\ UNCHANGED <<now, role, grant, reveals, trail, seen>>

\* The insert into the reveal log: its trigger takes the grant's row and asks again.
RevealLog(p) ==
  /\ At(p, "log")
  /\ ~Locked(call[p].grant)
  /\ Goto(p, IF Covers(p, call[p].now) THEN [call[p] EXCEPT !.pc = "commit"] ELSE Idle)
  /\ UNCHANGED <<now, role, grant, reveals, trail, seen>>

\* The content leaves the database as the log row becomes visible.
RevealCommit(p) ==
  /\ At(p, "commit")
  /\ reveals' = reveals \cup {<<call[p].admin, call[p].grant, call[p].scope>>}
  /\ ToAudit(p, call[p].grant, "revealed")
  /\ UNCHANGED <<now, role, grant, trail, seen>>

-----------------------------------------------------------------------------
(* The end of a call *)

\* What a call that ends now shows: the records, if this was a reveal.
Shown(p) ==
  IF call[p].did = "revealed" THEN {<<call[p].admin, call[p].grant, call[p].scope>>} ELSE {}

\* Mutant: the records are shown although the audit row failed.
AuditOrShow(p) ==
  /\ At(p, "audit")
  /\ \/ trail' = trail \cup {<<call[p].did, call[p].grant>>}
     \/ UNCHANGED trail
  /\ seen' = seen \cup Shown(p)
  /\ Goto(p, Idle)
  /\ UNCHANGED <<now, role, grant, reveals>>

\* The audit row is written, or its write fails and the records are withheld.
Audit(p) ==
  /\ At(p, "audit")
  /\ \/ /\ trail' = trail \cup {<<call[p].did, call[p].grant>>}
        /\ seen' = seen \cup Shown(p)
     \/ UNCHANGED <<trail, seen>>
  /\ Goto(p, Idle)
  /\ UNCHANGED <<now, role, grant, reveals>>

\* The process or its connection dies; a transaction not committed is rolled back.
Abort(p) ==
  /\ ~At(p, "idle")
  /\ Goto(p, Idle)
  /\ UNCHANGED <<now, role, grant, reveals, trail, seen>>

-----------------------------------------------------------------------------
(* What goes on beside the calls *)

\* An UPDATE of admin_users: a role change, an account closed or reopened.
Revise(a, r) ==
  /\ Staff!Change(a, r)
  /\ UNCHANGED <<now, grant, call, reveals, trail, seen>>

Lapsed(g) == grant[g].status \in {"pending_approval", "active"} /\ grant[g].expires <= now

\* Mutant: the sweep closes requests only.
CleanupPending ==
  LET lapsed == {g \in Grants : Lapsed(g) /\ grant[g].status = "pending_approval"}
  IN /\ lapsed # {}
     /\ grant' = [g \in Grants |->
          IF g \in lapsed THEN [grant[g] EXCEPT !.status = "expired"] ELSE grant[g]]
     /\ UNCHANGED <<now, role, call, reveals, trail, seen>>

\* The hourly admin_cleanup_expired, which waits for the rows a reveal holds.
Cleanup ==
  LET lapsed == {g \in Grants : Lapsed(g)}
  IN /\ lapsed # {}
     /\ \A g \in lapsed : ~Locked(g)
     /\ grant' = [g \in Grants |->
          IF g \in lapsed THEN [grant[g] EXCEPT !.status = "expired"] ELSE grant[g]]
     /\ UNCHANGED <<now, role, call, reveals, trail, seen>>

Tick ==
  /\ now < Horizon
  /\ now' = now + 1
  /\ UNCHANGED <<role, grant, call, reveals, trail, seen>>

-----------------------------------------------------------------------------

Request(p) ==
  \/ \E a \in Admins : RequestBegin(p, a)
  \/ \E u \in Subjects, scopes \in (SUBSET Scopes) \ {{}}, window \in 1..Ceiling :
       RequestInsert(p, u, scopes, window)

Decide(p) ==
  \/ \E a \in Admins, g \in Grants : ApproveBegin(p, a, g) \/ DenyBegin(p, a, g) \/ RevokeBegin(p, a, g)
  \/ Approve(p)
  \/ ApproveConflict(p)
  \/ ApproveRefused(p)
  \/ Deny(p)
  \/ RevokeRecheck(p)
  \/ Revoke(p)

Reveal(p) ==
  \/ \E a \in Admins, g \in Grants, s \in Scopes : RevealBegin(p, a, g, s)
  \/ RevealAssert(p)
  \/ RevealLog(p)
  \/ RevealCommit(p)

Next ==
  \/ \E p \in Procs : Request(p) \/ Decide(p) \/ Reveal(p) \/ Audit(p) \/ Abort(p)
  \/ \E a \in Movable, r \in Roles : Revise(a, r)
  \/ Cleanup
  \/ Tick

Spec == Init /\ [][Next]_vars

\* pg_cron runs the sweep, Postgres ends every transaction, the clock advances.
FairSpec ==
  /\ Spec
  /\ WF_vars(Tick)
  /\ SF_vars(Cleanup)
  /\ \A p \in Procs : WF_vars(RevealCommit(p))

-----------------------------------------------------------------------------
(* What Support Access promises *)

TypeOK ==
  /\ now \in 0..Horizon
  /\ role \in [Admins -> Roles]
  /\ grant \in [Grants -> Row]
  /\ call \in [Procs -> Call]
  /\ reveals \subseteq Entry
  /\ trail \subseteq Actions \X Grants
  /\ seen \subseteq Entry

\* Whatever an operator saw, they saw under a grant of their own, for a scope it
\* names, approved by somebody else, with a row in the reveal log and one in the
\* audit trail, whatever failed or died on the way.
SeenIsAccounted ==
  \A e \in seen :
    LET g == e[2]
    IN /\ grant[g].holder = e[1] /\ e[3] \in grant[g].scopes
       /\ grant[g].approver \notin {Null, e[1]}
       /\ e \in reveals
       /\ <<"revealed", g>> \in trail

\* Content leaves the database only while its grant is active and inside the window
\* of the transaction: a revocation or a sweep that has answered has taken effect.
RevealedWhileLive ==
  [][\A e \in reveals' \ reveals :
       \E p \in Procs :
         /\ At(p, "commit") /\ e = <<call[p].admin, call[p].grant, call[p].scope>>
         /\ IsLive(e[2], call[p].now) /\ grant'[e[2]] = grant[e[2]]]_vars

\* "who could see this account, when" is a single row: never two active grants of
\* one operator for one user, however many approvals race.
OneActive ==
  \A g, h \in Grants :
    /\ g # h
    /\ grant[g].status = "active" /\ grant[h].status = "active"
    => grant[g].holder # grant[h].holder \/ grant[g].subject # grant[h].subject

\* A grant is the evidence: once denied, revoked or expired it stays as it is, an
\* approval is never undone by a denial, and nobody comes to hold another's grant.
EvidenceStays ==
  [][\A g \in Grants :
       /\ grant[g].status \in Closed => grant'[g] = grant[g]
       /\ grant[g].status = "active" => grant'[g].status \in {"active", "revoked", "expired"}
       /\ grant[g].approver # Null => grant'[g].approver = grant[g].approver
       /\ Exists(g) => /\ grant'[g].holder = grant[g].holder
                       /\ grant'[g].subject = grant[g].subject
                       /\ grant'[g].scopes = grant[g].scopes]_vars

\* The reads under way: opened when the grant was asserted, done at the commit.
Opened ==
  {<<call[p].admin, call[p].grant, call[p].scope>> : p \in {q \in Procs : call[q].pc \in {"log", "commit"}}}

Ledger == INSTANCE GrantLedger WITH open <- Opened

\* The calls, their stale reads, their locks and their deaths amount to a ledger
\* whose grants are decided in one step, whose reads happen in one step while
\* their grant is active, and whose audit trail only says what happened.
ImplementsLedger == Ledger!Spec

\* A grant whose time has passed does not read `active` forever.
LapsedIsClosed ==
  \A g \in Grants : (grant[g].status = "active" /\ Lapsed(g)) ~> grant[g].status # "active"

=============================================================================
