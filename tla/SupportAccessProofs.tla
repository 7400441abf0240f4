------------------------ MODULE SupportAccessProofs ------------------------
(***************************************************************************)
(* Proofs about SupportAccess, for every set of operators, users, scopes,  *)
(* grants and calls.  IInv is inductive: what a call may rely on between   *)
(* two statements (CallInv), what every row satisfies (RowInv), that a row *)
(* is locked by one transaction (Exclusive), and that the reveal log only  *)
(* names grants somebody else approved (LogInv).                           *)
(***************************************************************************)
EXTENDS SupportAccess, TLAPS

Named(p) == call[p].pc \notin {"idle", "request"}

CallInv(p) ==
  /\ call[p].pc # "idle" => call[p].admin \in Admins
  /\ Named(p) => call[p].grant \in Grants /\ Exists(call[p].grant)
  /\ call[p].pc \in {"assert", "log", "commit"} => call[p].scope \in Scopes
  /\ call[p].pc = "commit" => Covers(p, call[p].now)
  /\ call[p].pc = "audit" =>
       /\ call[p].did \in Actions
       /\ call[p].did = "revealed" => <<call[p].admin, call[p].grant, call[p].scope>> \in reveals

RowInv(g) ==
  /\ Exists(g) => grant[g].holder \in Admins /\ grant[g].subject \in Subjects
  /\ grant[g].status \in {"absent", "pending_approval"} => grant[g].approver = Null
  /\ grant[g].approver # Null => grant[g].approver # grant[g].holder
  /\ grant[g].status = "active" => grant[g].approver # Null

Exclusive ==
  \A p, q \in Procs :
    At(p, "commit") /\ At(q, "commit") /\ call[p].grant = call[q].grant => p = q

LogInv ==
  \A e \in reveals :
    /\ grant[e[2]].holder = e[1]
    /\ e[3] \in grant[e[2]].scopes
    /\ grant[e[2]].approver # Null

SeenInv == \A e \in seen : e \in reveals /\ <<"revealed", e[2]>> \in trail

IInv ==
  /\ TypeOK
  /\ \A p \in Procs : CallInv(p)
  /\ \A g \in Grants : RowInv(g)
  /\ Exclusive
  /\ LogInv
  /\ SeenInv
  /\ OneActive

-----------------------------------------------------------------------------
(* Lemmas about one step *)

\* Nothing is granted, held or seen at the start.
LEMMA InitInv == Init => IInv
<1> SUFFICES ASSUME Init PROVE IInv
  OBVIOUS
<1>1. TypeOK
  <2>1. Absent \in Row
    BY DEF Absent, Row, GrantStatus
  <2>2. Idle \in Call
    BY DEF Idle, Call, Steps
  <2> QED BY <2>1, <2>2, HorizonAssumption DEF Init, Staff!Init, TypeOK
<1>2. (\A p \in Procs : CallInv(p)) /\ Exclusive
  BY DEF Init, CallInv, Exclusive, Named, Idle, At
<1>3. (\A g \in Grants : RowInv(g)) /\ OneActive
  BY DEF Init, RowInv, OneActive, Exists, Absent
<1> QED BY <1>1, <1>2, <1>3 DEF Init, IInv, LogInv, SeenInv

\* The call that moves, and the ones that do not.
LEMMA GotoTyped ==
  ASSUME call \in [Procs -> Call], NEW p \in Procs, NEW held \in Call, Goto(p, held)
  PROVE  /\ call' \in [Procs -> Call] /\ call'[p] = held
         /\ \A q \in Procs \ {p} : call'[q] = call[q]
  BY DEF Goto

\* A call goes on and nothing else changes.
LEMMA CallStep ==
  ASSUME IInv, NEW p \in Procs, NEW held \in Call, Goto(p, held),
         UNCHANGED <<now, role, grant, reveals, trail, seen>>,
         held.pc # "idle" => held.admin \in Admins,
         held.pc \notin {"idle", "request"} => held.grant \in Grants /\ Exists(held.grant),
         held.pc \in {"assert", "log", "commit"} => held.scope \in Scopes,
         held.pc # "audit",
         held.pc = "commit" =>
           /\ ~Locked(held.grant)
           /\ grant[held.grant].holder = held.admin
           /\ IsLive(held.grant, held.now)
           /\ held.scope \in grant[held.grant].scopes
  PROVE  IInv'
<1>1. /\ call' \in [Procs -> Call] /\ call'[p] = held
      /\ \A q \in Procs \ {p} : call'[q] = call[q]
  BY GotoTyped DEF IInv, TypeOK
<1>2. TypeOK'
  BY <1>1 DEF IInv, TypeOK
<1>3. CallInv(p)'
  BY <1>1 DEF CallInv, Named, Exists, Covers, IsLive
<1>4. ASSUME NEW q \in Procs \ {p} PROVE CallInv(q)'
  BY <1>1 DEF IInv, CallInv, Named, Exists, Covers, IsLive
<1>5. Exclusive'
  BY <1>1 DEF IInv, Exclusive, At, Locked
<1>6. (\A g \in Grants : RowInv(g))' /\ LogInv' /\ SeenInv' /\ OneActive'
  BY DEF IInv, RowInv, Exists, LogInv, SeenInv, OneActive
<1> QED BY <1>2, <1>3, <1>4, <1>5, <1>6 DEF IInv

\* A call that ends, or dies, leaves nothing to be relied on.
LEMMA EndInv ==
  ASSUME IInv, NEW p \in Procs, Goto(p, Idle), UNCHANGED <<now, role, grant, reveals, trail, seen>>
  PROVE  IInv'
<1>1. Idle \in Call /\ Idle.pc = "idle"
  BY DEF Idle, Call, Steps
<1> QED BY <1>1, CallStep

\* A call starts on a grant that exists.
LEMMA StartInv ==
  ASSUME IInv, NEW p \in Procs, NEW a \in Admins, NEW allowed, NEW held \in Call,
         Start(p, a, allowed, held),
         held.pc \notin {"idle", "commit", "audit"},
         held.pc # "request" => held.grant \in Grants /\ Exists(held.grant),
         held.pc \in {"assert", "log"} => held.scope \in Scopes
  PROVE  IInv'
<1> DEFINE new == [held EXCEPT !.admin = a, !.now = now]
<1>0. now \in Nat
  BY HorizonAssumption DEF IInv, TypeOK
<1>1. /\ new \in Call /\ new.pc = held.pc /\ new.admin = a /\ new.grant = held.grant
      /\ new.scope = held.scope
  BY <1>0 DEF Call
<1>2. Goto(p, new) /\ UNCHANGED <<now, role, grant, reveals, trail, seen>>
  BY DEF Start
<1> HIDE DEF new
<1> QED BY <1>1, <1>2, CallStep

\* A statement writes one row nobody locks, and its call goes on to the audit.
LEMMA RowStep ==
  ASSUME IInv, NEW p \in Procs, NEW g \in Grants, NEW did \in Actions, NEW new \in Row,
         call[p].admin \in Admins, did # "revealed",
         ToAudit(p, g, did), grant' = [grant EXCEPT ![g] = new],
         UNCHANGED <<now, role, reveals, trail, seen>>,
         ~Locked(g),
         new.status # "absent",
         new.holder \in Admins, new.subject \in Subjects,
         new.status = "pending_approval" => new.approver = Null,
         new.approver # Null => new.approver # new.holder,
         new.status = "active" => new.approver # Null /\ Exists(g) /\ ~SlotTaken(g),
         Exists(g) => /\ new.holder = grant[g].holder /\ new.subject = grant[g].subject
                      /\ new.scopes = grant[g].scopes
                      /\ grant[g].approver # Null => new.approver # Null
  PROVE  IInv'
<1> DEFINE held == [call[p] EXCEPT !.pc = "audit", !.grant = g, !.did = did]
<1>1. /\ held \in Call /\ held.pc = "audit" /\ held.grant = g /\ held.did = did
      /\ held.admin \in Admins
  BY DEF IInv, TypeOK, Call, Steps
<1>2. /\ call' \in [Procs -> Call] /\ call'[p] = held
      /\ \A q \in Procs \ {p} : call'[q] = call[q]
  BY <1>1, GotoTyped DEF IInv, TypeOK, ToAudit
<1> HIDE DEF held
<1>3. /\ grant' \in [Grants -> Row] /\ grant'[g] = new
      /\ \A h \in Grants \ {g} : grant'[h] = grant[h]
  BY DEF IInv, TypeOK
<1>4. TypeOK'
  BY <1>2, <1>3 DEF IInv, TypeOK
<1>5. CallInv(p)'
  BY <1>1, <1>2, <1>3 DEF CallInv, Named, Exists
<1>6. ASSUME NEW q \in Procs \ {p} PROVE CallInv(q)'
  <2>1. CallInv(q) /\ call'[q] = call[q] /\ (At(q, "commit") => call[q].grant # g)
    BY <1>2 DEF IInv, Locked
  <2>2. call[q].pc = "commit" => Covers(q, call[q].now)'
    BY <1>3, <2>1 DEF CallInv, Named, At, Covers, IsLive
  <2> QED BY <1>3, <2>1, <2>2 DEF CallInv, Named, Exists
<1>7. Exclusive'
  BY <1>1, <1>2 DEF IInv, Exclusive, At
<1>8. ASSUME NEW h \in Grants PROVE RowInv(h)'
  BY <1>3 DEF IInv, RowInv, Exists
<1>9. LogInv'
  <2> SUFFICES ASSUME NEW e \in reveals
               PROVE  /\ grant'[e[2]].holder = e[1] /\ e[3] \in grant'[e[2]].scopes
                      /\ grant'[e[2]].approver # Null
    BY DEF LogInv
  <2>1. /\ e[2] \in Grants /\ grant[e[2]].holder = e[1] /\ e[3] \in grant[e[2]].scopes
        /\ grant[e[2]].approver # Null /\ RowInv(e[2])
    BY DEF IInv, LogInv, TypeOK, Entry
  <2> QED BY <1>3, <2>1 DEF RowInv, Exists
<1>10. SeenInv'
  BY DEF IInv, SeenInv
<1>11. OneActive'
  <2> SUFFICES ASSUME NEW h \in Grants, NEW k \in Grants, h # k,
                      grant'[h].status = "active", grant'[k].status = "active",
                      grant'[h].holder = grant'[k].holder, grant'[h].subject = grant'[k].subject
               PROVE  FALSE
    BY DEF OneActive
  <2>1. CASE h # g /\ k # g
    BY <1>3, <2>1 DEF IInv, OneActive
  <2>2. CASE h = g \/ k = g
    BY <1>3, <2>2 DEF SlotTaken
  <2> QED BY <2>1, <2>2
<1> QED BY <1>4, <1>5, <1>6, <1>7, <1>8, <1>9, <1>10, <1>11 DEF IInv

-----------------------------------------------------------------------------
(* One lemma per action *)

\* How a call starts: each begins with a record of its own and the work's first step.
LEMMA RequestBeginInv ==
  ASSUME IInv, NEW p \in Procs, NEW a \in Admins, RequestBegin(p, a) PROVE IInv'
<1> DEFINE held == [Idle EXCEPT !.pc = "request"]
<1>1. held \in Call /\ held.pc = "request"
  BY DEF Idle, Call, Steps
<1> QED BY <1>1, StartInv DEF RequestBegin

LEMMA DecideBeginInv ==
  ASSUME IInv, NEW p \in Procs, NEW a \in Admins, NEW g \in Grants,
         ApproveBegin(p, a, g) \/ DenyBegin(p, a, g) \/ RevokeBegin(p, a, g)
  PROVE  IInv'
<1>1. ASSUME NEW step \in {"approve", "deny", "recheck", "revoke"}, NEW allowed, Exists(g),
             Start(p, a, allowed, [Idle EXCEPT !.pc = step, !.grant = g])
      PROVE  IInv'
  <2> DEFINE held == [Idle EXCEPT !.pc = step, !.grant = g]
  <2>1. held \in Call /\ held.pc = step /\ held.grant = g
    BY DEF Idle, Call, Steps
  <2> HIDE DEF held
  <2>2. Start(p, a, allowed, held)
    BY <1>1 DEF held
  <2> QED BY <1>1, <2>1, <2>2, StartInv
<1>2. CASE ApproveBegin(p, a, g)
  BY <1>1, <1>2 DEF ApproveBegin
<1>3. CASE DenyBegin(p, a, g)
  BY <1>1, <1>3 DEF DenyBegin
<1>4. CASE RevokeBegin(p, a, g)
  <2> DEFINE step == IF grant[g].holder = a THEN "revoke" ELSE "recheck"
  <2>1. step \in {"approve", "deny", "recheck", "revoke"}
    OBVIOUS
  <2>2. Exists(g) /\ Start(p, a, MayRequest, [Idle EXCEPT !.pc = step, !.grant = g])
    BY <1>4 DEF RevokeBegin
  <2> HIDE DEF step
  <2> QED BY <1>1, <2>1, <2>2
<1> QED BY <1>2, <1>3, <1>4

LEMMA RevealBeginInv ==
  ASSUME IInv, NEW p \in Procs, NEW a \in Admins, NEW g \in Grants, NEW s \in Scopes,
         RevealBegin(p, a, g, s)
  PROVE  IInv'
<1> DEFINE held == [Idle EXCEPT !.pc = "assert", !.grant = g, !.scope = s]
<1>1. held \in Call /\ held.pc = "assert" /\ held.grant = g /\ held.scope = s
  BY DEF Idle, Call, Steps
<1>2. Exists(g) /\ Start(p, a, MayReveal, held)
  BY DEF RevealBegin
<1> HIDE DEF held
<1> QED BY <1>1, <1>2, StartInv

\* A request is a new row without an approver.
LEMMA RequestInsertInv ==
  ASSUME IInv, NEW p \in Procs, NEW u \in Subjects, NEW scopes \in SUBSET Scopes,
         NEW window \in 1..Ceiling, RequestInsert(p, u, scopes, window)
  PROVE  IInv'
<1> PICK g \in Grants : /\ ~Exists(g)
                       /\ grant' = [grant EXCEPT ![g] = Requested(p, u, scopes, window)]
                       /\ ToAudit(p, g, "requested")
  BY DEF RequestInsert
<1> DEFINE new == Requested(p, u, scopes, window)
<1>1. call[p] \in Call /\ call[p].admin \in Admins /\ CeilingAssumption
  BY CeilingAssumption DEF IInv, TypeOK, CallInv, RequestInsert, At
<1>2. /\ new \in Row /\ new.status = "pending_approval" /\ new.holder \in Admins
      /\ new.subject \in Subjects /\ new.approver = Null
  <2>1. call[p].now \in Nat /\ call[p].now + window \in Nat
    BY <1>1, CeilingAssumption DEF Call
  <2>2. Absent \in Row /\ Absent.approver = Null
    BY DEF Absent, Row, GrantStatus
  <2>3. "pending_approval" \in GrantStatus
    BY DEF GrantStatus
  <2> QED BY <1>1, <2>1, <2>2, <2>3 DEF Requested, Row, Call
<1>3. ~Locked(g)
  BY DEF IInv, Locked, At, CallInv, Named
<1>4. "requested" \in Actions /\ "requested" # "revealed"
  BY DEF Actions
<1> HIDE DEF new
<1>5. grant' = [grant EXCEPT ![g] = new] /\ UNCHANGED <<now, role, reveals, trail, seen>>
  BY DEF new, RequestInsert
<1> QED BY <1>1, <1>2, <1>3, <1>4, <1>5, RowStep

\* The index keeps the pair's active grant unique; the four-eyes check the approver.
LEMMA ApproveInv == ASSUME IInv, NEW p \in Procs, Approve(p) PROVE IInv'
<1> DEFINE g == call[p].grant
           new == Approved(p, g)
<1>1. /\ call[p] \in Call /\ call[p].admin \in Admins /\ g \in Grants /\ Exists(g)
      /\ RowInv(g) /\ grant[g] \in Row
  BY DEF IInv, TypeOK, CallInv, Named, Approve, At
<1>2. grant[g].status = "pending_approval" /\ grant[g].holder # call[p].admin /\ ~SlotTaken(g)
  BY DEF Approve, Approvable
<1>3. Rebased(p, g) \in Nat
  BY <1>1, CeilingAssumption DEF Approve, Approvable, Rebased, Row, Call
<1>4. /\ new \in Row /\ new.status = "active" /\ new.holder = grant[g].holder
      /\ new.subject = grant[g].subject /\ new.scopes = grant[g].scopes
      /\ new.approver = call[p].admin
  BY <1>1, <1>3 DEF Approved, Row, GrantStatus, Call
<1>5. new.approver # Null /\ new.holder \in Admins /\ new.subject \in Subjects
  BY <1>1, <1>4, NullAssumption DEF RowInv
<1>6. ~Locked(g)
  BY <1>2 DEF IInv, Locked, At, CallInv, Covers, IsLive
<1>7. "approved" \in Actions /\ "approved" # "revealed"
  BY DEF Actions
<1>8. /\ grant' = [grant EXCEPT ![g] = new] /\ ToAudit(p, g, "approved")
      /\ UNCHANGED <<now, role, reveals, trail, seen>>
  BY DEF Approve
<1> HIDE DEF new, g
<1> QED BY <1>1, <1>2, <1>4, <1>5, <1>6, <1>7, <1>8, RowStep

\* A denial or a revocation, whether its filter matches or not.
LEMMA CloseInv ==
  ASSUME IInv, NEW p \in Procs, NEW from \in SUBSET {"pending_approval", "active"},
         NEW status \in {"denied", "revoked"}, Named(p), CloseWhere(p, from, status),
         UNCHANGED <<now, role, reveals, trail, seen>>
  PROVE  IInv'
<1> DEFINE g == call[p].grant
           new == [grant[g] EXCEPT !.status = status]
<1>1. /\ call[p].admin \in Admins /\ g \in Grants /\ Exists(g)
      /\ RowInv(g) /\ grant[g] \in Row
  BY DEF IInv, TypeOK, CallInv, Named
<1>2. CASE Goto(p, Idle) /\ UNCHANGED grant
  BY <1>2, EndInv
<1>3. CASE /\ ~Locked(g) /\ ToAudit(p, g, status)
           /\ grant' = [grant EXCEPT ![g].status = status]
  <2>1. /\ new \in Row /\ new.status = status /\ new.holder = grant[g].holder
        /\ new.subject = grant[g].subject /\ new.scopes = grant[g].scopes
        /\ new.approver = grant[g].approver
    BY <1>1 DEF Row, GrantStatus
  <2>2. new.holder \in Admins /\ new.subject \in Subjects
    BY <1>1, <2>1 DEF RowInv
  <2>3. new.approver # Null => new.approver # new.holder
    BY <1>1, <2>1 DEF RowInv
  <2>4. status \in Actions /\ status # "revealed"
    BY DEF Actions
  <2>5. grant' = [grant EXCEPT ![g] = new]
    BY <1>3
  <2> HIDE DEF new, g
  <2> QED BY <1>1, <1>3, <2>1, <2>2, <2>3, <2>4, <2>5, RowStep
<1> QED BY <1>2, <1>3 DEF CloseWhere

\* The log row of a commit names the grant that its lock has kept live.
LEMMA RevealCommitInv == ASSUME IInv, NEW p \in Procs, RevealCommit(p) PROVE IInv'
<1> DEFINE e == <<call[p].admin, call[p].grant, call[p].scope>>
           held == [call[p] EXCEPT !.pc = "audit", !.grant = call[p].grant, !.did = "revealed"]
<1>1. /\ call[p] \in Call /\ call[p].admin \in Admins /\ call[p].grant \in Grants
      /\ Exists(call[p].grant) /\ call[p].scope \in Scopes /\ Covers(p, call[p].now)
      /\ RowInv(call[p].grant)
  BY DEF IInv, TypeOK, CallInv, Named, RevealCommit, At
<1>2. /\ held \in Call /\ held.pc = "audit" /\ held.grant = call[p].grant
      /\ held.admin = call[p].admin /\ held.scope = call[p].scope /\ held.did = "revealed"
  BY <1>1 DEF Call, Steps, Actions
<1> HIDE DEF held
<1>3. /\ call' \in [Procs -> Call] /\ call'[p] = held
      /\ \A q \in Procs \ {p} : call'[q] = call[q]
  BY <1>2, GotoTyped DEF IInv, TypeOK, RevealCommit, ToAudit, held
<1>4. reveals' = reveals \cup {e} /\ UNCHANGED <<now, role, grant, trail, seen>>
  BY DEF RevealCommit
<1>5. TypeOK'
  BY <1>1, <1>3, <1>4 DEF IInv, TypeOK, Entry
<1>6. CallInv(p)'
  BY <1>1, <1>2, <1>3, <1>4 DEF CallInv, Named, Exists, Actions
<1>7. ASSUME NEW q \in Procs \ {p} PROVE CallInv(q)'
  BY <1>3, <1>4 DEF IInv, CallInv, Named, Exists, Covers, IsLive
<1>8. Exclusive'
  BY <1>2, <1>3 DEF IInv, Exclusive, At
<1>9. (\A g \in Grants : RowInv(g))' /\ SeenInv' /\ OneActive'
  BY <1>4 DEF IInv, RowInv, Exists, SeenInv, OneActive
<1>10. LogInv'
  BY <1>1, <1>4 DEF IInv, LogInv, Covers, IsLive, RowInv
<1> QED BY <1>5, <1>6, <1>7, <1>8, <1>9, <1>10 DEF IInv

\* What is shown has its rows in both logs.
LEMMA AuditInv == ASSUME IInv, NEW p \in Procs, Audit(p) PROVE IInv'
<1> DEFINE e == <<call[p].admin, call[p].grant, call[p].scope>>
<1>1. Idle \in Call /\ Idle.pc = "idle"
  BY DEF Idle, Call, Steps
<1>2. /\ call' \in [Procs -> Call] /\ call'[p] = Idle
      /\ \A q \in Procs \ {p} : call'[q] = call[q]
  BY <1>1, GotoTyped DEF IInv, TypeOK, Audit
<1>3. call[p].did \in Actions /\ call[p].grant \in Grants /\ (call[p].did = "revealed" => e \in reveals)
  BY DEF IInv, CallInv, Named, Audit, At
<1>4. UNCHANGED <<now, role, grant, reveals>>
  BY DEF Audit
<1>5. TypeOK'
  <2>1. trail' \subseteq Actions \X Grants
    BY <1>3 DEF IInv, TypeOK, Audit
  <2>2. seen' \subseteq Entry
    BY <1>3 DEF IInv, TypeOK, Audit, Shown
  <2> QED BY <1>2, <1>4, <2>1, <2>2 DEF IInv, TypeOK
<1>6. ASSUME NEW q \in Procs PROVE CallInv(q)'
  BY <1>1, <1>2, <1>4 DEF IInv, CallInv, Named, Exists, Covers, IsLive
<1>7. Exclusive'
  BY <1>1, <1>2 DEF IInv, Exclusive, At
<1>8. (\A g \in Grants : RowInv(g))' /\ LogInv' /\ OneActive'
  BY <1>4 DEF IInv, RowInv, Exists, LogInv, OneActive
<1>9. SeenInv'
  <2>1. CASE UNCHANGED <<trail, seen>>
    BY <1>4, <2>1 DEF IInv, SeenInv
  <2>2. CASE /\ trail' = trail \cup {<<call[p].did, call[p].grant>>}
             /\ seen' = seen \cup Shown(p)
    <3>1. ASSUME NEW s \in Shown(p) PROVE s \in reveals' /\ <<"revealed", s[2]>> \in trail'
      <4>1. call[p].did = "revealed" /\ s = e
        BY DEF Shown
      <4> QED BY <1>3, <1>4, <2>2, <4>1
    <3> QED BY <1>4, <2>2, <3>1 DEF IInv, SeenInv
  <2> QED BY <2>1, <2>2 DEF Audit
<1> QED BY <1>5, <1>6, <1>7, <1>8, <1>9 DEF IInv

\* The sweep closes rows no reveal holds, and their status only.
LEMMA CleanupInv == ASSUME IInv, Cleanup PROVE IInv'
<1>1. /\ grant' \in [Grants -> Row]
      /\ \A g \in Grants :
           \/ grant'[g] = grant[g]
           \/ /\ Exists(g) /\ ~Locked(g)
              /\ grant'[g] = [grant[g] EXCEPT !.status = "expired"]
  BY DEF IInv, TypeOK, Row, GrantStatus, Cleanup, Lapsed, Exists
<1>2. \A g \in Grants :
        /\ grant'[g].holder = grant[g].holder /\ grant'[g].subject = grant[g].subject
        /\ grant'[g].scopes = grant[g].scopes /\ grant'[g].approver = grant[g].approver
        /\ grant'[g].status \in {grant[g].status, "expired"}
        /\ Exists(g)' = Exists(g)
  BY <1>1 DEF IInv, TypeOK, Row, Exists
<1>3. TypeOK'
  BY <1>1 DEF IInv, TypeOK, Cleanup
<1>4. ASSUME NEW p \in Procs PROVE CallInv(p)'
  <2>1. UNCHANGED <<call, reveals>> /\ CallInv(p)
    BY DEF Cleanup, IInv
  <2>2. call[p].pc = "commit" => Covers(p, call[p].now)'
    BY <1>1, <2>1 DEF CallInv, Named, Covers, IsLive, Locked, At
  <2> QED BY <1>2, <2>1, <2>2 DEF CallInv, Named
<1>5. (\A g \in Grants : RowInv(g))'
  BY <1>2 DEF IInv, RowInv
<1>6. LogInv'
  BY <1>2 DEF IInv, TypeOK, Entry, LogInv, Cleanup
<1>7. Exclusive' /\ SeenInv'
  BY DEF IInv, Exclusive, At, SeenInv, Cleanup
<1>8. OneActive'
  BY <1>2 DEF IInv, OneActive
<1> QED BY <1>3, <1>4, <1>5, <1>6, <1>7, <1>8 DEF IInv

\* The roster and the clock are outside the invariant but for their types.
LEMMA OutsideInv ==
  ASSUME IInv, UNCHANGED <<grant, call, reveals, trail, seen>>,
         now' \in 0..Horizon, role' \in [Admins -> Roles]
  PROVE  IInv'
<1>1. TypeOK'
  BY DEF IInv, TypeOK
<1>2. ASSUME NEW p \in Procs PROVE CallInv(p)'
  BY DEF IInv, CallInv, Named, Exists, Covers, IsLive
<1> QED BY <1>1, <1>2 DEF IInv, RowInv, Exists, Exclusive, At, LogInv, SeenInv, OneActive

-----------------------------------------------------------------------------
(* The theorems *)

\* Every action, call by call.
LEMMA NextInv == ASSUME IInv, [Next]_vars PROVE IInv'
<1>1. ASSUME NEW p \in Procs, Request(p) PROVE IInv'
  <2>1. ASSUME NEW a \in Admins, RequestBegin(p, a) PROVE IInv'
    BY <2>1, RequestBeginInv
  <2>2. ASSUME NEW u \in Subjects, NEW scopes \in SUBSET Scopes, NEW window \in 1..Ceiling,
               RequestInsert(p, u, scopes, window)
        PROVE  IInv'
    BY <2>2, RequestInsertInv
  <2> QED BY <1>1, <2>1, <2>2 DEF Request
<1>2. ASSUME NEW p \in Procs, Decide(p) PROVE IInv'
  <2>1. ASSUME NEW a \in Admins, NEW g \in Grants,
               ApproveBegin(p, a, g) \/ DenyBegin(p, a, g) \/ RevokeBegin(p, a, g)
        PROVE  IInv'
    BY <2>1, DecideBeginInv
  <2>2. CASE Approve(p)
    BY <2>2, ApproveInv
  <2>3. CASE ApproveConflict(p) \/ ApproveRefused(p)
    BY <2>3, EndInv DEF ApproveConflict, ApproveRefused
  <2>4. CASE Deny(p)
    BY <2>4, CloseInv DEF Deny, Named, At
  <2>5. CASE Revoke(p)
    BY <2>5, CloseInv DEF Revoke, Named, At
  <2>6. CASE RevokeRecheck(p)
    <3> DEFINE held == [call[p] EXCEPT !.pc = "revoke"]
    <3>1. CASE Goto(p, Idle)
      BY <2>6, <3>1, EndInv DEF RevokeRecheck
    <3>2. CASE Goto(p, held)
      <4>1. /\ held \in Call /\ held.pc = "revoke" /\ held.admin \in Admins
            /\ held.grant \in Grants /\ Exists(held.grant)
        BY <2>6 DEF RevokeRecheck, IInv, TypeOK, CallInv, Named, At, Call, Steps
      <4> HIDE DEF held
      <4> QED BY <2>6, <3>2, <4>1, CallStep DEF RevokeRecheck
    <3> QED BY <2>6, <3>1, <3>2 DEF RevokeRecheck
  <2> QED BY <1>2, <2>1, <2>2, <2>3, <2>4, <2>5, <2>6 DEF Decide
<1>3. ASSUME NEW p \in Procs, Reveal(p) PROVE IInv'
  <2>1. ASSUME NEW a \in Admins, NEW g \in Grants, NEW s \in Scopes, RevealBegin(p, a, g, s)
        PROVE  IInv'
    BY <2>1, RevealBeginInv
  <2>2. CASE RevealAssert(p)
    <3> DEFINE held == [call[p] EXCEPT !.pc = "log", !.now = now]
    <3>1. CASE Goto(p, Idle)
      BY <2>2, <3>1, EndInv DEF RevealAssert
    <3>2. CASE Goto(p, held)
      <4>1. now \in Nat
        BY HorizonAssumption DEF IInv, TypeOK
      <4>2. /\ held \in Call /\ held.pc = "log" /\ held.admin \in Admins
            /\ held.grant \in Grants /\ Exists(held.grant) /\ held.scope \in Scopes
        BY <2>2, <4>1 DEF RevealAssert, IInv, TypeOK, CallInv, Named, At, Call, Steps
      <4> HIDE DEF held
      <4> QED BY <2>2, <3>2, <4>2, CallStep DEF RevealAssert
    <3> QED BY <2>2, <3>1, <3>2 DEF RevealAssert
  <2>3. CASE RevealLog(p)
    <3> DEFINE held == [call[p] EXCEPT !.pc = "commit"]
    <3>1. CASE Goto(p, Idle)
      BY <2>3, <3>1, EndInv DEF RevealLog
    <3>2. CASE Covers(p, call[p].now) /\ Goto(p, held)
      <4>1. /\ held \in Call /\ held.pc = "commit" /\ held.admin = call[p].admin
            /\ held.grant = call[p].grant /\ held.scope = call[p].scope /\ held.now = call[p].now
            /\ held.admin \in Admins /\ held.grant \in Grants /\ Exists(held.grant)
            /\ held.scope \in Scopes
        BY <2>3 DEF RevealLog, IInv, TypeOK, CallInv, Named, At, Call, Steps
      <4>2. ~Locked(held.grant) /\ Covers(p, held.now)
        BY <2>3, <3>2, <4>1 DEF RevealLog
      <4> HIDE DEF held
      <4> QED BY <2>3, <3>2, <4>1, <4>2, CallStep DEF RevealLog, Covers
    <3> QED BY <2>3, <3>1, <3>2 DEF RevealLog
  <2>4. CASE RevealCommit(p)
    BY <2>4, RevealCommitInv
  <2> QED BY <1>3, <2>1, <2>2, <2>3, <2>4 DEF Reveal
<1>4. ASSUME NEW p \in Procs, Audit(p) PROVE IInv'
  BY <1>4, AuditInv
<1>5. ASSUME NEW p \in Procs, Abort(p) PROVE IInv'
  BY <1>5, EndInv DEF Abort
<1>6. ASSUME NEW a \in Movable, NEW r \in Roles, Revise(a, r) PROVE IInv'
  <2>1. now' \in 0..Horizon /\ role' \in [Admins -> Roles]
    BY <1>6 DEF Revise, Staff!Change, IInv, TypeOK
  <2> QED BY <1>6, <2>1, OutsideInv DEF Revise
<1>7. CASE Cleanup
  BY <1>7, CleanupInv
<1>8. CASE Tick
  <2>1. now' \in 0..Horizon /\ role' \in [Admins -> Roles]
    BY <1>8, HorizonAssumption DEF Tick, IInv, TypeOK
  <2> QED BY <1>8, <2>1, OutsideInv DEF Tick
<1>9. CASE UNCHANGED vars
  <2>1. now' \in 0..Horizon /\ role' \in [Admins -> Roles]
    BY <1>9 DEF vars, IInv, TypeOK
  <2> QED BY <1>9, <2>1, OutsideInv DEF vars
<1> QED BY <1>1, <1>2, <1>3, <1>4, <1>5, <1>6, <1>7, <1>8, <1>9 DEF Next

\* The inductive invariant holds of every reachable state of the calls and the tables.
THEOREM Invariance == Spec => []IInv
<1>1. Init => IInv
  BY InitInv
<1>2. IInv /\ [Next]_vars => IInv'
  BY NextInv
<1> QED BY <1>1, <1>2, PTL DEF Spec

\* The rows, the calls and the two logs keep their types through every statement of
\* support-access.ts and 0019_admin_platform.sql.
THEOREM TypeCorrect == Spec => []TypeOK
<1>1. IInv => TypeOK
  BY DEF IInv
<1> QED BY <1>1, Invariance, PTL

\* However many approvals of support-access.ts race, one operator never has two
\* active grants for one user.
THEOREM ActiveGrantIsUnique == Spec => []OneActive
<1>1. IInv => OneActive
  BY DEF IInv
<1> QED BY <1>1, Invariance, PTL

\* What an operator saw, they saw under a grant somebody else approved, logged and
\* audited, whichever statement of the reveal or of the runner failed.
THEOREM WhatIsSeenIsAccounted == Spec => []SeenIsAccounted
<1>1. IInv => SeenIsAccounted
  <2> SUFFICES ASSUME IInv, NEW e \in seen
               PROVE  /\ grant[e[2]].holder = e[1] /\ e[3] \in grant[e[2]].scopes
                      /\ grant[e[2]].approver \notin {Null, e[1]}
                      /\ e \in reveals /\ <<"revealed", e[2]>> \in trail
    BY DEF SeenIsAccounted
  <2>1. e \in reveals /\ <<"revealed", e[2]>> \in trail /\ e[2] \in Grants
    BY DEF IInv, SeenInv, TypeOK, Entry
  <2>2. /\ grant[e[2]].holder = e[1] /\ e[3] \in grant[e[2]].scopes
        /\ grant[e[2]].approver # Null /\ RowInv(e[2])
    BY <2>1 DEF IInv, LogInv
  <2> QED BY <2>1, <2>2 DEF RowInv
<1> QED BY <1>1, Invariance, PTL

\* What every statement leaves of a row that exists: the pair and the scopes, the
\* approver once there is one, and the whole row once it is closed.
RowStays(g) ==
  /\ Exists(g) => grant'[g].status # "absent"
  /\ grant[g].status \in Closed => grant'[g] = grant[g]
  /\ grant[g].status = "active" => grant'[g].status \in {"active", "revoked", "expired"}
  /\ grant[g].approver # Null => grant'[g].approver = grant[g].approver
  /\ Exists(g) => /\ grant'[g].holder = grant[g].holder
                  /\ grant'[g].subject = grant[g].subject
                  /\ grant'[g].scopes = grant[g].scopes

\* An UPDATE that closes a row touches an open one, and its status only.
LEMMA CloseStays ==
  ASSUME IInv, NEW p \in Procs, NEW from \in SUBSET {"pending_approval", "active"},
         NEW status \in {"denied", "revoked"},
         status = "denied" => from = {"pending_approval"},
         Named(p), CloseWhere(p, from, status), NEW g \in Grants
  PROVE  RowStays(g)
<1>1. call[p].grant \in Grants /\ grant \in [Grants -> Row]
  BY DEF IInv, TypeOK, CallInv, Named
<1>2. CASE UNCHANGED grant
  BY <1>2 DEF RowStays, Exists
<1>3. CASE /\ grant[call[p].grant].status \in from
           /\ grant' = [grant EXCEPT ![call[p].grant].status = status]
  BY <1>1, <1>3 DEF RowStays, Exists, Row, Closed
<1> QED BY <1>2, <1>3 DEF CloseWhere

\* So it is for each statement of the calls, the sweep and the roster.
LEMMA StepStays == ASSUME IInv, [Next]_vars, NEW g \in Grants PROVE RowStays(g)
<1>0. grant \in [Grants -> Row] /\ RowInv(g)
  BY DEF IInv, TypeOK
<1>1. CASE UNCHANGED grant
  BY <1>1 DEF RowStays, Exists
<1>2. ASSUME NEW p \in Procs, NEW u \in Subjects, NEW scopes \in SUBSET Scopes, NEW window \in 1..Ceiling,
             RequestInsert(p, u, scopes, window)
      PROVE  RowStays(g)
  BY <1>0, <1>2 DEF RequestInsert, RowStays, Exists, Closed, RowInv
<1>3. ASSUME NEW p \in Procs, Approve(p) PROVE RowStays(g)
  <2>1. /\ grant[call[p].grant].status = "pending_approval"
        /\ grant' = [grant EXCEPT ![call[p].grant] = Approved(p, call[p].grant)]
    BY <1>3 DEF Approve, Approvable
  <2>2. CASE g # call[p].grant
    BY <1>0, <2>1, <2>2 DEF RowStays, Exists
  <2>3. CASE g = call[p].grant
    BY <1>0, <2>1, <2>3 DEF RowStays, Exists, RowInv, Approved, Closed, Row
  <2> QED BY <2>2, <2>3
<1>4. ASSUME NEW p \in Procs, Deny(p) \/ Revoke(p) PROVE RowStays(g)
  <2>1. CASE Deny(p)
    <3>1. Named(p) /\ CloseWhere(p, {"pending_approval"}, "denied")
      BY <2>1 DEF Deny, Named, At
    <3> QED BY <3>1, CloseStays
  <2>2. CASE Revoke(p)
    <3>1. Named(p) /\ CloseWhere(p, {"pending_approval", "active"}, "revoked")
      BY <2>2 DEF Revoke, Named, At
    <3> QED BY <3>1, CloseStays
  <2> QED BY <1>4, <2>1, <2>2
<1>5. CASE Cleanup
  BY <1>0, <1>5 DEF Cleanup, Lapsed, RowStays, Exists, Closed, Row
<1>6. ASSUME NEW p \in Procs, Request(p) PROVE UNCHANGED grant \/ RowStays(g)
  BY <1>2, <1>6 DEF Request, RequestBegin, Start
<1>7. ASSUME NEW p \in Procs, Decide(p) PROVE UNCHANGED grant \/ RowStays(g)
  BY <1>3, <1>4, <1>7
     DEF Decide, ApproveBegin, DenyBegin, RevokeBegin, Start, ApproveConflict, ApproveRefused, RevokeRecheck
<1>8. ASSUME NEW p \in Procs, Reveal(p) \/ Audit(p) \/ Abort(p) PROVE UNCHANGED grant
  BY <1>8 DEF Reveal, RevealBegin, Start, RevealAssert, RevealLog, RevealCommit, Audit, Abort
<1>9. CASE (\E a \in Movable, r \in Roles : Revise(a, r)) \/ Tick \/ UNCHANGED vars
  BY <1>1, <1>9 DEF Revise, Tick, vars
<1> QED BY <1>1, <1>5, <1>6, <1>7, <1>8, <1>9 DEF Next

\* A closed grant stays as it is, an approval is never undone by a denial and no
\* grant changes hands or scopes: the UPDATE filters of support-access.ts suffice.
THEOREM GrantsAreEvidence == Spec => EvidenceStays
<1> DEFINE Stays == \A g \in Grants : RowStays(g)
<1>1. IInv /\ [Next]_vars => Stays
  BY StepStays
<1>2. Stays => \A g \in Grants :
                 /\ grant[g].status \in Closed => grant'[g] = grant[g]
                 /\ grant[g].status = "active" => grant'[g].status \in {"active", "revoked", "expired"}
                 /\ grant[g].approver # Null => grant'[g].approver = grant[g].approver
                 /\ Exists(g) => /\ grant'[g].holder = grant[g].holder
                                 /\ grant'[g].subject = grant[g].subject
                                 /\ grant'[g].scopes = grant[g].scopes
  BY DEF RowStays
<1> QED BY <1>1, <1>2, Invariance, PTL DEF Spec, EvidenceStays

\* Only the commit of a reveal adds to the reveal log.
LEMMA StepReveals ==
  ASSUME IInv, [Next]_vars, NEW e \in reveals' \ reveals
  PROVE  \E p \in Procs :
           /\ At(p, "commit") /\ e = <<call[p].admin, call[p].grant, call[p].scope>>
           /\ IsLive(e[2], call[p].now) /\ grant'[e[2]] = grant[e[2]]
<1>1. ASSUME NEW p \in Procs, RevealCommit(p)
      PROVE  /\ At(p, "commit") /\ e = <<call[p].admin, call[p].grant, call[p].scope>>
             /\ IsLive(e[2], call[p].now) /\ grant'[e[2]] = grant[e[2]]
  BY <1>1 DEF RevealCommit, IInv, CallInv, Covers, At
<1>2. ASSUME NEW p \in Procs, Request(p) PROVE UNCHANGED reveals
  BY <1>2 DEF Request, RequestBegin, Start, RequestInsert
<1>3. ASSUME NEW p \in Procs, Decide(p) PROVE UNCHANGED reveals
  BY <1>3 DEF Decide, ApproveBegin, DenyBegin, RevokeBegin, Start, Approve, ApproveConflict,
              ApproveRefused, Deny, RevokeRecheck, Revoke
<1>4. ASSUME NEW p \in Procs, Reveal(p) \/ Audit(p) \/ Abort(p) PROVE UNCHANGED reveals \/ RevealCommit(p)
  BY <1>4 DEF Reveal, RevealBegin, Start, RevealAssert, RevealLog, Audit, Abort
<1>5. CASE \/ Cleanup \/ (\E a \in Movable, r \in Roles : Revise(a, r))
           \/ Tick \/ UNCHANGED vars
  BY <1>5 DEF Cleanup, Revise, Tick, vars
<1> QED BY <1>1, <1>2, <1>3, <1>4, <1>5 DEF Next

\* Content leaves the database only while its grant is active and inside its window,
\* the row locked by the transaction of sa_reveal_* that reads it.
THEOREM RevealsAreLive == Spec => RevealedWhileLive
<1>1. IInv /\ [Next]_vars =>
        \A e \in reveals' \ reveals :
          \E p \in Procs :
            /\ At(p, "commit") /\ e = <<call[p].admin, call[p].grant, call[p].scope>>
            /\ IsLive(e[2], call[p].now) /\ grant'[e[2]] = grant[e[2]]
  BY StepReveals
<1> QED BY <1>1, Invariance, PTL DEF Spec, RevealedWhileLive

-----------------------------------------------------------------------------
(* Support Access implements the ledger of grants *)

\* The clock of a call is behind, what it is about to record has happened, and so
\* has what is recorded.
LedgerInv ==
  /\ \A p \in Procs : call[p].now <= now
  /\ \A p \in Procs : At(p, "audit") => Ledger!Happened(call[p].did, call[p].grant)
  /\ \A x \in trail : Ledger!Happened(x[1], x[2])

\* A step of the ledger, or none.
LedgerStep == [Ledger!Next]_(Ledger!vars)

LEMMA InitLedgerInv == Init => LedgerInv
  BY DEF Init, LedgerInv, Idle, At

\* The reveal log only grows.
LEMMA RevealsGrow == ASSUME IInv, [Next]_vars PROVE reveals \subseteq reveals'
<1>1. ASSUME NEW p \in Procs, Request(p) PROVE reveals \subseteq reveals'
  BY <1>1 DEF Request, RequestBegin, Start, RequestInsert
<1>2. ASSUME NEW p \in Procs, Decide(p) PROVE reveals \subseteq reveals'
  BY <1>2 DEF Decide, ApproveBegin, DenyBegin, RevokeBegin, Start, Approve, ApproveConflict,
              ApproveRefused, Deny, RevokeRecheck, Revoke
<1>3. ASSUME NEW p \in Procs, Reveal(p) \/ Audit(p) \/ Abort(p) PROVE reveals \subseteq reveals'
  BY <1>3 DEF Reveal, RevealBegin, Start, RevealAssert, RevealLog, RevealCommit, Audit, Abort
<1>4. CASE \/ Cleanup \/ (\E a \in Movable, r \in Roles : Revise(a, r))
           \/ Tick \/ UNCHANGED vars
  BY <1>4 DEF Cleanup, Revise, Tick, vars
<1> QED BY <1>1, <1>2, <1>3, <1>4 DEF Next

\* What has happened cannot be undone.
LEMMA HappenedStays ==
  ASSUME IInv, [Next]_vars, NEW did, NEW g \in Grants, Ledger!Happened(did, g)
  PROVE  Ledger!Happened(did, g)'
<1>1. RowStays(g) /\ reveals \subseteq reveals'
  BY StepStays, RevealsGrow
<1> QED BY <1>1 DEF RowStays, Ledger!Happened, Exists, Closed

\* Where a call can be after a step.
CallNext(q) ==
  \/ call'[q] = call[q]
  \/ call'[q] = Idle
  \/ call'[q].pc # "audit" /\ call'[q].now \in {now, call[q].now}
  \/ call'[q].now = call[q].now /\ Ledger!Happened(call[q].did, call[q].grant)'

\* A call that has closed a row may record that.
LEMMA ClosedCallNext ==
  ASSUME IInv, NEW p \in Procs, NEW from, NEW status \in {"denied", "revoked"}, Named(p),
         CloseWhere(p, from, status), NEW q \in Procs
  PROVE  CallNext(q)
<1>1. /\ call \in [Procs -> Call] /\ grant \in [Grants -> Row] /\ call[p].grant \in Grants
      /\ call[p] \in Call
  BY DEF IInv, TypeOK, CallInv, Named
<1>2. CASE Goto(p, Idle)
  BY <1>1, <1>2 DEF CallNext, Goto
<1>3. CASE ToAudit(p, call[p].grant, status) /\ grant' = [grant EXCEPT ![call[p].grant].status = status]
  <2>1. grant'[call[p].grant].status = status
    BY <1>1, <1>3 DEF Row
  <2>2. q = p => /\ call'[q].now = call[p].now /\ call'[q].did = status
                 /\ call'[q].grant = call[p].grant
    BY <1>1, <1>3 DEF ToAudit, Goto, Call
  <2>3. q # p => call'[q] = call[q]
    BY <1>1, <1>3 DEF ToAudit, Goto
  <2> QED BY <2>1, <2>2, <2>3 DEF CallNext, Ledger!Happened
<1> QED BY <1>2, <1>3 DEF CloseWhere

LEMMA EveryCallNext == ASSUME IInv, [Next]_vars, NEW q \in Procs PROVE CallNext(q)
<1>0. call \in [Procs -> Call] /\ grant \in [Grants -> Row]
  BY DEF IInv, TypeOK
<1>1. CASE UNCHANGED call
  BY <1>1 DEF CallNext
<1>2. ASSUME NEW p \in Procs, NEW a, NEW allowed, NEW held \in Call, held.pc # "audit",
             Start(p, a, allowed, held)
      PROVE  CallNext(q)
  <2> DEFINE new == [held EXCEPT !.admin = a, !.now = now]
  <2>1. new.pc # "audit" /\ new.now = now
    BY <1>2 DEF Call
  <2>2. call' = [call EXCEPT ![p] = new]
    BY <1>2 DEF Start, Goto
  <2> HIDE DEF new
  <2> QED BY <1>0, <2>1, <2>2 DEF CallNext
<1>3. ASSUME NEW p \in Procs, Request(p) PROVE CallNext(q)
  <2>1. ASSUME NEW a \in Admins, RequestBegin(p, a) PROVE CallNext(q)
    <3>1. [Idle EXCEPT !.pc = "request"] \in Call
      BY DEF Idle, Call, Steps
    <3> QED BY <1>2, <2>1, <3>1 DEF RequestBegin, Idle
  <2>2. ASSUME NEW u \in Subjects, NEW scopes \in SUBSET Scopes, NEW window \in 1..Ceiling,
               RequestInsert(p, u, scopes, window)
        PROVE  CallNext(q)
    <3> PICK g \in Grants : /\ grant' = [grant EXCEPT ![g] = Requested(p, u, scopes, window)]
                           /\ ToAudit(p, g, "requested")
      BY <2>2 DEF RequestInsert
    <3>1. grant'[g].status = "pending_approval"
      BY <1>0 DEF Requested, Absent
    <3>2. q = p => call'[q].now = call[p].now /\ call'[q].did = "requested" /\ call'[q].grant = g
      BY <1>0 DEF ToAudit, Goto, Call
    <3>3. q # p => call'[q] = call[q]
      BY <1>0 DEF ToAudit, Goto
    <3> QED BY <3>1, <3>2, <3>3 DEF CallNext, Ledger!Happened
  <2> QED BY <1>3, <2>1, <2>2 DEF Request
<1>4. ASSUME NEW p \in Procs, Goto(p, Idle) PROVE CallNext(q)
  BY <1>0, <1>4 DEF Goto, CallNext
<1>5. ASSUME NEW p \in Procs, NEW step \in Steps \ {"audit"}, NEW t \in {now, call[p].now},
             Goto(p, [call[p] EXCEPT !.pc = step, !.now = t])
      PROVE  CallNext(q)
  <2>1. call[p] \in Call
    BY <1>0
  <2>2. q = p => call'[q].pc = step /\ call'[q].now = t
    BY <1>0, <1>5, <2>1 DEF Goto, Call
  <2>3. q # p => call'[q] = call[q]
    BY <1>0, <1>5 DEF Goto
  <2> QED BY <1>5, <2>2, <2>3 DEF CallNext
<1>6. ASSUME NEW p \in Procs, NEW step \in Steps \ {"audit"}, Goto(p, [call[p] EXCEPT !.pc = step])
      PROVE  CallNext(q)
  <2>1. [call[p] EXCEPT !.pc = step] = [call[p] EXCEPT !.pc = step, !.now = call[p].now]
    BY <1>0 DEF Call
  <2> QED BY <1>5, <1>6, <2>1
<1>7. ASSUME NEW p \in Procs, Decide(p) PROVE CallNext(q)
  <2>1. ASSUME NEW a \in Admins, NEW g \in Grants,
               ApproveBegin(p, a, g) \/ DenyBegin(p, a, g) \/ RevokeBegin(p, a, g)
        PROVE  CallNext(q)
    <3>1. \A step \in {"approve", "deny", "revoke", "recheck"} :
            [Idle EXCEPT !.pc = step, !.grant = g] \in Call
      BY DEF Idle, Call, Steps
    <3>2. \A step \in {"approve", "deny", "revoke", "recheck"} :
            [Idle EXCEPT !.pc = step, !.grant = g].pc # "audit"
      BY DEF Idle
    <3>3. CASE ApproveBegin(p, a, g)
      BY <1>2, <3>1, <3>2, <3>3 DEF ApproveBegin
    <3>4. CASE DenyBegin(p, a, g)
      BY <1>2, <3>1, <3>2, <3>4 DEF DenyBegin
    <3>5. CASE RevokeBegin(p, a, g)
      <4> DEFINE step == IF grant[g].holder = a THEN "revoke" ELSE "recheck"
      <4>1. step \in {"approve", "deny", "revoke", "recheck"}
        OBVIOUS
      <4>2. Start(p, a, MayRequest, [Idle EXCEPT !.pc = step, !.grant = g])
        BY <3>5 DEF RevokeBegin
      <4> HIDE DEF step
      <4> QED BY <1>2, <3>1, <3>2, <4>1, <4>2
    <3> QED BY <2>1, <3>3, <3>4, <3>5
  <2>2. CASE Approve(p)
    <3> DEFINE g == call[p].grant
    <3>1. g \in Grants /\ call[p] \in Call /\ call[p].admin \in Admins
      BY <2>2 DEF IInv, TypeOK, CallInv, Named, Approve, At
    <3>2. grant' = [grant EXCEPT ![g] = Approved(p, g)] /\ ToAudit(p, g, "approved")
      BY <2>2 DEF Approve
    <3>3. grant'[g].approver # Null
      BY <1>0, <3>1, <3>2, NullAssumption DEF Approved, Row
    <3>4. q = p => call'[q].now = call[p].now /\ call'[q].did = "approved" /\ call'[q].grant = g
      BY <1>0, <3>1, <3>2 DEF ToAudit, Goto, Call
    <3>5. q # p => call'[q] = call[q]
      BY <1>0, <3>2 DEF ToAudit, Goto
    <3> QED BY <3>3, <3>4, <3>5 DEF CallNext, Ledger!Happened
  <2>3. CASE ApproveConflict(p) \/ ApproveRefused(p)
    BY <1>4, <2>3 DEF ApproveConflict, ApproveRefused
  <2>4. CASE Deny(p)
    BY <2>4, ClosedCallNext DEF Deny, Named, At
  <2>5. CASE Revoke(p)
    BY <2>5, ClosedCallNext DEF Revoke, Named, At
  <2>6. CASE RevokeRecheck(p)
    BY <1>4, <1>6, <2>6 DEF RevokeRecheck, Steps
  <2> QED BY <1>7, <2>1, <2>2, <2>3, <2>4, <2>5, <2>6 DEF Decide
<1>8. ASSUME NEW p \in Procs, Reveal(p) PROVE CallNext(q)
  <2>1. ASSUME NEW a \in Admins, NEW g \in Grants, NEW s \in Scopes, RevealBegin(p, a, g, s)
        PROVE  CallNext(q)
    <3> DEFINE held == [Idle EXCEPT !.pc = "assert", !.grant = g, !.scope = s]
    <3>1. held \in Call /\ held.pc # "audit"
      BY DEF Idle, Call, Steps
    <3>2. Start(p, a, MayReveal, held)
      BY <2>1 DEF RevealBegin
    <3> HIDE DEF held
    <3> QED BY <1>2, <3>1, <3>2
  <2>2. CASE RevealAssert(p)
    BY <1>4, <1>5, <2>2 DEF RevealAssert, Steps
  <2>3. CASE RevealLog(p)
    BY <1>4, <1>6, <2>3 DEF RevealLog, Steps
  <2>4. CASE RevealCommit(p)
    <3> DEFINE e == <<call[p].admin, call[p].grant, call[p].scope>>
    <3>1. e \in reveals' /\ ToAudit(p, call[p].grant, "revealed")
      BY <2>4 DEF RevealCommit
    <3>2. q = p => /\ call'[q].now = call[p].now /\ call'[q].did = "revealed"
                   /\ call'[q].grant = e[2]
      BY <1>0, <3>1 DEF ToAudit, Goto, Call
    <3>3. q # p => call'[q] = call[q]
      BY <1>0, <3>1 DEF ToAudit, Goto
    <3> QED BY <3>1, <3>2, <3>3 DEF CallNext, Ledger!Happened
  <2> QED BY <1>8, <2>1, <2>2, <2>3, <2>4 DEF Reveal
<1>9. ASSUME NEW p \in Procs, Audit(p) \/ Abort(p) PROVE CallNext(q)
  BY <1>4, <1>9 DEF Audit, Abort
<1>10. CASE \/ Cleanup \/ (\E a \in Movable, r \in Roles : Revise(a, r))
            \/ Tick \/ UNCHANGED vars
  BY <1>1, <1>10 DEF Cleanup, Revise, Tick, vars
<1> QED BY <1>3, <1>7, <1>8, <1>9, <1>10 DEF Next

\* Only an audit adds to the trail and to what is seen, and it adds its own call.
LEMMA StepTrail ==
  ASSUME IInv, [Next]_vars
  PROVE  \/ trail' = trail
         \/ \E p \in Procs : At(p, "audit") /\ trail' = trail \cup {<<call[p].did, call[p].grant>>}
<1>1. ASSUME NEW p \in Procs, Request(p) PROVE UNCHANGED trail
  BY <1>1 DEF Request, RequestBegin, Start, RequestInsert
<1>2. ASSUME NEW p \in Procs, Decide(p) PROVE UNCHANGED trail
  BY <1>2 DEF Decide, ApproveBegin, DenyBegin, RevokeBegin, Start, Approve, ApproveConflict,
              ApproveRefused, Deny, RevokeRecheck, Revoke
<1>3. ASSUME NEW p \in Procs, Reveal(p) \/ Abort(p) PROVE UNCHANGED trail
  BY <1>3 DEF Reveal, RevealBegin, Start, RevealAssert, RevealLog, RevealCommit, Abort
<1>4. CASE \/ Cleanup \/ (\E a \in Movable, r \in Roles : Revise(a, r))
           \/ Tick \/ UNCHANGED vars
  BY <1>4 DEF Cleanup, Revise, Tick, vars
<1> QED BY <1>1, <1>2, <1>3, <1>4 DEF Next, Audit

\* The clock stands or moves on by one.
LEMMA StepNow == ASSUME [Next]_vars PROVE now' = now \/ Tick
<1>1. ASSUME NEW p \in Procs, Request(p) PROVE UNCHANGED now
  BY <1>1 DEF Request, RequestBegin, Start, RequestInsert
<1>2. ASSUME NEW p \in Procs, Decide(p) PROVE UNCHANGED now
  BY <1>2 DEF Decide, ApproveBegin, DenyBegin, RevokeBegin, Start, Approve, ApproveConflict,
              ApproveRefused, Deny, RevokeRecheck, Revoke
<1>3. ASSUME NEW p \in Procs, Reveal(p) \/ Audit(p) \/ Abort(p) PROVE UNCHANGED now
  BY <1>3 DEF Reveal, RevealBegin, Start, RevealAssert, RevealLog, RevealCommit, Audit, Abort
<1>4. CASE Cleanup \/ (\E a \in Movable, r \in Roles : Revise(a, r)) \/ UNCHANGED vars
  BY <1>4 DEF Cleanup, Revise, vars
<1> QED BY <1>1, <1>2, <1>3, <1>4 DEF Next

LEMMA NextLedgerInv == ASSUME IInv, LedgerInv, [Next]_vars PROVE LedgerInv'
<1>0. call \in [Procs -> Call] /\ now \in Nat /\ now' \in Nat /\ now <= now'
  BY StepNow, HorizonAssumption DEF IInv, TypeOK, Tick
<1>1. ASSUME NEW q \in Procs
      PROVE  /\ call'[q].now <= now'
             /\ At(q, "audit")' => Ledger!Happened(call[q].did, call[q].grant)'
  <2>1. CallNext(q) /\ call[q].now <= now /\ call[q].now \in Nat
    BY <1>0, EveryCallNext DEF LedgerInv, Call
  <2>2. CASE call'[q] = call[q]
    <3>1. At(q, "audit") => call[q].grant \in Grants
      BY DEF IInv, CallInv, Named, At
    <3>2. At(q, "audit") => Ledger!Happened(call[q].did, call[q].grant)
      BY DEF LedgerInv
    <3>3. \A did, g : g \in Grants /\ Ledger!Happened(did, g) => Ledger!Happened(did, g)'
      BY HappenedStays
    <3>4. At(q, "audit") => Ledger!Happened(call[q].did, call[q].grant)'
      BY <2>2, <3>1, <3>2, <3>3 DEF Ledger!Happened
    <3> QED BY <1>0, <2>1, <2>2, <3>4 DEF At
  <2>3. CASE call'[q] = Idle
    BY <1>0, <2>3 DEF Idle, At
  <2>4. CASE call'[q].pc # "audit" /\ call'[q].now \in {now, call[q].now}
    BY <1>0, <2>1, <2>4 DEF At
  <2>5. CASE call'[q].now = call[q].now /\ Ledger!Happened(call[q].did, call[q].grant)'
    BY <1>0, <2>1, <2>5
  <2> QED BY <2>1, <2>2, <2>3, <2>4, <2>5 DEF CallNext
<1>2. ASSUME NEW x \in trail' PROVE Ledger!Happened(x[1], x[2])'
  <2>1. x[2] \in Grants /\ Ledger!Happened(x[1], x[2])
    <3>1. CASE x \in trail
      BY <3>1 DEF LedgerInv, IInv, TypeOK
    <3>2. CASE x \notin trail
      <4>1. PICK p \in Procs : At(p, "audit") /\ x = <<call[p].did, call[p].grant>>
        BY <3>2, StepTrail
      <4> QED BY <4>1 DEF LedgerInv, IInv, CallInv, Named, At
    <3> QED BY <3>1, <3>2
  <2> QED BY <2>1, HappenedStays
<1> QED BY <1>1, <1>2 DEF LedgerInv

\* Every reachable call and audit row says what has happened.
LEMMA LedgerInvariance == Spec => [](IInv /\ LedgerInv)
<1>1. Init => IInv /\ LedgerInv
  BY InitInv, InitLedgerInv
<1>2. IInv /\ LedgerInv /\ [Next]_vars => IInv' /\ LedgerInv'
  BY NextInv, NextLedgerInv
<1> QED BY <1>1, <1>2, PTL DEF Spec

\* A call whose step the ledger does not see: it opens no read.
LEMMA SilentStep ==
  ASSUME IInv, NEW p \in Procs, NEW held, Goto(p, held),
         held.pc \in {"log", "commit"} =>
           /\ call[p].pc \in {"log", "commit"} /\ held.admin = call[p].admin
           /\ held.grant = call[p].grant /\ held.scope = call[p].scope
  PROVE  /\ Opened' \subseteq Opened
         /\ UNCHANGED <<now, grant, reveals, trail, seen>> => Ledger!Next
<1>1. /\ call'[p] = held
      /\ \A q \in Procs \ {p} : call'[q] = call[q]
  BY DEF Goto, IInv, TypeOK
<1>2. Opened' \subseteq Opened
  BY <1>1 DEF Opened
<1>3. UNCHANGED <<now, grant, reveals, trail, seen>> => Ledger!GiveUp
  BY <1>2 DEF Ledger!GiveUp, Ledger!NoneOpened, Ledger!logs
<1> QED BY <1>2, <1>3 DEF Ledger!Next

\* Nothing is opened by a step that goes on to the audit.
LEMMA ToAuditStep ==
  ASSUME IInv, NEW p \in Procs, NEW g \in Grants, NEW did, ToAudit(p, g, did)
  PROVE  Opened' \subseteq Opened
<1> DEFINE held == [call[p] EXCEPT !.pc = "audit", !.grant = g, !.did = did]
<1>1. Goto(p, held) /\ held.pc = "audit"
  BY DEF ToAudit, IInv, TypeOK, Call
<1> HIDE DEF held
<1> QED BY <1>1, SilentStep

\* A request is a row nobody decided on, for a window within the ceiling.
LEMMA RequestInsertStep ==
  ASSUME IInv, LedgerInv, NEW p \in Procs, NEW u \in Subjects, NEW scopes \in SUBSET Scopes,
         NEW window \in 1..Ceiling, RequestInsert(p, u, scopes, window)
  PROVE  Ledger!Next
<1> PICK g \in Grants : /\ ~Exists(g)
                       /\ grant' = [grant EXCEPT ![g] = Requested(p, u, scopes, window)]
                       /\ ToAudit(p, g, "requested")
  BY DEF RequestInsert
<1> DEFINE row == [status |-> "pending_approval", holder |-> call[p].admin, subject |-> u,
                   scopes |-> scopes, requested |-> call[p].now, approver |-> Null,
                   granted |-> 0, expires |-> call[p].now + window]
<1>1. call[p].admin \in Admins /\ call[p].now \in 0..now
  <2>1. call[p] \in Call /\ now \in Nat /\ call[p].now <= now
    BY HorizonAssumption DEF IInv, TypeOK, LedgerInv
  <2>2. call[p].admin \in Admins
    BY DEF IInv, CallInv, RequestInsert, At
  <2> QED BY <2>1, <2>2 DEF Call
<1>2. Requested(p, u, scopes, window) = row
  <2> DEFINE new == Requested(p, u, scopes, window)
  <2>1. Absent \in Row /\ call[p].now + window \in Nat
    BY <1>1, CeilingAssumption, HorizonAssumption DEF Absent, Row, GrantStatus, IInv, TypeOK
  <2>2. new \in Row /\ row \in Row
    <3>1. call[p].now \in Nat /\ "pending_approval" \in GrantStatus
      BY <1>1, HorizonAssumption DEF IInv, TypeOK, GrantStatus
    <3>2. new \in Row
      BY <1>1, <2>1, <3>1 DEF Requested, Row
    <3>3. row \in Row
      BY <1>1, <2>1, <3>1 DEF Row
    <3> QED BY <3>2, <3>3
  <2>3. /\ new.status = row.status /\ new.holder = row.holder /\ new.subject = row.subject
        /\ new.scopes = row.scopes /\ new.requested = row.requested /\ new.approver = row.approver
        /\ new.granted = row.granted /\ new.expires = row.expires
    BY DEF Requested, Absent
  <2> HIDE DEF new, row
  <2> QED BY <2>2, <2>3 DEF Row, new
<1>3. Opened' \subseteq Opened
  BY ToAuditStep
<1>4. Ledger!Ask(g)
  <2>0. call[p].admin \in Admins /\ call[p].now \in 0..now
    BY <1>1
  <2>1. grant[g].status = "absent"
    BY DEF Exists
  <2>2. grant' = [grant EXCEPT ![g] = row]
    BY <1>2
  <2>3. UNCHANGED <<now, reveals, trail, seen>>
    BY DEF RequestInsert
  <2>4. \E a \in Admins, v \in Subjects, wanted \in SUBSET Scopes, since \in 0..now, w \in 1..Ceiling :
          grant' = [grant EXCEPT ![g] =
            [status |-> "pending_approval", holder |-> a, subject |-> v, scopes |-> wanted,
             requested |-> since, approver |-> Null, granted |-> 0, expires |-> since + w]]
    <3> USE <2>0
    <3> WITNESS call[p].admin \in Admins, u \in Subjects, scopes \in SUBSET Scopes,
                call[p].now \in 0..now, window \in 1..Ceiling
    <3> QED BY <2>2
  <2> QED BY <1>3, <2>1, <2>3, <2>4 DEF Ledger!Ask, Ledger!NoneOpened, Ledger!logs
<1> QED BY <1>4 DEF Ledger!Next

\* An approval counts from the clock it read, which has not run ahead.
LEMMA ApproveStep == ASSUME IInv, LedgerInv, NEW p \in Procs, Approve(p) PROVE Ledger!Next
<1> DEFINE g == call[p].grant
           until == Rebased(p, g)
<1>1. /\ g \in Grants /\ call[p].admin \in Admins /\ call[p].now \in 0..now /\ grant[g] \in Row
  <2>1. call[p] \in Call /\ now \in Nat /\ call[p].now <= now
    BY HorizonAssumption DEF IInv, TypeOK, LedgerInv
  <2>2. g \in Grants /\ call[p].admin \in Admins
    BY DEF IInv, CallInv, Named, Approve, At
  <2>3. grant[g] \in Row
    BY <2>2 DEF IInv, TypeOK
  <2> QED BY <2>1, <2>2, <2>3 DEF Call
<1>2. Approvable(p, g) /\ ~SlotTaken(g) /\ grant' = [grant EXCEPT ![g] = Approved(p, g)]
  BY DEF Approve
<1>3. /\ until \in (call[p].now + 1)..(grant[g].requested + Ceiling)
      /\ until - call[p].now <= grant[g].expires - grant[g].requested
  BY <1>1, <1>2, CeilingAssumption DEF Approvable, Rebased, Row
<1>4. \A h \in Grants : grant[h].status = "active" =>
        grant[h].holder # grant[g].holder \/ grant[h].subject # grant[g].subject
  BY <1>2 DEF SlotTaken, Approvable
<1>5. Opened' \subseteq Opened
  BY <1>1, ToAuditStep DEF Approve
<1> HIDE DEF until
<1>6. Ledger!Approve(g, call[p].admin, call[p].now)
  <2>1. Approved(p, g) =
          [grant[g] EXCEPT !.status = "active", !.approver = call[p].admin,
                           !.granted = call[p].now, !.expires = until]
    BY DEF Approved, until
  <2>2. grant' = [grant EXCEPT ![g] =
          [grant[g] EXCEPT !.status = "active", !.approver = call[p].admin,
                           !.granted = call[p].now, !.expires = until]]
    BY <1>2, <2>1
  <2> QED BY <1>2, <1>3, <1>4, <1>5, <2>2
      DEF Ledger!Approve, Approvable, Approve, Ledger!NoneOpened, Ledger!logs
<1> QED BY <1>1, <1>6 DEF Ledger!Next

\* A denial or a revocation, or one that comes too late.
LEMMA CloseStep ==
  ASSUME IInv, NEW p \in Procs, NEW from \in SUBSET {"pending_approval", "active"},
         NEW status \in {"denied", "revoked"},
         status = "denied" => from = {"pending_approval"},
         Named(p), CloseWhere(p, from, status), UNCHANGED <<now, role, reveals, trail, seen>>
  PROVE  Ledger!Next
<1> DEFINE g == call[p].grant
<1>1. g \in Grants /\ grant \in [Grants -> Row]
  BY DEF IInv, TypeOK, CallInv, Named
<1>2. CASE Goto(p, Idle) /\ UNCHANGED grant
  BY <1>2, SilentStep DEF Idle
<1>3. CASE /\ grant[g].status \in from
           /\ grant' = [grant EXCEPT ![g].status = status]
           /\ ToAudit(p, g, status)
  <2>1. Opened' \subseteq Opened
    BY <1>1, <1>3, ToAuditStep
  <2>2. grant' = [h \in Grants |-> IF h \in {g} THEN [grant[h] EXCEPT !.status = status] ELSE grant[h]]
    BY <1>1, <1>3
  <2>3. \A h \in {g} : Ledger!MayBecome(h, status)
    BY <1>3 DEF Ledger!MayBecome
  <2>4. Ledger!Close({g}, status)
    BY <2>1, <2>2, <2>3 DEF Ledger!Close, Ledger!NoneOpened, Ledger!logs
  <2> QED BY <1>1, <2>4 DEF Ledger!Next
<1> QED BY <1>2, <1>3 DEF CloseWhere

\* The sweep only closes what has lapsed.
LEMMA CleanupStep == ASSUME IInv, Cleanup PROVE Ledger!Next
<1> DEFINE S == {g \in Grants : Lapsed(g)}
<1>1. \A g \in S : Ledger!MayBecome(g, "expired")
  BY DEF Lapsed, Ledger!MayBecome
<1>2. Opened' = Opened
  BY DEF Cleanup, Opened
<1>3. Ledger!Close(S, "expired")
  BY <1>1, <1>2 DEF Cleanup, Ledger!Close, Ledger!NoneOpened, Ledger!logs
<1>4. S \in SUBSET Grants
  OBVIOUS
<1> QED BY <1>3, <1>4 DEF Ledger!Next

\* The assertion opens a read inside the window; the log entry goes on with it.
LEMMA RevealAssertStep == ASSUME IInv, NEW p \in Procs, RevealAssert(p) PROVE Ledger!Next
<1> DEFINE held == [call[p] EXCEPT !.pc = "log", !.now = now]
           e == <<call[p].admin, call[p].grant, call[p].scope>>
<1>0. /\ call[p] \in Call /\ call[p].admin \in Admins /\ call[p].grant \in Grants
      /\ call[p].scope \in Scopes /\ call[p].pc = "assert"
  BY DEF IInv, TypeOK, CallInv, Named, RevealAssert, At
<1>1. UNCHANGED <<now, grant, reveals, trail, seen>>
  BY DEF RevealAssert
<1>2. CASE Goto(p, Idle)
  BY <1>1, <1>2, SilentStep DEF Idle
<1>3. CASE Covers(p, now) /\ Goto(p, held)
  <2>1. /\ held.pc = "log" /\ held.admin = call[p].admin /\ held.grant = call[p].grant
        /\ held.scope = call[p].scope
    BY <1>0 DEF Call
  <2> HIDE DEF held
  <2>2. call'[p] = held /\ \A q \in Procs \ {p} : call'[q] = call[q]
    BY <1>3 DEF Goto, IInv, TypeOK
  <2>3. Opened' = Opened \cup {e}
    BY <1>0, <2>1, <2>2 DEF Opened
  <2>4. Ledger!Open(call[p].admin, call[p].grant, call[p].scope)
    BY <1>1, <1>3, <2>3 DEF Ledger!Open, Ledger!Live, Covers, IsLive, Ledger!logs
  <2> QED BY <1>0, <2>4 DEF Ledger!Next
<1> QED BY <1>2, <1>3 DEF RevealAssert

\* The read happens at the commit, which its lock has kept active.
LEMMA RevealCommitStep == ASSUME IInv, NEW p \in Procs, RevealCommit(p) PROVE Ledger!Next
<1> DEFINE e == <<call[p].admin, call[p].grant, call[p].scope>>
<1>1. call[p].grant \in Grants /\ grant[call[p].grant].status = "active"
  BY DEF IInv, CallInv, Named, RevealCommit, At, Covers, IsLive
<1>2. e \in Opened
  BY DEF Opened, RevealCommit, At
<1>3. Opened' \subseteq Opened
  BY <1>1, ToAuditStep DEF RevealCommit
<1>4. Ledger!Read(e)
  BY <1>1, <1>2, <1>3 DEF Ledger!Read, RevealCommit, Ledger!NoneOpened
<1> QED BY <1>2, <1>4 DEF Ledger!Next

\* What is recorded has happened, and what is shown was read.
LEMMA AuditStep == ASSUME IInv, LedgerInv, NEW p \in Procs, Audit(p) PROVE Ledger!Next
<1> DEFINE g == call[p].grant
           e == <<call[p].admin, call[p].grant, call[p].scope>>
<1>1. /\ g \in Grants /\ call[p].did \in Actions /\ Ledger!Happened(call[p].did, g)
      /\ call[p].did = "revealed" => e \in reveals
  BY DEF IInv, CallInv, Named, LedgerInv, Audit, At
<1>2. /\ Goto(p, Idle) /\ Idle.pc = "idle" /\ UNCHANGED <<now, grant, reveals>>
  BY DEF Audit, Idle
<1>3. Opened' \subseteq Opened /\ (UNCHANGED <<trail, seen>> => Ledger!Next)
  BY <1>2, SilentStep
<1>4. CASE trail' = trail \cup {<<call[p].did, g>>} /\ seen' = seen \cup Shown(p)
  <2>1. \/ UNCHANGED seen
        \/ call[p].did = "revealed" /\ \E x \in reveals : x[2] = g /\ seen' = seen \cup {x}
    <3>1. CASE call[p].did = "revealed"
      <4>1. e \in reveals /\ e[2] = g /\ seen' = seen \cup {e}
        BY <1>1, <1>4, <3>1 DEF Shown
      <4> QED BY <3>1, <4>1
    <3>2. CASE call[p].did # "revealed"
      BY <1>4, <3>2 DEF Shown
    <3> QED BY <3>1, <3>2
  <2>2. Ledger!Record(call[p].did, g)
    BY <1>1, <1>2, <1>3, <1>4, <2>1 DEF Ledger!Record, Ledger!NoneOpened
  <2> QED BY <1>1, <2>2 DEF Ledger!Next, Ledger!Decided, Actions
<1> QED BY <1>3, <1>4 DEF Audit

LEMMA NextStep == ASSUME IInv, LedgerInv, [Next]_vars PROVE LedgerStep
<1>0. \A p \in Procs : call[p] \in Call
  BY DEF IInv, TypeOK
<1>1. ASSUME NEW p \in Procs, NEW a, NEW allowed, NEW held \in Call,
             held.pc \notin {"log", "commit"}, Start(p, a, allowed, held)
      PROVE  Ledger!Next
  <2> DEFINE new == [held EXCEPT !.admin = a, !.now = now]
  <2>1. new.pc \notin {"log", "commit"}
    BY <1>1 DEF Call
  <2>2. Goto(p, new) /\ UNCHANGED <<now, grant, reveals, trail, seen>>
    BY <1>1 DEF Start
  <2> HIDE DEF new
  <2> QED BY <2>1, <2>2, SilentStep
<1>2. ASSUME NEW p \in Procs, Goto(p, Idle), UNCHANGED <<now, grant, reveals, trail, seen>>
      PROVE  Ledger!Next
  BY <1>2, SilentStep DEF Idle
<1>3. ASSUME NEW p \in Procs, Request(p) PROVE Ledger!Next
  <2>1. ASSUME NEW a \in Admins, RequestBegin(p, a) PROVE Ledger!Next
    <3>1. [Idle EXCEPT !.pc = "request"] \in Call /\ [Idle EXCEPT !.pc = "request"].pc = "request"
      BY DEF Idle, Call, Steps
    <3> QED BY <1>1, <2>1, <3>1 DEF RequestBegin
  <2> QED BY <1>3, <2>1, RequestInsertStep DEF Request
<1>4. ASSUME NEW p \in Procs, Decide(p) PROVE Ledger!Next
  <2>1. ASSUME NEW a \in Admins, NEW g \in Grants,
               ApproveBegin(p, a, g) \/ DenyBegin(p, a, g) \/ RevokeBegin(p, a, g)
        PROVE  Ledger!Next
    <3> DEFINE held(step) == [Idle EXCEPT !.pc = step, !.grant = g]
    <3>1. ASSUME NEW step \in {"approve", "deny", "recheck", "revoke"}, NEW allowed,
                 Start(p, a, allowed, held(step))
          PROVE  Ledger!Next
      <4>1. held(step) \in Call /\ held(step).pc \notin {"log", "commit"}
        BY DEF Idle, Call, Steps
      <4> HIDE DEF held
      <4> QED BY <1>1, <3>1, <4>1
    <3>2. CASE ApproveBegin(p, a, g) \/ DenyBegin(p, a, g)
      BY <3>1, <3>2 DEF ApproveBegin, DenyBegin
    <3>3. CASE RevokeBegin(p, a, g)
      <4> DEFINE step == IF grant[g].holder = a THEN "revoke" ELSE "recheck"
      <4>1. Start(p, a, MayRequest, held(step)) /\ step \in {"approve", "deny", "recheck", "revoke"}
        BY <3>3 DEF RevokeBegin
      <4> HIDE DEF step, held
      <4> QED BY <3>1, <4>1
    <3> QED BY <2>1, <3>2, <3>3
  <2>2. CASE Approve(p)
    BY <2>2, ApproveStep
  <2>3. CASE ApproveConflict(p) \/ ApproveRefused(p)
    BY <1>2, <2>3 DEF ApproveConflict, ApproveRefused
  <2>4. CASE Deny(p)
    BY <2>4, CloseStep DEF Deny, Named, At
  <2>5. CASE Revoke(p)
    BY <2>5, CloseStep DEF Revoke, Named, At
  <2>6. CASE RevokeRecheck(p)
    <3>1. CASE Goto(p, [call[p] EXCEPT !.pc = "revoke"])
      <4>1. [call[p] EXCEPT !.pc = "revoke"].pc = "revoke"
        BY <1>0 DEF Call
      <4> QED BY <2>6, <3>1, <4>1, SilentStep DEF RevokeRecheck
    <3> QED BY <1>2, <2>6, <3>1 DEF RevokeRecheck
  <2> QED BY <1>4, <2>1, <2>2, <2>3, <2>4, <2>5, <2>6 DEF Decide
<1>5. ASSUME NEW p \in Procs, Reveal(p) PROVE Ledger!Next
  <2>1. ASSUME NEW a \in Admins, NEW g \in Grants, NEW s \in Scopes, RevealBegin(p, a, g, s)
        PROVE  Ledger!Next
    <3> DEFINE held == [Idle EXCEPT !.pc = "assert", !.grant = g, !.scope = s]
    <3>1. held \in Call /\ held.pc = "assert" /\ Start(p, a, MayReveal, held)
      BY <2>1 DEF Idle, Call, Steps, RevealBegin
    <3> HIDE DEF held
    <3> QED BY <1>1, <3>1
  <2>2. CASE RevealLog(p)
    <3> DEFINE held == [call[p] EXCEPT !.pc = "commit"]
    <3>1. CASE Goto(p, held)
      <4>1. /\ held.admin = call[p].admin /\ held.grant = call[p].grant /\ held.scope = call[p].scope
            /\ call[p].pc = "log"
        BY <1>0, <2>2 DEF Call, RevealLog, At
      <4> HIDE DEF held
      <4> QED BY <2>2, <3>1, <4>1, SilentStep DEF RevealLog
    <3> QED BY <1>2, <2>2, <3>1 DEF RevealLog
  <2> QED BY <1>5, <2>1, <2>2, RevealAssertStep, RevealCommitStep DEF Reveal
<1>6. ASSUME NEW p \in Procs, Audit(p) \/ Abort(p) PROVE Ledger!Next
  BY <1>2, <1>6, AuditStep DEF Abort
<1>7. ASSUME NEW a \in Movable, NEW r \in Roles, Revise(a, r) PROVE UNCHANGED Ledger!vars
  BY <1>7 DEF Revise, Ledger!vars, Opened
<1>8. CASE Tick
  <2>1. Ledger!Tick
    BY <1>8 DEF Tick, Ledger!Tick, Ledger!NoneOpened, Ledger!logs, Opened
  <2> QED BY <2>1 DEF Ledger!Next, LedgerStep
<1>9. CASE UNCHANGED vars
  BY <1>9 DEF vars, Ledger!vars, Opened, LedgerStep
<1> QED BY <1>3, <1>4, <1>5, <1>6, <1>7, <1>8, <1>9, CleanupStep DEF Next, LedgerStep

\* The console's calls, with their stale permission reads, their row locks and
\* their deaths between two statements of support-access.ts and 0019, implement the
\* ledger: decisions and reads take effect in one step each.
THEOREM CallsImplementLedger == Spec => ImplementsLedger
<1>1. Init => Ledger!Init
  BY DEF Init, Ledger!Init, Absent, Ledger!Absent, Opened, Idle
<1>2. IInv /\ LedgerInv /\ [Next]_vars => [Ledger!Next]_(Ledger!vars)
  BY NextStep DEF LedgerStep
<1> QED BY <1>1, <1>2, LedgerInvariance, PTL DEF Spec, ImplementsLedger, Ledger!Spec

\* The audit trail of admin-action.ts only says what has happened: a row that reads
\* "denied" or "revoked" stands beside a grant that is so for good, one that reads
\* "approved" beside an approver, one that reads "revealed" beside a reveal.
TrailIsTrue ==
  \A x \in trail :
    /\ Exists(x[2])
    /\ x[1] = "approved" => grant[x[2]].approver \in Admins \ {grant[x[2]].holder}
    /\ x[1] \in {"denied", "revoked"} => grant[x[2]].status = x[1]
    /\ x[1] = "revealed" => \E e \in reveals : e[2] = x[2]

\* So it is although the audit row of lib/admin-action.ts is written a call after the
\* work it is about, with other operators' decisions in between.
THEOREM TrailIsTrueAlways == Spec => []TrailIsTrue
<1>1. IInv /\ LedgerInv => TrailIsTrue
  <2> SUFFICES ASSUME IInv, LedgerInv, NEW x \in trail
               PROVE  /\ Exists(x[2])
                      /\ x[1] = "approved" => grant[x[2]].approver \in Admins \ {grant[x[2]].holder}
                      /\ x[1] \in {"denied", "revoked"} => grant[x[2]].status = x[1]
                      /\ x[1] = "revealed" => \E e \in reveals : e[2] = x[2]
    BY DEF TrailIsTrue
  <2>1. x[1] \in Actions /\ x[2] \in Grants /\ Ledger!Happened(x[1], x[2])
    BY DEF IInv, TypeOK, LedgerInv
  <2>2. RowInv(x[2]) /\ grant[x[2]] \in Row
    BY <2>1 DEF IInv, TypeOK
  <2>3. ASSUME NEW e \in reveals, e[2] = x[2] PROVE grant[x[2]].approver # Null
    BY <2>3 DEF IInv, LogInv
  <2> QED BY <2>1, <2>2, <2>3 DEF Ledger!Happened, RowInv, Exists, Actions, Row
<1> QED BY <1>1, LedgerInvariance, PTL

\* The operators' standings, which every call of support-access.ts reads and none
\* writes, move only as the roster promises: what AdminRoster is shown to do is all
\* that is assumed of it here.
THEOREM StandingsFollowRoster == Spec => Staff!Spec
<1>1. Init => Staff!Init
  BY DEF Init
<1>2. [Next]_vars => [Staff!Next]_role
  <2> SUFFICES ASSUME [Next]_vars PROVE role' = role \/ Staff!Next
    OBVIOUS
  <2>1. ASSUME NEW a \in Movable, NEW r \in Roles, Revise(a, r) PROVE Staff!Next
    BY <2>1, MovableAssumption DEF Revise, Staff!Next
  <2>2. ASSUME NEW p \in Procs, Request(p) \/ Decide(p) \/ Reveal(p) \/ Audit(p) \/ Abort(p)
        PROVE  role' = role
    <3>1. CASE Request(p) \/ Audit(p) \/ Abort(p)
      BY <3>1 DEF Request, RequestBegin, RequestInsert, Start, Audit, Abort
    <3>2. CASE Decide(p)
      BY <3>2 DEF Decide, ApproveBegin, DenyBegin, RevokeBegin, Start, Approve, ApproveConflict,
                  ApproveRefused, Deny, RevokeRecheck, Revoke
    <3>3. CASE Reveal(p)
      BY <3>3 DEF Reveal, RevealBegin, Start, RevealAssert, RevealLog, RevealCommit
    <3> QED BY <2>2, <3>1, <3>2, <3>3
  <2>3. ASSUME Cleanup \/ Tick \/ UNCHANGED vars PROVE role' = role
    BY <2>3 DEF Cleanup, Tick, vars
  <2> QED BY <2>1, <2>2, <2>3 DEF Next
<1> QED BY <1>1, <1>2, PTL DEF Spec, Staff!Spec

=============================================================================
