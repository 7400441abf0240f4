----------------------------- MODULE AdminRoster -----------------------------
(***************************************************************************)
(* The console's own roster: operators and their sessions (auth.ts,        *)
(* actions/admins.ts, migration 0019).                                     *)
(*                                                                         *)
(* A call of the console is a process, and every call it makes to the      *)
(* database is a step of its own.  An UPDATE of admin_users that takes a   *)
(* super_admin away is a transaction of several steps: it locks its row,   *)
(* waits for the advisory lock of the floor trigger, counts the others and *)
(* commits.  What a form carries is chosen when it is used.                *)
(*                                                                         *)
(* Abstracted: passwords, MFA and CSRF (a sign-in starts where the         *)
(* database is asked who it is), reasons, the rate limiter, the audit      *)
(* trail (SupportAccess models the runner), and what the roles other than  *)
(* super_admin may do: only that one changes the roster.  Left out:        *)
(* invites, and the sweep, which deletes sessions a month after their end, *)
(* when nothing reads them.                                                *)
(***************************************************************************)
EXTENDS Naturals

CONSTANTS
  Admins,      \* ids of admin_users rows
  Sessions,    \* ids of admin_sessions rows
  Procs,       \* calls of the console that may be in flight together
  OtherRoles,  \* the admin_roles but super_admin
  IdleWindow,  \* ADMIN_SESSION_IDLE_SECONDS
  HardWindow,  \* ADMIN_SESSION_ABSOLUTE_SECONDS
  Horizon,     \* bound: the clock stops here
  Null

ASSUME WindowsAssumption ==
  /\ IdleWindow \in Nat \ {0} /\ HardWindow \in Nat /\ IdleWindow <= HardWindow
  /\ Horizon \in Nat
ASSUME NullAssumption == Null \notin Procs \cup Admins

VARIABLES
  now,      \* the clock
  admin,    \* admin_users: [role, status, bound]
  session,  \* admin_sessions: [owner, idle, hard, revoked], or None
  floor,    \* the call that holds the floor trigger's advisory lock, or Null
  call      \* what each call in flight holds

vars == <<now, admin, session, floor, call>>

Roles == {"super_admin"} \cup OtherRoles
Status == {"invited", "active", "disabled"}
Times == 0 .. (Horizon + HardWindow)
None == [owner |-> Null, idle |-> 0, hard |-> 0, revoked |-> FALSE]

AdminRow == [role : Roles, status : Status, bound : BOOLEAN]
SessionRow ==
  {r \in [owner : Admins, idle : Times, hard : Times, revoked : BOOLEAN] : r.idle <= r.hard}

\* floor, count and commit are inside a transaction that holds the target's row.
InTransaction == {"floor", "count", "commit"}
Steps == InTransaction \cup {"idle", "resolved", "touched", "authorized", "work", "reopen", "evict"}

Idle == [step |-> "idle", actor |-> Null, session |-> Null, target |-> Null,
         role |-> "super_admin", status |-> "invited"]

Call ==
  [step : Steps, actor : Admins \cup {Null}, session : Sessions \cup {Null}, target : Admins \cup {Null},
   role : Roles, status : Status]

TypeOK ==
  /\ now \in 0 .. Horizon
  /\ admin \in [Admins -> AdminRow]
  /\ session \in [Sessions -> SessionRow \cup {None}]
  /\ floor \in Procs \cup {Null}
  /\ call \in [Procs -> Call]

IsEnabled(row) == row.role = "super_admin" /\ row.status = "active" /\ row.bound

\* A deployment starts with the operators taken over from staff_members.
Init ==
  /\ now = 0
  /\ admin \in [Admins -> {r \in AdminRow : r.status = "active" /\ r.bound}]
  /\ \E a \in Admins : IsEnabled(admin[a])
  /\ session = [s \in Sessions |-> None]
  /\ floor = Null
  /\ call = [p \in Procs |-> Idle]

At(p, step) == call[p].step = step
Done(p) == call' = [call EXCEPT ![p] = Idle]
Least(a, b) == IF a < b THEN a ELSE b

-----------------------------------------------------------------------------
(* Signing in and out *)

\* admin_resolve_by_auth_user, after the password or the second factor.
Resolve(p) ==
  /\ At(p, "idle")
  /\ \E a \in Admins :
       /\ admin[a].status = "active"
       /\ call' = [call EXCEPT ![p] = [Idle EXCEPT !.step = "resolved", !.actor = a]]
  /\ UNCHANGED <<now, admin, session, floor>>

\* Nothing asks again whether the operator is still active.
Issue(p) ==
  /\ At(p, "resolved")
  /\ \E s \in Sessions :
       /\ session[s] = None
       /\ session' = [session EXCEPT ![s] =
            [owner |-> call[p].actor, idle |-> now + IdleWindow, hard |-> now + HardWindow, revoked |-> FALSE]]
  /\ Done(p)
  /\ UNCHANGED <<now, admin, floor>>

SignOut(s) ==
  /\ session[s] # None
  /\ session' = [session EXCEPT ![s].revoked = TRUE]
  /\ UNCHANGED <<now, admin, floor, call>>

-----------------------------------------------------------------------------
(* A request: its session is touched, its permission read, then asked again *)

\* Mutant: the idle deadline is slid without looking at it.
UsableUnlessHard(s) ==
  /\ session[s] # None /\ ~session[s].revoked
  /\ session[s].hard > now
  /\ admin[session[s].owner].status = "active"

Usable(s) ==
  /\ session[s] # None /\ ~session[s].revoked
  /\ session[s].idle > now /\ session[s].hard > now
  /\ admin[session[s].owner].status = "active"

\* admin_touch_session, one statement.
Touch(p) ==
  /\ At(p, "idle")
  /\ \E s \in Sessions :
       /\ Usable(s)
       /\ session' = [session EXCEPT ![s].idle = Least(now + IdleWindow, session[s].hard)]
       /\ call' = [call EXCEPT ![p] =
            [Idle EXCEPT !.step = "touched", !.actor = session[s].owner, !.session = s]]
  /\ UNCHANGED <<now, admin, floor>>

Permitted(a) == admin[a].status = "active" /\ admin[a].role = "super_admin"

\* loadIdentity and loadPermissions, in later statements.
Authorize(p) ==
  /\ At(p, "touched")
  /\ IF Permitted(call[p].actor) THEN call' = [call EXCEPT ![p].step = "authorized"] ELSE Done(p)
  /\ UNCHANGED <<now, admin, session, floor>>

\* admin_has_permission, at the moment of acting.
Ask(p) ==
  /\ At(p, "authorized")
  /\ IF Permitted(call[p].actor) THEN call' = [call EXCEPT ![p].step = "work"] ELSE Done(p)
  /\ UNCHANGED <<now, admin, session, floor>>

-----------------------------------------------------------------------------
(* An UPDATE of admin_users, through the floor trigger *)

RowFree(a) == \A p \in Procs : call[p].step \in InTransaction => call[p].target # a

\* Where a call goes on once its row is written: a closed account's sessions go next.
Onward(p, a, row) ==
  call' = [call EXCEPT ![p] = IF row.status = "disabled" /\ admin[a].status # "disabled"
                                THEN [Idle EXCEPT !.step = "evict", !.target = a]
                                ELSE Idle]

\* The row is locked; if it stops being an enabled super_admin the trigger
\* wants the advisory lock first.
Update(p, a, row) ==
  /\ RowFree(a)
  /\ IF IsEnabled(admin[a]) /\ ~IsEnabled(row)
       THEN /\ call' = [call EXCEPT ![p] = [Idle EXCEPT
                 !.step = "floor", !.target = a, !.role = row.role, !.status = row.status]]
            /\ UNCHANGED admin
       ELSE /\ admin' = [admin EXCEPT ![a] = row]
            /\ Onward(p, a, row)
  /\ UNCHANGED <<now, session, floor>>

\* The form names the role it changes from; another one is a conflict.
ChangeRole(p) ==
  /\ At(p, "work")
  /\ \E a \in Admins \ {call[p].actor}, to \in Roles :
       /\ to # admin[a].role
       /\ Update(p, a, [admin[a] EXCEPT !.role = to])

Disable(p) ==
  /\ At(p, "work")
  /\ \E a \in Admins \ {call[p].actor} :
       /\ admin[a].status # "disabled"
       /\ Update(p, a, [admin[a] EXCEPT !.status = "disabled"])

\* Mutant: the trigger counts without taking its lock.
TakeFloorUnlocked(p) ==
  /\ At(p, "floor")
  /\ call' = [call EXCEPT ![p].step = "count"]
  /\ UNCHANGED <<now, admin, session, floor>>

TakeFloor(p) ==
  /\ At(p, "floor")
  /\ floor = Null
  /\ floor' = p
  /\ call' = [call EXCEPT ![p].step = "count"]
  /\ UNCHANGED <<now, admin, session>>

Released(p) == floor' = IF floor = p THEN Null ELSE floor

\* The statements of the trigger see what was committed before each of them.
Count(p) ==
  /\ At(p, "count")
  /\ IF \E a \in Admins \ {call[p].target} : IsEnabled(admin[a])
       THEN call' = [call EXCEPT ![p].step = "commit"] /\ UNCHANGED floor
       ELSE Done(p) /\ Released(p)
  /\ UNCHANGED <<now, admin, session>>

\* Mutant: the lock belongs to the connection, which goes back to the pool.
CommitHolding(p) ==
  /\ At(p, "commit")
  /\ LET row == [admin[call[p].target] EXCEPT !.role = call[p].role, !.status = call[p].status] IN
       /\ admin' = [admin EXCEPT ![call[p].target] = row]
       /\ Onward(p, call[p].target, row)
  /\ UNCHANGED <<now, session, floor>>

Commit(p) ==
  /\ At(p, "commit")
  /\ LET row == [admin[call[p].target] EXCEPT !.role = call[p].role, !.status = call[p].status] IN
       /\ admin' = [admin EXCEPT ![call[p].target] = row]
       /\ Onward(p, call[p].target, row)
  /\ Released(p)
  /\ UNCHANGED <<now, session>>

-----------------------------------------------------------------------------
(* The rest of a closed or reopened account *)

Ended(a, kept) ==
  [s \in Sessions |-> IF session[s].owner = a /\ s # kept
                        THEN [session[s] EXCEPT !.revoked = TRUE] ELSE session[s]]

\* admin_revoke_sessions, after the account was closed.
Evict(p) ==
  /\ At(p, "evict")
  /\ session' = Ended(call[p].target, Null)
  /\ Done(p)
  /\ UNCHANGED <<now, admin, floor>>

\* One's own sessions go but the one in use.
RevokeSessions(p) ==
  /\ At(p, "work")
  /\ \E a \in Admins :
       session' = Ended(a, IF a = call[p].actor THEN call[p].session ELSE Null)
  /\ Done(p)
  /\ UNCHANGED <<now, admin, floor>>

\* An account whose login was erased comes back as invited.
ReadBinding(p) ==
  /\ At(p, "work")
  /\ \E a \in Admins :
       call' = [call EXCEPT ![p] = [Idle EXCEPT
         !.step = "reopen", !.target = a, !.status = IF admin[a].bound THEN "active" ELSE "invited"]]
  /\ UNCHANGED <<now, admin, session, floor>>

\* admin_users_active_needs_auth_user
Accepts(row) == row.status = "active" => row.bound

\* Mutant: no constraint stands behind the status derived a statement ago.
ReopenUnchecked(p) ==
  /\ At(p, "reopen")
  /\ LET a == call[p].target IN
       /\ RowFree(a)
       /\ admin' = IF admin[a].status = "disabled"
                     THEN [admin EXCEPT ![a].status = call[p].status] ELSE admin
  /\ Done(p)
  /\ UNCHANGED <<now, session, floor>>

Reopen(p) ==
  /\ At(p, "reopen")
  /\ LET a == call[p].target
         row == [admin[a] EXCEPT !.status = call[p].status] IN
       /\ RowFree(a)
       /\ admin' = IF admin[a].status = "disabled" /\ Accepts(row)
                     THEN [admin EXCEPT ![a] = row] ELSE admin
  /\ Done(p)
  /\ UNCHANGED <<now, session, floor>>

\* The login behind a row is erased: ON DELETE SET NULL, which the same
\* constraint refuses of an active one.
EraseLogin(a) ==
  /\ RowFree(a)
  /\ Accepts([admin[a] EXCEPT !.bound = FALSE])
  /\ admin' = [admin EXCEPT ![a].bound = FALSE]
  /\ UNCHANGED <<now, session, floor, call>>

-----------------------------------------------------------------------------
(* The clock and faults *)

Tick ==
  /\ now < Horizon
  /\ now' = now + 1
  /\ UNCHANGED <<admin, session, floor, call>>

\* The call is refused, conflicts, fails or dies: a transaction is rolled back.
Abort(p) ==
  /\ ~At(p, "idle")
  /\ Done(p)
  /\ Released(p)
  /\ UNCHANGED <<now, admin, session>>

Transaction(p) == TakeFloor(p) \/ Count(p) \/ Commit(p)

Next ==
  \/ Tick
  \/ \E s \in Sessions : SignOut(s)
  \/ \E a \in Admins : EraseLogin(a)
  \/ \E p \in Procs :
       \/ Resolve(p) \/ Issue(p) \/ Touch(p) \/ Authorize(p) \/ Ask(p)
       \/ ChangeRole(p) \/ Disable(p) \/ Evict(p) \/ RevokeSessions(p)
       \/ ReadBinding(p) \/ Reopen(p)
       \/ Transaction(p) \/ Abort(p)

Spec == Init /\ [][Next]_vars

\* A transaction goes on; nothing is assumed of callers.
FairSpec ==
  /\ Spec
  /\ \A p \in Procs : WF_vars(Count(p) \/ Commit(p))

-----------------------------------------------------------------------------
(* What the rest of the console sees of the roster *)

\* An account that is not active may do nothing, whatever its role.
Standing(row) == IF row.status = "active" THEN row.role ELSE "disabled"

Standings == [a \in Admins |-> Standing(admin[a])]

Kept == INSTANCE Roster WITH Roles <- Roles \cup {"disabled"}, role <- Standings

-----------------------------------------------------------------------------
(* Properties *)

\* To everybody else a removal takes one step and never removes the last
\* super_admin, although it reads, waits, counts and commits in statements of
\* their own, beside reopenings that write what an earlier read said.
ImplementsRoster == Kept!Spec

\* The platform always has an enabled super_admin, whoever demotes and disables
\* whom at the same moment (0019, 410-470).
FloorHolds == \E a \in Admins : IsEnabled(admin[a])

\* An operator who can sign in has a login, although a reopening writes the
\* status it derived from an earlier read (admins.ts 540-566).
ActiveIsBound == \A a \in Admins : admin[a].status = "active" => admin[a].bound

\* A session that was revoked, or ran past a deadline, never gets a later
\* deadline nor its revocation taken back, whatever request arrives with it
\* (admin_touch_session).
OverStaysOver ==
  [][\A s \in Sessions :
       session[s] # None /\ (session[s].revoked \/ session[s].idle <= now \/ session[s].hard <= now)
         => /\ session'[s] = [session[s] EXCEPT !.revoked = session'[s].revoked]
            /\ session[s].revoked => session'[s].revoked]_vars

\* Whoever holds the floor trigger's lock gives it back, through commit, refusal
\* or death, so that no removal waits behind it for ever (0019, 438).
FloorIsGivenBack == floor # Null ~> floor = Null
=============================================================================
