-------------------------- MODULE AdminRosterProofs --------------------------
(***************************************************************************)
(* Proofs about AdminRoster, for every set of operators, sessions and      *)
(* calls.  IInv is inductive: who a call is about (CallInv), that a row    *)
(* belongs to one transaction (RowsLocked), and what a transaction that    *)
(* holds the floor trigger's lock may rely on (FloorInv).                  *)
(***************************************************************************)
EXTENDS AdminRoster, TLAPS

CallInv(p) ==
  /\ call[p].step \in {"resolved", "touched", "authorized", "work"} => call[p].actor \in Admins
  /\ call[p].step \in InTransaction \cup {"reopen", "evict"} => call[p].target \in Admins
  /\ call[p].step \in InTransaction => IsEnabled(admin[call[p].target])

RowsLocked ==
  \A p, q \in Procs :
    call[p].step \in InTransaction /\ call[q].step \in InTransaction /\ call[p].target = call[q].target
      => p = q

FloorInv(p) ==
  /\ call[p].step \in {"count", "commit"} => floor = p
  /\ call[p].step = "commit" => \E a \in Admins \ {call[p].target} : IsEnabled(admin[a])

IInv ==
  /\ TypeOK
  /\ \A p \in Procs : CallInv(p) /\ FloorInv(p)
  /\ RowsLocked
  /\ FloorHolds
  /\ ActiveIsBound

-----------------------------------------------------------------------------
(* Lemmas about one step *)

LEMMA IdleTyped == Idle \in Call /\ Idle.step = "idle"
  BY DEF Idle, Call, Steps, InTransaction, Roles, Status

LEMMA InitInv == Init => IInv
<1> SUFFICES ASSUME Init PROVE IInv
  OBVIOUS
<1>1. TypeOK
  BY IdleTyped, WindowsAssumption DEF Init, TypeOK
<1>2. RowsLocked /\ \A p \in Procs : CallInv(p) /\ FloorInv(p)
  BY IdleTyped DEF Init, RowsLocked, CallInv, FloorInv, InTransaction
<1>3. FloorHolds /\ ActiveIsBound
  BY DEF Init, FloorHolds, ActiveIsBound, IsEnabled, AdminRow
<1> QED BY <1>1, <1>2, <1>3 DEF IInv

\* A call goes on outside a transaction and the roster stays as it is.
LEMMA CallStep ==
  ASSUME IInv, NEW p \in Procs, NEW held \in Call, call' = [call EXCEPT ![p] = held],
         held.step \notin InTransaction,
         held.step \in {"resolved", "touched", "authorized", "work"} => held.actor \in Admins,
         held.step \in {"reopen", "evict"} => held.target \in Admins,
         UNCHANGED <<now, admin>>, floor' \in {floor, IF floor = p THEN Null ELSE floor},
         session' \in [Sessions -> SessionRow \cup {None}]
  PROVE  IInv'
<1>1. call'[p] = held /\ \A q \in Procs \ {p} : call'[q] = call[q]
  BY DEF IInv, TypeOK
<1>2. TypeOK'
  BY DEF IInv, TypeOK
<1>3. CallInv(p)' /\ FloorInv(p)'
  BY <1>1 DEF CallInv, FloorInv, InTransaction
<1>4. ASSUME NEW q \in Procs \ {p} PROVE CallInv(q)' /\ FloorInv(q)'
  BY <1>1 DEF IInv, CallInv, FloorInv, IsEnabled
<1>5. RowsLocked'
  BY <1>1 DEF IInv, RowsLocked
<1>6. FloorHolds' /\ ActiveIsBound'
  BY DEF IInv, FloorHolds, ActiveIsBound, IsEnabled
<1> QED BY <1>2, <1>3, <1>4, <1>5, <1>6 DEF IInv

\* A call ends.
LEMMA DoneStep ==
  ASSUME IInv, NEW p \in Procs, Done(p), UNCHANGED <<now, admin>>,
         floor' \in {floor, IF floor = p THEN Null ELSE floor},
         session' \in [Sessions -> SessionRow \cup {None}]
  PROVE  IInv'
<1> QED BY IdleTyped, CallStep DEF Done, InTransaction

\* A row that is not an enabled super_admin's, or stays one, is written.
LEMMA RowStep ==
  ASSUME IInv, NEW a \in Admins, NEW row \in AdminRow, admin' = [admin EXCEPT ![a] = row],
         RowFree(a), IsEnabled(admin[a]) => IsEnabled(row), row.status = "active" => row.bound,
         UNCHANGED <<now, session, floor>>,
         call' \in [Procs -> Call], \A q \in Procs : call'[q] \in {call[q], Idle}
  PROVE  IInv'
<1>1. admin'[a] = row /\ \A b \in Admins \ {a} : admin'[b] = admin[b]
  BY DEF IInv, TypeOK
<1>2. TypeOK'
  BY DEF IInv, TypeOK
<1>3. \A b \in Admins : IsEnabled(admin[b]) => IsEnabled(admin'[b])
  BY <1>1
<1>4. ASSUME NEW q \in Procs PROVE CallInv(q)' /\ FloorInv(q)'
  <2>1. CallInv(q) /\ FloorInv(q)
    BY DEF IInv
  <2>2. CASE call'[q] = Idle
    BY <2>2, IdleTyped DEF CallInv, FloorInv, InTransaction
  <2>3. CASE call'[q] = call[q]
    <3>1. CallInv(q)'
      BY <2>1, <2>3, <1>3 DEF CallInv, IsEnabled, InTransaction
    <3>2. FloorInv(q)'
      BY <2>1, <2>3, <1>3 DEF FloorInv, IsEnabled
    <3> QED BY <3>1, <3>2
  <2> QED BY <2>2, <2>3
<1>5. RowsLocked'
  BY IdleTyped DEF IInv, RowsLocked, InTransaction
<1>6. FloorHolds' /\ ActiveIsBound'
  <2>1. FloorHolds'
    BY <1>3 DEF IInv, FloorHolds, IsEnabled
  <2>2. ActiveIsBound'
    BY <1>1 DEF IInv, ActiveIsBound
  <2> QED BY <2>1, <2>2
<1> QED BY <1>2, <1>4, <1>5, <1>6 DEF IInv

\* What a call holds on its way to evict a closed account, or nothing.
LEMMA OnwardTyped ==
  ASSUME IInv, NEW p \in Procs, NEW a \in Admins, NEW row, Onward(p, a, row)
  PROVE  \E held \in Call :
           /\ call' = [call EXCEPT ![p] = held]
           /\ held.step \notin InTransaction
           /\ held.step \notin {"resolved", "touched", "authorized", "work"}
           /\ held.step \in {"reopen", "evict"} => held.target \in Admins
<1> DEFINE held == IF row.status = "disabled" /\ admin[a].status # "disabled"
                     THEN [Idle EXCEPT !.step = "evict", !.target = a] ELSE Idle
<1>1. [Idle EXCEPT !.step = "evict", !.target = a] \in Call
  BY DEF Idle, Call, Steps, InTransaction, Roles, Status
<1>2. [Idle EXCEPT !.step = "evict", !.target = a].step = "evict"
  BY DEF Idle
<1>3. [Idle EXCEPT !.step = "evict", !.target = a].target = a
  BY DEF Idle
<1>4. held \in Call /\ (held.step = "idle" \/ (held.step = "evict" /\ held.target = a))
  BY <1>1, <1>2, <1>3, IdleTyped
<1>5. call' = [call EXCEPT ![p] = held]
  BY DEF Onward
<1> QED BY <1>4, <1>5 DEF InTransaction

\* An UPDATE of a row locks it or, if the floor does not mind, writes it.
LEMMA UpdateInv ==
  ASSUME IInv, NEW p \in Procs, At(p, "work"), NEW a \in Admins, NEW row \in AdminRow,
         row.status = "active" => row.bound, Update(p, a, row)
  PROVE  IInv'
<1>1. CASE IsEnabled(admin[a]) /\ ~IsEnabled(row)
  <2> DEFINE held == [Idle EXCEPT !.step = "floor", !.target = a, !.role = row.role, !.status = row.status]
  <2>1. held \in Call /\ held.step = "floor" /\ held.target = a
    BY DEF Idle, Call, Steps, InTransaction, Roles, Status, AdminRow
  <2> HIDE DEF held
  <2>2. call' = [call EXCEPT ![p] = held] /\ UNCHANGED <<now, session, floor, admin>> /\ RowFree(a)
    BY <1>1 DEF Update, held
  <2>3. call'[p] = held /\ \A q \in Procs \ {p} : call'[q] = call[q]
    BY <2>2 DEF IInv, TypeOK
  <2>4. TypeOK'
    BY <2>1, <2>2 DEF IInv, TypeOK
  <2>5. CallInv(p)' /\ FloorInv(p)'
    BY <1>1, <2>1, <2>2, <2>3 DEF CallInv, FloorInv, InTransaction, IsEnabled
  <2>6. ASSUME NEW q \in Procs \ {p} PROVE CallInv(q)' /\ FloorInv(q)'
    BY <2>2, <2>3 DEF IInv, CallInv, FloorInv, IsEnabled
  <2>7. RowsLocked'
    BY <2>1, <2>2, <2>3 DEF IInv, RowsLocked, RowFree
  <2>8. FloorHolds' /\ ActiveIsBound'
    BY <2>2 DEF IInv, FloorHolds, ActiveIsBound, IsEnabled
  <2> QED BY <2>4, <2>5, <2>6, <2>7, <2>8 DEF IInv
<1>2. CASE ~(IsEnabled(admin[a]) /\ ~IsEnabled(row))
  <2>1. /\ admin' = [admin EXCEPT ![a] = row] /\ Onward(p, a, row) /\ RowFree(a)
        /\ UNCHANGED <<now, session, floor>>
    BY <1>2 DEF Update
  <2>2. PICK held \in Call :
          /\ call' = [call EXCEPT ![p] = held]
          /\ held.step \notin InTransaction
          /\ held.step \notin {"resolved", "touched", "authorized", "work"}
          /\ held.step \in {"reopen", "evict"} => held.target \in Admins
    BY <2>1, OnwardTyped
  <2>3. call'[p] = held /\ \A q \in Procs \ {p} : call'[q] = call[q]
    BY <2>2 DEF IInv, TypeOK
  <2>4. admin'[a] = row /\ \A b \in Admins \ {a} : admin'[b] = admin[b]
    BY <2>1 DEF IInv, TypeOK
  <2>5. \A b \in Admins : IsEnabled(admin[b]) => IsEnabled(admin'[b])
    BY <1>2, <2>4
  <2>6. TypeOK'
    BY <2>1, <2>2 DEF IInv, TypeOK
  <2>7. CallInv(p)' /\ FloorInv(p)'
    BY <2>2, <2>3 DEF CallInv, FloorInv, InTransaction
  <2>8. ASSUME NEW q \in Procs \ {p} PROVE CallInv(q)' /\ FloorInv(q)'
    <3>1. CallInv(q) /\ FloorInv(q)
      BY DEF IInv
    <3>2. CallInv(q)'
      BY <3>1, <2>3, <2>5 DEF CallInv, IsEnabled, InTransaction
    <3>3. FloorInv(q)'
      BY <3>1, <2>1, <2>3, <2>5 DEF FloorInv, IsEnabled
    <3> QED BY <3>2, <3>3
  <2>9. RowsLocked'
    BY <2>2, <2>3 DEF IInv, RowsLocked
  <2>10. FloorHolds'
    BY <2>5 DEF IInv, FloorHolds, IsEnabled
  <2>11. ActiveIsBound'
    BY <2>4 DEF IInv, ActiveIsBound
  <2> QED BY <2>6, <2>7, <2>8, <2>9, <2>10, <2>11 DEF IInv
<1> QED BY <1>1, <1>2

\* The heart of the floor: whoever commits counted under the lock, and nobody
\* else could take a super_admin away since.
LEMMA CommitInv ==
  ASSUME IInv, NEW p \in Procs, Commit(p)
  PROVE  IInv'
<1> DEFINE a == call[p].target
           row == [admin[a] EXCEPT !.role = call[p].role, !.status = call[p].status]
<1>1. CallInv(p) /\ FloorInv(p) /\ call[p].step = "commit" /\ call[p] \in Call
  BY DEF IInv, Commit, At, TypeOK
<1>2. a \in Admins /\ IsEnabled(admin[a]) /\ floor = p
  BY <1>1 DEF CallInv, FloorInv, InTransaction
<1>3. PICK b \in Admins \ {a} : IsEnabled(admin[b])
  BY <1>1 DEF FloorInv
<1>4. row \in AdminRow /\ row.bound
  <2>1. admin[a] \in AdminRow /\ admin[a].bound
    BY <1>2 DEF IInv, TypeOK, IsEnabled
  <2>2. call[p].role \in Roles /\ call[p].status \in Status
    BY <1>1 DEF Call
  <2> QED BY <2>1, <2>2 DEF AdminRow
<1>5. admin' = [admin EXCEPT ![a] = row] /\ Onward(p, a, row) /\ Released(p) /\ UNCHANGED <<now, session>>
  BY DEF Commit
<1> HIDE DEF row
<1>6. PICK held \in Call :
        /\ call' = [call EXCEPT ![p] = held]
        /\ held.step \notin InTransaction
        /\ held.step \notin {"resolved", "touched", "authorized", "work"}
        /\ held.step \in {"reopen", "evict"} => held.target \in Admins
  BY <1>2, <1>5, OnwardTyped
<1>7. call'[p] = held /\ \A q \in Procs \ {p} : call'[q] = call[q]
  BY <1>6 DEF IInv, TypeOK
<1>8. admin'[a] = row /\ \A c \in Admins \ {a} : admin'[c] = admin[c]
  BY <1>2, <1>5 DEF IInv, TypeOK
<1>9. floor' = Null
  BY <1>2, <1>5 DEF Released
<1>10. TypeOK'
  BY <1>4, <1>5, <1>6, <1>9 DEF IInv, TypeOK
<1>11. CallInv(p)' /\ FloorInv(p)'
  BY <1>6, <1>7 DEF CallInv, FloorInv, InTransaction
<1>12. ASSUME NEW q \in Procs \ {p} PROVE CallInv(q)' /\ FloorInv(q)'
  <2>1. CallInv(q) /\ FloorInv(q)
    BY DEF IInv
  <2>2. call[q].step \notin {"count", "commit"}
    BY <2>1, <1>2 DEF FloorInv
  <2>3. call[q].step \in InTransaction => call[q].target # a
    BY <1>1 DEF IInv, RowsLocked, InTransaction
  <2>4. CallInv(q)'
    BY <2>1, <2>3, <1>7, <1>8 DEF CallInv, IsEnabled, InTransaction
  <2>5. FloorInv(q)'
    BY <2>2, <1>7 DEF FloorInv
  <2> QED BY <2>4, <2>5
<1>13. RowsLocked'
  BY <1>6, <1>7 DEF IInv, RowsLocked
<1>14. FloorHolds'
  BY <1>3, <1>8 DEF FloorHolds, IsEnabled
<1>15. ActiveIsBound'
  BY <1>4, <1>8 DEF IInv, ActiveIsBound
<1> QED BY <1>10, <1>11, <1>12, <1>13, <1>14, <1>15 DEF IInv

\* Sessions that are ended keep their type.
LEMMA EndedTyped ==
  ASSUME IInv, NEW a \in Admins, NEW kept
  PROVE  Ended(a, kept) \in [Sessions -> SessionRow \cup {None}]
<1>1. ASSUME NEW s \in Sessions, session[s].owner = a
      PROVE  [session[s] EXCEPT !.revoked = TRUE] \in SessionRow
  <2>1. None.owner = Null
    BY DEF None
  <2>2. session[s] \in SessionRow
    BY <1>1, <2>1, NullAssumption DEF IInv, TypeOK
  <2> QED BY <2>2 DEF SessionRow
<1> QED BY <1>1 DEF Ended, IInv, TypeOK

\* Every step keeps the invariant.
LEMMA NextInv == IInv /\ [Next]_vars => IInv'
<1> SUFFICES ASSUME IInv, [Next]_vars PROVE IInv'
  OBVIOUS
<1> USE DEF At
<1>0. session \in [Sessions -> SessionRow \cup {None}] /\ now \in 0 .. Horizon /\ Times \subseteq Nat
  BY DEF IInv, TypeOK, Times
<1>1. CASE UNCHANGED vars
  BY <1>1 DEF vars, IInv, TypeOK, CallInv, FloorInv, RowsLocked, FloorHolds, ActiveIsBound, IsEnabled, InTransaction
<1>2. CASE Tick
  <2>1. now' \in 0 .. Horizon /\ UNCHANGED <<admin, session, floor, call>>
    BY <1>2, WindowsAssumption, <1>0 DEF Tick
  <2> QED BY <2>1 DEF IInv, TypeOK, CallInv, FloorInv, RowsLocked, FloorHolds, ActiveIsBound, IsEnabled, InTransaction
<1>3. ASSUME NEW s \in Sessions, SignOut(s) PROVE IInv'
  <2>1. session[s] \in SessionRow
    BY <1>0, <1>3 DEF SignOut
  <2>2. [session[s] EXCEPT !.revoked = TRUE] \in SessionRow
    BY <2>1 DEF SessionRow
  <2>3. session' \in [Sessions -> SessionRow \cup {None}] /\ UNCHANGED <<now, admin, floor, call>>
    BY <1>0, <1>3, <2>2 DEF SignOut
  <2> QED BY <2>3 DEF IInv, TypeOK, CallInv, FloorInv, RowsLocked, FloorHolds, ActiveIsBound, IsEnabled, InTransaction
<1>4. ASSUME NEW a \in Admins, EraseLogin(a) PROVE IInv'
  <2> DEFINE row == [admin[a] EXCEPT !.bound = FALSE]
  <2>1. row \in AdminRow /\ row.status # "active" /\ ~row.bound /\ row.status = admin[a].status
    BY <1>4 DEF IInv, TypeOK, EraseLogin, Accepts, AdminRow
  <2>2. ~IsEnabled(admin[a])
    BY <2>1 DEF IsEnabled
  <2>3. admin' = [admin EXCEPT ![a] = row] /\ RowFree(a) /\ UNCHANGED <<now, session, floor, call>>
    BY <1>4 DEF EraseLogin
  <2>4. call' \in [Procs -> Call] /\ \A q \in Procs : call'[q] \in {call[q], Idle}
    BY <2>3 DEF IInv, TypeOK
  <2> HIDE DEF row
  <2> QED BY <2>1, <2>2, <2>3, <2>4, RowStep
<1>5. ASSUME NEW p \in Procs, Resolve(p) PROVE IInv'
  <2>1. PICK a \in Admins : call' = [call EXCEPT ![p] = [Idle EXCEPT !.step = "resolved", !.actor = a]]
    BY <1>5 DEF Resolve
  <2> DEFINE held == [Idle EXCEPT !.step = "resolved", !.actor = a]
  <2>2. held \in Call /\ held.step = "resolved" /\ held.actor = a
    BY DEF Idle, Call, Steps, InTransaction, Roles, Status
  <2> HIDE DEF held
  <2>3. call' = [call EXCEPT ![p] = held] /\ UNCHANGED <<now, admin, session, floor>>
    BY <1>5, <2>1 DEF Resolve, held
  <2> QED BY <2>2, <2>3, <1>0, CallStep DEF InTransaction
<1>6. ASSUME NEW p \in Procs, Issue(p) PROVE IInv'
  <2>1. call[p].actor \in Admins
    BY <1>6 DEF Issue, IInv, CallInv
  <2>2. [owner |-> call[p].actor, idle |-> now + IdleWindow, hard |-> now + HardWindow, revoked |-> FALSE] \in SessionRow
    BY <2>1, <1>0, WindowsAssumption DEF SessionRow, Times
  <2>3. session' \in [Sessions -> SessionRow \cup {None}]
    BY <1>0, <1>6, <2>2 DEF Issue
  <2> QED BY <1>6, <2>3, DoneStep DEF Issue
<1>7. ASSUME NEW p \in Procs, Touch(p) PROVE IInv'
  <2>1. PICK s \in Sessions :
          /\ Usable(s)
          /\ session' = [session EXCEPT ![s].idle = Least(now + IdleWindow, session[s].hard)]
          /\ call' = [call EXCEPT ![p] =
               [Idle EXCEPT !.step = "touched", !.actor = session[s].owner, !.session = s]]
    BY <1>7 DEF Touch
  <2>2. session[s] \in SessionRow
    BY <1>0, <2>1 DEF Usable
  <2>3. Least(now + IdleWindow, session[s].hard) \in Times /\ Least(now + IdleWindow, session[s].hard) <= session[s].hard
    BY <1>0, <2>2, WindowsAssumption DEF SessionRow, Least, Times
  <2>4. [session[s] EXCEPT !.idle = Least(now + IdleWindow, session[s].hard)] \in SessionRow
    BY <2>2, <2>3 DEF SessionRow
  <2>5. session' \in [Sessions -> SessionRow \cup {None}]
    BY <1>0, <2>1, <2>4
  <2> DEFINE held == [Idle EXCEPT !.step = "touched", !.actor = session[s].owner, !.session = s]
  <2>6. held \in Call /\ held.step = "touched" /\ held.actor \in Admins
    BY <2>2 DEF Idle, Call, Steps, InTransaction, Roles, Status, SessionRow
  <2> HIDE DEF held
  <2>7. call' = [call EXCEPT ![p] = held] /\ UNCHANGED <<now, admin, floor>>
    BY <1>7, <2>1 DEF Touch, held
  <2> QED BY <2>5, <2>6, <2>7, CallStep DEF InTransaction
<1>8. ASSUME NEW p \in Procs, NEW from, NEW to, from \in {"touched", "authorized"}, to \in {"authorized", "work"},
             At(p, from), UNCHANGED <<now, admin, session, floor>>,
             call' = [call EXCEPT ![p].step = to] \/ Done(p)
      PROVE  IInv'
  <2> DEFINE held == [call[p] EXCEPT !.step = to]
  <2>1. held \in Call /\ held.step = to /\ held.actor \in Admins
    BY <1>8 DEF IInv, TypeOK, CallInv, Call, Steps
  <2>2. CASE Done(p)
    BY <2>2, <1>0, <1>8, DoneStep
  <2>3. CASE call' = [call EXCEPT ![p].step = to]
    <3>1. call' = [call EXCEPT ![p] = held]
      BY <2>3
    <3> HIDE DEF held
    <3> QED BY <3>1, <2>1, <1>0, <1>8, CallStep DEF InTransaction
  <2> QED BY <1>8, <2>2, <2>3
<1>9. ASSUME NEW p \in Procs, Authorize(p) \/ Ask(p) PROVE IInv'
  BY <1>8, <1>9 DEF Authorize, Ask
<1>10. ASSUME NEW p \in Procs, ChangeRole(p) PROVE IInv'
  <2>1. PICK a \in Admins, to \in Roles : Update(p, a, [admin[a] EXCEPT !.role = to])
    BY <1>10 DEF ChangeRole
  <2>2. [admin[a] EXCEPT !.role = to] \in AdminRow
    BY DEF IInv, TypeOK, AdminRow
  <2>3. [admin[a] EXCEPT !.role = to].status = "active" => [admin[a] EXCEPT !.role = to].bound
    BY DEF IInv, TypeOK, AdminRow, ActiveIsBound
  <2> QED BY <1>10, <2>1, <2>2, <2>3, UpdateInv DEF ChangeRole
<1>11. ASSUME NEW p \in Procs, Disable(p) PROVE IInv'
  <2>1. PICK a \in Admins : Update(p, a, [admin[a] EXCEPT !.status = "disabled"])
    BY <1>11 DEF Disable
  <2>2. [admin[a] EXCEPT !.status = "disabled"] \in AdminRow
    BY DEF IInv, TypeOK, AdminRow, Status
  <2>3. [admin[a] EXCEPT !.status = "disabled"].status # "active"
    BY DEF IInv, TypeOK, AdminRow
  <2> QED BY <1>11, <2>1, <2>2, <2>3, UpdateInv DEF Disable
<1>12. ASSUME NEW p \in Procs, TakeFloor(p) \/ (Count(p) /\ call' = [call EXCEPT ![p].step = "commit"] /\ UNCHANGED floor
                                               /\ \E a \in Admins \ {call[p].target} : IsEnabled(admin[a]))
       PROVE  IInv'
  <2> DEFINE to == IF call[p].step = "floor" THEN "count" ELSE "commit"
             held == [call[p] EXCEPT !.step = to]
  <2>1. held \in Call /\ held.step = to /\ held.target = call[p].target
    BY DEF IInv, TypeOK, Call, Steps, InTransaction
  <2>2. call' = [call EXCEPT ![p] = held] /\ UNCHANGED <<now, admin, session>> /\ call[p].step \in {"floor", "count"}
    BY <1>12 DEF TakeFloor, Count
  <2>3. call'[p] = held /\ \A q \in Procs \ {p} : call'[q] = call[q]
    BY <2>2 DEF IInv, TypeOK
  <2>4. floor' = p /\ (to = "commit" => \E a \in Admins \ {call[p].target} : IsEnabled(admin[a]))
    BY <1>12 DEF TakeFloor, Count, IInv, FloorInv
  <2>5. \A q \in Procs \ {p} : call[q].step \notin {"count", "commit"}
    <3>1. floor \in {Null, p}
      BY <1>12 DEF TakeFloor, Count, IInv, FloorInv
    <3> QED BY <3>1, NullAssumption DEF IInv, FloorInv
  <2>6. to \in {"count", "commit"}
    OBVIOUS
  <2> HIDE DEF held, to
  <2>7. TypeOK'
    BY <2>1, <2>2, <2>4 DEF IInv, TypeOK
  <2>8. CallInv(p)' /\ FloorInv(p)'
    BY <2>1, <2>2, <2>3, <2>4, <2>6 DEF IInv, CallInv, FloorInv, InTransaction, IsEnabled
  <2>9. ASSUME NEW q \in Procs \ {p} PROVE CallInv(q)' /\ FloorInv(q)'
    BY <2>2, <2>3, <2>5 DEF IInv, CallInv, FloorInv, IsEnabled
  <2>10. RowsLocked'
    BY <2>1, <2>2, <2>3, <2>6 DEF IInv, RowsLocked, InTransaction
  <2>11. FloorHolds' /\ ActiveIsBound'
    BY <2>2 DEF IInv, FloorHolds, ActiveIsBound, IsEnabled
  <2> QED BY <2>7, <2>8, <2>9, <2>10, <2>11 DEF IInv
<1>13. ASSUME NEW p \in Procs, Count(p) PROVE IInv'
  <2>1. CASE \E a \in Admins \ {call[p].target} : IsEnabled(admin[a])
    BY <1>12, <1>13, <2>1 DEF Count
  <2>2. CASE ~\E a \in Admins \ {call[p].target} : IsEnabled(admin[a])
    <3>1. Done(p) /\ Released(p) /\ UNCHANGED <<now, admin, session>>
      BY <1>13, <2>2 DEF Count
    <3> QED BY <3>1, <1>0, DoneStep DEF Released
  <2> QED BY <2>1, <2>2
<1>14. ASSUME NEW p \in Procs, Commit(p) PROVE IInv'
  BY <1>14, CommitInv
<1>15. ASSUME NEW p \in Procs, Evict(p) PROVE IInv'
  <2>1. call[p].target \in Admins
    BY <1>15 DEF Evict, IInv, CallInv
  <2>2. session' \in [Sessions -> SessionRow \cup {None}]
    BY <1>15, <2>1, EndedTyped DEF Evict
  <2> QED BY <1>15, <2>2, DoneStep DEF Evict
<1>16. ASSUME NEW p \in Procs, RevokeSessions(p) PROVE IInv'
  <2>1. session' \in [Sessions -> SessionRow \cup {None}]
    BY <1>16, EndedTyped DEF RevokeSessions
  <2> QED BY <1>16, <2>1, DoneStep DEF RevokeSessions
<1>17. ASSUME NEW p \in Procs, ReadBinding(p) PROVE IInv'
  <2>1. PICK a \in Admins :
          call' = [call EXCEPT ![p] = [Idle EXCEPT
            !.step = "reopen", !.target = a, !.status = IF admin[a].bound THEN "active" ELSE "invited"]]
    BY <1>17 DEF ReadBinding
  <2> DEFINE held == [Idle EXCEPT
            !.step = "reopen", !.target = a, !.status = IF admin[a].bound THEN "active" ELSE "invited"]
  <2>2. held \in Call /\ held.step = "reopen" /\ held.target = a
    BY DEF Idle, Call, Steps, InTransaction, Roles, Status
  <2> HIDE DEF held
  <2>3. call' = [call EXCEPT ![p] = held] /\ UNCHANGED <<now, admin, session, floor>>
    BY <1>17, <2>1 DEF ReadBinding, held
  <2> QED BY <2>2, <2>3, <1>0, CallStep DEF InTransaction
<1>18. ASSUME NEW p \in Procs, Reopen(p) PROVE IInv'
  <2> DEFINE a == call[p].target
             row == [admin[a] EXCEPT !.status = call[p].status]
  <2>1. Done(p) /\ UNCHANGED <<now, session, floor>> /\ RowFree(a)
        /\ admin' = IF admin[a].status = "disabled" /\ Accepts(row) THEN [admin EXCEPT ![a] = row] ELSE admin
    BY <1>18 DEF Reopen
  <2>2. CASE admin[a].status = "disabled" /\ Accepts(row)
    <3>1. a \in Admins /\ row \in AdminRow
      BY <1>18 DEF IInv, TypeOK, CallInv, Reopen, Call, AdminRow
    <3>2. admin' = [admin EXCEPT ![a] = row] /\ ~IsEnabled(admin[a]) /\ (row.status = "active" => row.bound)
      BY <2>1, <2>2 DEF Accepts, IsEnabled
    <3>3. call' \in [Procs -> Call] /\ \A q \in Procs : call'[q] \in {call[q], Idle}
      BY <2>1, IdleTyped DEF IInv, TypeOK, Done
    <3> HIDE DEF row
    <3> QED BY <2>1, <3>1, <3>2, <3>3, RowStep
  <2>3. CASE ~(admin[a].status = "disabled" /\ Accepts(row))
    BY <1>0, <2>1, <2>3, DoneStep
  <2> QED BY <2>2, <2>3
<1>19. ASSUME NEW p \in Procs, Abort(p) PROVE IInv'
  BY <1>19, <1>0, DoneStep DEF Abort, Released
<1> QED BY <1>1, <1>2, <1>3, <1>4, <1>5, <1>6, <1>7, <1>9, <1>10, <1>11, <1>12, <1>13, <1>14, <1>15, <1>16,
           <1>17, <1>18, <1>19 DEF Next, Transaction

\* Over: a session nothing may bring back.
Over(s) == session[s] # None /\ (session[s].revoked \/ session[s].idle <= now \/ session[s].hard <= now)
KeepsEnd(s) ==
  /\ session'[s] = [session[s] EXCEPT !.revoked = session'[s].revoked]
  /\ session[s].revoked => session'[s].revoked

\* What a session that stays, or is ended, keeps.
LEMMA EndKeeps ==
  ASSUME NEW s \in Sessions, session[s] \in SessionRow,
         session'[s] \in {session[s], [session[s] EXCEPT !.revoked = TRUE]}
  PROVE  KeepsEnd(s)
  BY DEF KeepsEnd, SessionRow

LEMMA NextKeepsEnd == IInv /\ [Next]_vars => \A s \in Sessions : Over(s) => KeepsEnd(s)
<1> SUFFICES ASSUME IInv, [Next]_vars, NEW s \in Sessions, Over(s) PROVE KeepsEnd(s)
  OBVIOUS
<1>0. session \in [Sessions -> SessionRow \cup {None}] /\ session[s] \in SessionRow
  BY DEF IInv, TypeOK, Over
<1>1. session'[s] \in {session[s], [session[s] EXCEPT !.revoked = TRUE]}
  <2>1. CASE session' = session
    BY <2>1
  <2>2. ASSUME NEW t \in Sessions, SignOut(t) PROVE session'[s] \in {session[s], [session[s] EXCEPT !.revoked = TRUE]}
    BY <1>0, <2>2 DEF SignOut
  <2>3. ASSUME NEW p \in Procs, Issue(p) PROVE session'[s] = session[s]
    BY <1>0, <2>3 DEF Issue, Over
  <2>4. ASSUME NEW p \in Procs, Touch(p) PROVE session'[s] = session[s]
    <3>1. PICK t \in Sessions :
            Usable(t) /\ session' = [session EXCEPT ![t].idle = Least(now + IdleWindow, session[t].hard)]
      BY <2>4 DEF Touch
    <3>2. t # s
      BY <3>1, <1>0 DEF Usable, Over, SessionRow, Times, IInv, TypeOK
    <3> QED BY <1>0, <3>1, <3>2
  <2>5. ASSUME NEW p \in Procs, Evict(p) \/ RevokeSessions(p)
        PROVE  session'[s] \in {session[s], [session[s] EXCEPT !.revoked = TRUE]}
    BY <2>5 DEF Evict, RevokeSessions, Ended
  <2>6. CASE ~\E p \in Procs : Issue(p) \/ Touch(p) \/ Evict(p) \/ RevokeSessions(p)
    BY <2>2, <2>6 DEF Next, vars, Tick, EraseLogin, Resolve, Authorize, Ask, ChangeRole, Disable, Update, ReadBinding,
          Reopen, Transaction, TakeFloor, Count, Commit, Abort
  <2> QED BY <2>3, <2>4, <2>5, <2>6
<1> QED BY <1>0, <1>1, EndKeeps

-----------------------------------------------------------------------------
(* The theorems *)

\* IInv is an invariant.
LEMMA Inductive == Spec => []IInv
<1>1. Init => IInv
  BY InitInv
<1>2. IInv /\ [Next]_vars => IInv'
  BY NextInv
<1> QED BY <1>1, <1>2, PTL DEF Spec

\* The rows, the calls and the lock keep their types.
THEOREM TypeCorrect == Spec => []TypeOK
<1>1. IInv => TypeOK
  BY DEF IInv
<1> QED BY <1>1, Inductive, PTL

\* There is an enabled super_admin at every moment.
THEOREM FloorAlwaysHolds == Spec => []FloorHolds
<1>1. IInv => FloorHolds
  BY DEF IInv
<1> QED BY <1>1, Inductive, PTL

\* An active operator has a login at every moment.
THEOREM ActiveAlwaysBound == Spec => []ActiveIsBound
<1>1. IInv => ActiveIsBound
  BY DEF IInv
<1> QED BY <1>1, Inductive, PTL

\* What is over stays over.
THEOREM OverStaysOverAlways == Spec => OverStaysOver
<1>1. IInv /\ [Next]_vars =>
        [\A s \in Sessions :
           session[s] # None /\ (session[s].revoked \/ session[s].idle <= now \/ session[s].hard <= now)
             => /\ session'[s] = [session[s] EXCEPT !.revoked = session'[s].revoked]
                /\ session[s].revoked => session'[s].revoked]_vars
  BY NextKeepsEnd DEF Over, KeepsEnd
<1> QED BY <1>1, Inductive, PTL DEF Spec, OverStaysOver

-----------------------------------------------------------------------------
(* AdminRoster implements the roster the rest of the console assumes *)

\* A row whose standing would take the last super_admin away is not written.
LEMMA RowWritten ==
  ASSUME IInv, NEW a \in Admins, NEW row \in AdminRow, admin' = [admin EXCEPT ![a] = row],
         IsEnabled(admin[a]) => \/ IsEnabled(row)
                                \/ \E b \in Admins \ {a} : IsEnabled(admin[b])
  PROVE  [Kept!Next]_Standings
<1> DEFINE r == Standing(row)
<1>1. Standings' = [Standings EXCEPT ![a] = r] /\ \A b \in Admins : Standings[b] = Standing(admin[b])
  BY DEF IInv, TypeOK, Standings
<1>2. r \in Roles \cup {"disabled"}
  BY DEF Standing, AdminRow
<1>3. CASE Standings[a] = r
  <2>1. [Standings EXCEPT ![a] = r] = Standings
    BY <1>3 DEF Standings
  <2> QED BY <1>1, <2>1
<1>4. CASE Standings[a] # r
  <2>1. ASSUME Standings[a] = "super_admin" PROVE \E b \in Admins \ {a} : Standings[b] = "super_admin"
    <3>1. IsEnabled(admin[a]) /\ ~IsEnabled(row)
      BY <1>1, <1>4, <2>1 DEF Standing, IsEnabled, IInv, ActiveIsBound, TypeOK, AdminRow
    <3>2. PICK b \in Admins \ {a} : IsEnabled(admin[b])
      BY <3>1
    <3>3. Standings[b] = "super_admin"
      BY <1>1, <3>2 DEF Standing, IsEnabled
    <3> QED BY <3>3
  <2>2. Kept!Change(a, r)
    BY <1>1, <1>4, <2>1 DEF Kept!Change
  <2> QED BY <1>2, <2>2 DEF Kept!Next
<1> QED BY <1>3, <1>4

\* An UPDATE that goes through at once never takes the last one away.
LEMMA UpdateKeepsRoster ==
  ASSUME IInv, NEW p \in Procs, NEW a \in Admins, NEW row \in AdminRow, Update(p, a, row)
  PROVE  [Kept!Next]_Standings
<1>1. CASE IsEnabled(admin[a]) /\ ~IsEnabled(row)
  BY <1>1 DEF Update, Standings
<1>2. CASE ~(IsEnabled(admin[a]) /\ ~IsEnabled(row))
  <2>1. admin' = [admin EXCEPT ![a] = row] /\ (IsEnabled(admin[a]) => IsEnabled(row))
    BY <1>2 DEF Update
  <2> QED BY <2>1, RowWritten
<1> QED BY <1>1, <1>2

\* The removal that commits leaves the one it counted.
LEMMA CommitKeepsRoster ==
  ASSUME IInv, NEW p \in Procs, Commit(p)
  PROVE  [Kept!Next]_Standings
<1> DEFINE a == call[p].target
           row == [admin[a] EXCEPT !.role = call[p].role, !.status = call[p].status]
<1>1. CallInv(p) /\ FloorInv(p) /\ call[p].step = "commit" /\ call[p] \in Call
  BY DEF IInv, Commit, At, TypeOK
<1>2. a \in Admins /\ \E b \in Admins \ {a} : IsEnabled(admin[b])
  BY <1>1 DEF CallInv, FloorInv, InTransaction
<1>3. row \in AdminRow
  <2>1. admin[a] \in AdminRow
    BY <1>2 DEF IInv, TypeOK
  <2>2. call[p].role \in Roles /\ call[p].status \in Status
    BY <1>1 DEF Call
  <2> QED BY <2>1, <2>2 DEF AdminRow
<1>4. admin' = [admin EXCEPT ![a] = row]
  BY DEF Commit
<1> HIDE DEF a, row
<1> QED BY <1>2, <1>3, <1>4, RowWritten

\* Every step of the console is one change of standing, or none.
LEMMA NextKeepsRoster ==
  IInv /\ [Next]_vars => [Kept!Next]_Standings
<1> SUFFICES ASSUME IInv, [Next]_vars PROVE [Kept!Next]_Standings
  OBVIOUS
<1>1. CASE UNCHANGED admin
  BY <1>1 DEF Standings
<1>2. ASSUME NEW p \in Procs, ChangeRole(p) PROVE [Kept!Next]_Standings
  <2>1. PICK a \in Admins, to \in Roles : Update(p, a, [admin[a] EXCEPT !.role = to])
    BY <1>2 DEF ChangeRole
  <2>2. [admin[a] EXCEPT !.role = to] \in AdminRow
    BY DEF IInv, TypeOK, AdminRow
  <2> QED BY <2>1, <2>2, UpdateKeepsRoster
<1>3. ASSUME NEW p \in Procs, Disable(p) PROVE [Kept!Next]_Standings
  <2>1. PICK a \in Admins : Update(p, a, [admin[a] EXCEPT !.status = "disabled"])
    BY <1>3 DEF Disable
  <2>2. [admin[a] EXCEPT !.status = "disabled"] \in AdminRow
    BY DEF IInv, TypeOK, AdminRow, Status
  <2> QED BY <2>1, <2>2, UpdateKeepsRoster
<1>4. ASSUME NEW p \in Procs, Commit(p) PROVE [Kept!Next]_Standings
  BY <1>4, CommitKeepsRoster
<1>5. ASSUME NEW p \in Procs, Reopen(p) PROVE [Kept!Next]_Standings
  <2> DEFINE a == call[p].target
             row == [admin[a] EXCEPT !.status = call[p].status]
  <2>1. admin' = IF admin[a].status = "disabled" /\ Accepts(row) THEN [admin EXCEPT ![a] = row] ELSE admin
    BY <1>5 DEF Reopen
  <2>2. CASE admin[a].status = "disabled" /\ Accepts(row)
    <3>1. a \in Admins /\ row \in AdminRow
      BY <1>5 DEF IInv, TypeOK, CallInv, Reopen, At, Call, AdminRow
    <3>2. admin' = [admin EXCEPT ![a] = row] /\ ~IsEnabled(admin[a])
      BY <2>1, <2>2 DEF IsEnabled
    <3> HIDE DEF a, row
    <3> QED BY <3>1, <3>2, RowWritten
  <2>3. CASE ~(admin[a].status = "disabled" /\ Accepts(row))
    BY <1>1, <2>1, <2>3
  <2> QED BY <2>2, <2>3
<1>6. ASSUME NEW a \in Admins, EraseLogin(a) PROVE [Kept!Next]_Standings
  <2> DEFINE row == [admin[a] EXCEPT !.bound = FALSE]
  <2>1. row \in AdminRow /\ row.status # "active" /\ row.status = admin[a].status
    BY <1>6 DEF IInv, TypeOK, EraseLogin, Accepts, AdminRow
  <2>2. admin' = [admin EXCEPT ![a] = row] /\ ~IsEnabled(admin[a])
    BY <1>6, <2>1 DEF EraseLogin, IsEnabled
  <2> HIDE DEF row
  <2> QED BY <2>1, <2>2, RowWritten
<1>7. ASSUME NEW p \in Procs,
             \/ Resolve(p) \/ Issue(p) \/ Touch(p) \/ Authorize(p) \/ Ask(p) \/ Evict(p) \/ RevokeSessions(p)
             \/ ReadBinding(p) \/ TakeFloor(p) \/ Count(p) \/ Abort(p)
      PROVE  UNCHANGED admin
  BY <1>7 DEF Resolve, Issue, Touch, Authorize, Ask, Evict, RevokeSessions, ReadBinding, TakeFloor, Count, Abort
<1>8. ASSUME UNCHANGED vars \/ Tick \/ \E s \in Sessions : SignOut(s) PROVE UNCHANGED admin
  BY <1>8 DEF vars, Tick, SignOut
<1> QED BY <1>1, <1>2, <1>3, <1>4, <1>5, <1>6, <1>7, <1>8 DEF Next, Transaction

\* To the rest of the console the roster changes one standing at a time, and
\* the last super_admin never loses theirs.
THEOREM RosterIsKept == Spec => ImplementsRoster
<1>1. Init => Kept!Init
  <2> SUFFICES ASSUME Init PROVE Kept!Init
    OBVIOUS
  <2>1. Standings \in [Admins -> Roles \cup {"disabled"}]
    BY DEF Init, Standings, Standing, AdminRow
  <2>2. PICK a \in Admins : IsEnabled(admin[a])
    BY DEF Init
  <2>3. Standings[a] = "super_admin"
    BY <2>2 DEF Standings, Standing, IsEnabled
  <2> QED BY <2>1, <2>3 DEF Kept!Init
<1>2. IInv /\ [Next]_vars => [Kept!Next]_Standings
  BY NextKeepsRoster
<1> QED BY <1>1, <1>2, Inductive, PTL DEF Spec, ImplementsRoster, Kept!Spec
=============================================================================
