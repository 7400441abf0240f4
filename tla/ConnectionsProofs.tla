------------------------- MODULE ConnectionsProofs -------------------------
(***************************************************************************)
(* Proofs about Connections, for any number of accounts, mailboxes,        *)
(* consents, calls and key versions.  IInv is inductive: what a call holds *)
(* is still true of the rows, or the row is gone for good (CallInv, Known: *)
(* an id is never used twice), and a consent that is not bound yet is in   *)
(* the hands of one call (OneUse, Unspent).                                *)
(***************************************************************************)
EXTENDS Connections, TLAPS

Unbound == {"exchange", "lookup", "total", "upsert"}
WithAccount ==
  {"store", "load", "ask", "keep", "mark", "revoke", "recall", "forget", "unlink", "delete"}

CallInv(p) ==
  /\ call[p].step \in Unbound =>
       /\ call[p].grant \in Consents
       /\ picked[call[p].grant] \in Mailboxes
       /\ state[call[p].grant] = "gone"
       /\ bound[call[p].grant] = 0
  /\ call[p].step \in WithAccount => call[p].account \in used
  /\ call[p].step \in {"store", "ask", "keep"} =>
       /\ call[p].grant \in Consents
       /\ picked[call[p].grant] \in Mailboxes
       /\ Exists(call[p].account) => account[call[p].account].mailbox = picked[call[p].grant]
  /\ call[p].step = "recall" => call[p].grant \in Consents
  /\ call[p].step \in {"mark", "unlink"} => call[p].mark \in Status
  /\ call[p].step = "forget" => call[p].mark \in Status \cup {None}

OneUse ==
  \A p, q \in Calls :
    call[p].step \in Unbound /\ call[q].step \in Unbound /\ call[p].grant = call[q].grant => p = q

Known == \A a \in Accounts : Exists(a) => a \in used
Unspent == \A s \in Consents : state[s] # "gone" => bound[s] = 0

IInv ==
  /\ TypeOK
  /\ \A p \in Calls : CallInv(p)
  /\ OneUse
  /\ Known
  /\ Unspent
  /\ TokensMatch
  /\ NothingLeftBehind
  /\ OnePrimary
  /\ BoundOnce
  /\ Readable

-----------------------------------------------------------------------------
(* Lemmas about one step *)

LEMMA IdleTyped == Idle \in Call /\ Idle.step = "idle" /\ "idle" \notin Unbound \cup WithAccount
  BY DEF Idle, Call, Unbound, WithAccount

LEMMA InitInv == Init => IInv
<1> SUFFICES ASSUME Init PROVE IInv
  OBVIOUS
<1>1. TypeOK
  BY IdleTyped, BoundsAssumption DEF Init, TypeOK, Keys
<1>2. OneUse /\ \A p \in Calls : CallInv(p)
  BY IdleTyped DEF Init, OneUse, CallInv, Unbound, WithAccount
<1>3. Known /\ Unspent /\ BoundOnce
  BY DEF Init, Known, Unspent, BoundOnce, Exists
<1>4. TokensMatch /\ NothingLeftBehind /\ OnePrimary /\ Readable
  BY DEF Init, TokensMatch, NothingLeftBehind, OnePrimary, Readable, Exists
<1> QED BY <1>1, <1>2, <1>3, <1>4 DEF IInv

\* A call goes on and every row stays as it is.
LEMMA CallStep ==
  ASSUME IInv, NEW p \in Calls, NEW held \in Call, call' = [call EXCEPT ![p] = held],
         CallInv(p)',
         held.step \in Unbound => call[p].step \in Unbound /\ held.grant = call[p].grant,
         UNCHANGED <<consents, picked, rows, credential, key>>,
         live' \subseteq Consents, faults' \in 0 .. MaxFaults
  PROVE  IInv'
<1>1. call'[p] = held /\ \A q \in Calls \ {p} : call'[q] = call[q]
  BY DEF IInv, TypeOK
<1>2. TypeOK'
  BY DEF IInv, TypeOK, consents, rows
<1>3. ASSUME NEW q \in Calls PROVE CallInv(q)'
  <2>1. CASE q = p
    BY <2>1
  <2>2. CASE q # p
    BY <2>2, <1>1 DEF IInv, CallInv, Exists, consents, rows
  <2> QED BY <2>1, <2>2
<1>4. OneUse'
  BY <1>1 DEF IInv, OneUse
<1>5. Known' /\ Unspent' /\ BoundOnce'
  BY DEF IInv, Known, Unspent, BoundOnce, Exists, consents, rows
<1>6. TokensMatch' /\ NothingLeftBehind' /\ OnePrimary' /\ Readable'
  BY DEF IInv, TokensMatch, NothingLeftBehind, OnePrimary, Readable, Exists, consents, rows
<1> QED BY <1>2, <1>3, <1>4, <1>5, <1>6 DEF IInv

\* A call ends and every row stays as it is.
LEMMA DoneStep ==
  ASSUME IInv, NEW p \in Calls, Done(p), UNCHANGED <<consents, picked, rows, credential, key>>,
         live' \subseteq Consents, faults' \in 0 .. MaxFaults
  PROVE  IInv'
<1>1. call'[p] = Idle
  BY DEF IInv, TypeOK, Done
<1>2. CallInv(p)'
  BY <1>1, IdleTyped DEF CallInv, Unbound, WithAccount
<1> QED BY <1>2, IdleTyped, CallStep DEF Done

\* Tokens are written for an account whose mailbox they are for, and a call goes on.
LEMMA WriteStep ==
  ASSUME IInv, NEW p \in Calls, NEW held \in Call, call' = [call EXCEPT ![p] = held],
         held.step \notin Unbound, CallInv(p)',
         NEW a \in Accounts, NEW g \in Consents, Write(a, g), account[a].mailbox = picked[g],
         UNCHANGED <<consents, provider, rows, key, faults>>
  PROVE  IInv'
<1> PICK rotated \in BOOLEAN :
      credential' = [credential EXCEPT ![a] = Written(credential[a], g, rotated)]
  BY DEF Write
<1> DEFINE new == Written(credential[a], g, rotated)
<1>1. Sealed(g) \in Secret /\ Sealed(g).grant = g /\ Sealed(g).key = Sealed(g).version
  BY DEF IInv, TypeOK, Sealed, Secret
<1>2. credential[a] \in Tokens \cup {None}
  BY DEF IInv, TypeOK
<1>3. new \in Tokens /\ new.access = Sealed(g)
      /\ \/ new.refresh \in {Sealed(g), None}
         \/ credential[a] # None /\ new.refresh = credential[a].refresh
  BY <1>1, <1>2 DEF Written, Tokens
<1>0. credential' = [credential EXCEPT ![a] = new]
  OBVIOUS
<1> HIDE DEF new
<1>4. credential'[a] = new /\ \A b \in Accounts \ {a} : credential'[b] = credential[b]
  BY <1>0 DEF IInv, TypeOK
<1>5. Exists(a) /\ account' = account /\ picked' = picked /\ state' = state /\ names' = names
      /\ bound' = bound /\ used' = used
  BY DEF Write, consents, rows, provider
<1>6. call'[p] = held /\ \A q \in Calls \ {p} : call'[q] = call[q]
  BY DEF IInv, TypeOK
<1>7. TypeOK'
  BY <1>0, <1>3, <1>5 DEF IInv, TypeOK, provider
<1>8. ASSUME NEW q \in Calls PROVE CallInv(q)'
  <2>1. CASE q = p
    BY <2>1
  <2>2. CASE q # p
    BY <2>2, <1>5, <1>6 DEF IInv, CallInv, Exists
  <2> QED BY <2>1, <2>2
<1>9. OneUse' /\ Known' /\ Unspent' /\ BoundOnce' /\ OnePrimary'
  BY <1>5, <1>6 DEF IInv, OneUse, Known, Unspent, BoundOnce, OnePrimary, Exists
<1>10. TokensMatch'
  <2> SUFFICES ASSUME NEW b \in Accounts, Exists(b), credential'[b] # None
               PROVE  /\ picked[credential'[b].access.grant] = account[b].mailbox
                      /\ credential'[b].refresh # None =>
                           picked[credential'[b].refresh.grant] = account[b].mailbox
    BY <1>5 DEF TokensMatch, Exists
  <2>1. CASE b = a
    BY <2>1, <1>1, <1>3, <1>4 DEF IInv, TokensMatch
  <2>2. CASE b # a
    BY <2>2, <1>4 DEF IInv, TokensMatch
  <2> QED BY <2>1, <2>2
<1>11. NothingLeftBehind'
  BY <1>4, <1>5 DEF IInv, NothingLeftBehind, Exists
<1>12. Readable'
  <2> SUFFICES ASSUME NEW b \in Accounts, credential'[b] # None
               PROVE  /\ credential'[b].access.key = credential'[b].access.version
                      /\ credential'[b].refresh # None =>
                           credential'[b].refresh.key = credential'[b].refresh.version
    BY DEF Readable
  <2>1. CASE b = a
    BY <2>1, <1>1, <1>3, <1>4 DEF IInv, Readable
  <2>2. CASE b # a
    BY <2>2, <1>4 DEF IInv, Readable
  <2> QED BY <2>1, <2>2
<1> QED BY <1>7, <1>8, <1>9, <1>10, <1>11, <1>12 DEF IInv

\* The status of a row is written, and a call goes on.
LEMMA MarkStep ==
  ASSUME IInv, NEW p \in Calls, NEW held \in Call, call' = [call EXCEPT ![p] = held],
         held.step \notin Unbound, CallInv(p)',
         NEW a \in Accounts, NEW status \in Status, MarkStatus(a, status),
         UNCHANGED <<consents, provider, used, credential, key, faults>>
  PROVE  IInv'
<1>1. call'[p] = held /\ \A q \in Calls \ {p} : call'[q] = call[q]
  BY DEF IInv, TypeOK
<1>2. \A b \in Accounts : account[b] \in Row \cup {None}
  BY DEF IInv, TypeOK
<1>3. account' \in [Accounts -> Row \cup {None}]
      /\ \A b \in Accounts : /\ Exists(b)' <=> Exists(b)
                             /\ Exists(b) => /\ account'[b].mailbox = account[b].mailbox
                                             /\ account'[b].primary = account[b].primary
  <2>1. CASE Exists(a)
    <3> DEFINE row == [account[a] EXCEPT !.status = status]
    <3>1. row \in Row /\ row.mailbox = account[a].mailbox /\ row.primary = account[a].primary
      BY <2>1, <1>2 DEF Exists, Row
    <3>2. account' = [account EXCEPT ![a] = row]
      BY <2>1 DEF MarkStatus
    <3> HIDE DEF row
    <3> QED BY <2>1, <3>1, <3>2, NoneAssumption DEF IInv, TypeOK, Exists
  <2>2. CASE ~Exists(a)
    BY <2>2 DEF IInv, TypeOK, MarkStatus, Exists
  <2> QED BY <2>1, <2>2
<1>4. picked' = picked /\ state' = state /\ names' = names /\ bound' = bound
  BY DEF consents, provider
<1>5. TypeOK'
  BY <1>3, <1>4 DEF IInv, TypeOK, provider
<1>6. ASSUME NEW q \in Calls PROVE CallInv(q)'
  <2>1. CASE q = p
    BY <2>1
  <2>2. CASE q # p
    <3>1. call[q].step \in WithAccount => call[q].account \in Accounts
      BY DEF IInv, CallInv, TypeOK
    <3> QED BY <3>1, <2>2, <1>1, <1>3, <1>4 DEF IInv, CallInv, WithAccount
  <2> QED BY <2>1, <2>2
<1>7. OneUse' /\ Known' /\ Unspent' /\ BoundOnce'
  BY <1>1, <1>3, <1>4 DEF IInv, OneUse, Known, Unspent, BoundOnce
<1>8. TokensMatch' /\ NothingLeftBehind' /\ OnePrimary' /\ Readable'
  BY <1>3, <1>4 DEF IInv, TokensMatch, NothingLeftBehind, OnePrimary, Readable
<1> QED BY <1>5, <1>6, <1>7, <1>8 DEF IInv

-----------------------------------------------------------------------------
(* The round trip through the browser *)

LEMMA StartInv ==
  ASSUME IInv, NEW s \in Consents, NEW a \in Accounts \cup {None}, Start(s, a) PROVE IInv'
<1>1. state'[s] = "open" /\ names'[s] = a /\ state[s] = "new" /\ bound[s] = 0
      /\ \A t \in Consents \ {s} : state'[t] = state[t] /\ names'[t] = names[t]
  BY DEF IInv, TypeOK, Start, Unspent
<1>2. TypeOK'
  BY DEF IInv, TypeOK, Start, provider, rows
<1>3. \A p \in Calls : CallInv(p)'
  BY <1>1 DEF IInv, CallInv, Start, Exists, provider, rows
<1>4. OneUse' /\ Known' /\ Unspent' /\ BoundOnce'
  BY <1>1 DEF IInv, Start, OneUse, Known, Unspent, BoundOnce, Exists, rows
<1>5. TokensMatch' /\ OnePrimary' /\ Readable'
  BY DEF IInv, Start, TokensMatch, OnePrimary, Readable, Exists, rows, provider
<1>6. NothingLeftBehind'
  BY <1>1, NoneAssumption DEF IInv, Start, NothingLeftBehind, Exists, rows
<1> QED BY <1>2, <1>3, <1>4, <1>5, <1>6 DEF IInv

\* Nothing that is in use refers to a consent nobody has signed in for.
LEMMA SignInInv ==
  ASSUME IInv, NEW s \in Consents, NEW m \in Mailboxes, SignIn(s, m) PROVE IInv'
<1>1. picked[s] = None /\ picked'[s] = m /\ \A t \in Consents \ {s} : picked'[t] = picked[t]
  BY DEF IInv, TypeOK, SignIn
<1>2. \A t \in Consents : picked[t] \in Mailboxes => picked'[t] = picked[t]
  BY <1>1, NoneAssumption
<1>3. TypeOK'
  BY DEF IInv, TypeOK, SignIn, consents, rows
<1>4. \A p \in Calls : CallInv(p)'
  BY <1>2 DEF IInv, CallInv, SignIn, Exists, consents, rows
<1>5. OneUse' /\ Known' /\ Unspent' /\ BoundOnce'
  BY DEF IInv, SignIn, OneUse, Known, Unspent, BoundOnce, Exists, consents, rows
<1>6. TokensMatch'
  <2> SUFFICES ASSUME NEW a \in Accounts, Exists(a), credential[a] # None
               PROVE  /\ picked'[credential[a].access.grant] = account[a].mailbox
                      /\ credential[a].refresh # None =>
                           picked'[credential[a].refresh.grant] = account[a].mailbox
    BY DEF SignIn, TokensMatch, Exists, rows
  <2>1. account[a] \in Row /\ credential[a] \in Tokens
    BY DEF IInv, TypeOK, Exists
  <2>2. account[a].mailbox \in Mailboxes /\ credential[a].access.grant \in Consents
        /\ (credential[a].refresh # None => credential[a].refresh.grant \in Consents)
    BY <2>1 DEF Row, Tokens, Secret
  <2> QED BY <1>2, <2>2 DEF IInv, TokensMatch
<1>7. NothingLeftBehind' /\ OnePrimary' /\ Readable'
  BY DEF IInv, SignIn, NothingLeftBehind, OnePrimary, Readable, Exists, consents, rows
<1> QED BY <1>3, <1>4, <1>5, <1>6, <1>7 DEF IInv

LEMMA LapseInv == ASSUME IInv, NEW s \in Consents, Lapse(s) PROVE IInv'
<1>1. state' \in [Consents -> {"new", "open", "gone"}]
      /\ \A t \in Consents : state'[t] \in {state[t], "gone"}
  BY DEF IInv, TypeOK, Lapse
<1>2. TypeOK'
  BY <1>1 DEF IInv, TypeOK, Lapse, provider, rows
<1>3. \A p \in Calls : CallInv(p)'
  BY <1>1 DEF IInv, CallInv, Lapse, Exists, provider, rows
<1>4. OneUse' /\ Known' /\ Unspent' /\ BoundOnce'
  BY <1>1 DEF IInv, Lapse, OneUse, Known, Unspent, BoundOnce, Exists, rows
<1>5. TokensMatch' /\ NothingLeftBehind' /\ OnePrimary' /\ Readable'
  BY <1>1 DEF IInv, Lapse, TokensMatch, NothingLeftBehind, OnePrimary, Readable, Exists, rows, provider
<1> QED BY <1>2, <1>3, <1>4, <1>5 DEF IInv

LEMMA ConsumeInv == ASSUME IInv, NEW p \in Calls, NEW s \in Consents, Consume(p, s) PROVE IInv'
<1> DEFINE held == [call[p] EXCEPT !.step = "exchange", !.grant = s]
<1>1. held \in Call /\ held.step = "exchange" /\ held.grant = s
  BY DEF IInv, TypeOK, Call
<1>2. call' = [call EXCEPT ![p] = held]
  BY DEF Consume
<1> HIDE DEF held
<1>3. call'[p] = held /\ \A q \in Calls \ {p} : call'[q] = call[q]
  BY <1>2 DEF IInv, TypeOK
<1>4. state[s] = "open" /\ state'[s] = "gone" /\ bound[s] = 0 /\ picked[s] \in Mailboxes
      /\ \A t \in Consents \ {s} : state'[t] = state[t]
  BY DEF IInv, TypeOK, Consume, Unspent
<1>5. TypeOK'
  BY <1>1, <1>2 DEF IInv, TypeOK, Consume, provider, rows
<1>6. ASSUME NEW q \in Calls PROVE CallInv(q)'
  <2>1. CASE q = p
    BY <2>1, <1>1, <1>3, <1>4 DEF CallInv, Consume, Unbound, WithAccount, provider
  <2>2. CASE q # p
    <3>1. \A t \in Consents : state[t] = "gone" => state'[t] = "gone"
      BY <1>4
    <3>2. call'[q] = call[q] /\ CallInv(q) /\ bound' = bound /\ picked' = picked
          /\ account' = account /\ used' = used
      BY <2>2, <1>3 DEF IInv, Consume, provider, rows
    <3> QED BY <3>1, <3>2 DEF CallInv, Exists
  <2> QED BY <2>1, <2>2
<1>7. OneUse'
  <2>1. \A q \in Calls : call[q].step \in Unbound => call[q].grant # s
    BY <1>4 DEF IInv, CallInv
  <2> QED BY <2>1, <1>1, <1>3 DEF IInv, OneUse
<1>8. Known' /\ Unspent' /\ BoundOnce'
  BY <1>4 DEF IInv, Consume, Known, Unspent, BoundOnce, Exists, rows
<1>9. TokensMatch' /\ NothingLeftBehind' /\ OnePrimary' /\ Readable'
  BY <1>4 DEF IInv, Consume, TokensMatch, NothingLeftBehind, OnePrimary, Readable, Exists, rows, provider
<1> QED BY <1>5, <1>6, <1>7, <1>8, <1>9 DEF IInv

\* A consent that is not bound yet stays in the hands of the call that has it.
LEMMA UnboundStep ==
  ASSUME IInv, NEW p \in Calls, call[p].step \in Unbound, NEW step \in Unbound, NEW primary \in BOOLEAN,
         call' = [call EXCEPT ![p] = [@ EXCEPT !.step = step, !.primary = primary]],
         UNCHANGED <<consents, provider, rows, credential, key, faults>>
  PROVE  IInv'
<1> DEFINE held == [call[p] EXCEPT !.step = step, !.primary = primary]
<1>1. held \in Call /\ held.step = step /\ held.grant = call[p].grant
  BY DEF IInv, TypeOK, Call, Unbound
<1>2. call' = [call EXCEPT ![p] = held]
  OBVIOUS
<1> HIDE DEF held
<1>3. call'[p] = held
  BY <1>2 DEF IInv, TypeOK
<1>4. CallInv(p)'
  BY <1>1, <1>3 DEF IInv, CallInv, Unbound, WithAccount, consents, provider
<1> QED BY <1>1, <1>2, <1>4, CallStep DEF IInv, TypeOK, provider

LEMMA ExchangeInv == ASSUME IInv, NEW p \in Calls, Exchange(p) PROVE IInv'
<1>1. CASE Done(p)
  BY <1>1, DoneStep DEF IInv, TypeOK, Exchange, provider
<1>2. CASE call' = [call EXCEPT ![p].step = "lookup"]
  <2>1. call[p].primary \in BOOLEAN /\ call[p].step = "exchange"
    BY DEF IInv, TypeOK, Call, Exchange, At
  <2>2. call' = [call EXCEPT ![p] = [@ EXCEPT !.step = "lookup", !.primary = call[p].primary]]
    BY <1>2 DEF IInv, TypeOK, Call
  <2> QED BY <2>1, <2>2, UnboundStep DEF Exchange, Unbound
<1> QED BY <1>1, <1>2 DEF Exchange

LEMMA LookupInv == ASSUME IInv, NEW p \in Calls, Lookup(p) PROVE IInv'
<1>1. CASE Done(p)
  BY <1>1, DoneStep DEF IInv, TypeOK, Lookup, provider
<1>2. ASSUME NEW a \in Accounts, Exists(a),
             call' = [call EXCEPT ![p].step = "upsert", ![p].primary = account[a].primary]
      PROVE  IInv'
  <2>1. account[a].primary \in BOOLEAN /\ call[p].step = "lookup"
    BY <1>2 DEF IInv, TypeOK, Row, Lookup, At, Exists
  <2>2. call' = [call EXCEPT ![p] = [@ EXCEPT !.step = "upsert", !.primary = account[a].primary]]
    BY <1>2
  <2> QED BY <2>1, <2>2, UnboundStep DEF Lookup, Unbound
<1>3. CASE call' = [call EXCEPT ![p].step = "total"]
  <2>1. call[p].primary \in BOOLEAN /\ call[p].step = "lookup"
    BY DEF IInv, TypeOK, Call, Lookup, At
  <2>2. call' = [call EXCEPT ![p] = [@ EXCEPT !.step = "total", !.primary = call[p].primary]]
    BY <1>3 DEF IInv, TypeOK, Call
  <2> QED BY <2>1, <2>2, UnboundStep DEF Lookup, Unbound
<1> QED BY <1>1, <1>2, <1>3 DEF Lookup, Found

LEMMA TotalInv == ASSUME IInv, NEW p \in Calls, Total(p) PROVE IInv'
<1> DEFINE first == \A a \in Accounts : ~Exists(a)
<1>1. first \in BOOLEAN /\ call[p].step = "total"
  BY DEF Total, At
<1>2. call' = [call EXCEPT ![p] = [@ EXCEPT !.step = "upsert", !.primary = first]]
  BY DEF Total
<1> HIDE DEF first
<1> QED BY <1>1, <1>2, UnboundStep DEF Total, Unbound

\* A call knows accounts that were there once, so a new id is new to every call.
LEMMA BindInv ==
  ASSUME IInv, NEW p \in Calls, At(p, "upsert"), NEW a \in Target(picked[call[p].grant]), Bind(p, a),
         ~(call[p].primary /\ PrimaryTaken(a)),
         UNCHANGED <<state, names, provider, credential, key, faults>>
  PROVE  IInv'
<1> DEFINE s == call[p].grant
           row == [mailbox |-> picked[s], status |-> "connected", primary |-> call[p].primary]
           held == [call[p] EXCEPT !.step = "store", !.account = a]
<1>1. s \in Consents /\ picked[s] \in Mailboxes /\ state[s] = "gone" /\ bound[s] = 0
  BY DEF IInv, CallInv, Unbound, At
<1>2. a \in Accounts /\ (a \notin used \/ (Exists(a) /\ account[a].mailbox = picked[s]))
  BY DEF Target
<1>3. call[p] \in Call /\ a \in Accounts
  BY <1>2 DEF IInv, TypeOK
<1>4. row \in Row /\ row.mailbox = picked[s] /\ row.primary = call[p].primary
  BY <1>1, <1>3 DEF Row, Status, Call
<1>5. held \in Call /\ held.step = "store" /\ held.account = a /\ held.grant = s
  BY <1>3 DEF Call
<1>6. account' = [account EXCEPT ![a] = row] /\ call' = [call EXCEPT ![p] = held]
      /\ used' = used \cup {a} /\ bound' = [bound EXCEPT ![s] = @ + 1]
  BY DEF Bind
<1>7. picked' = picked /\ state' = state /\ names' = names
  BY DEF provider
<1> HIDE DEF row, held, s
<1>8. account'[a] = row /\ (\A b \in Accounts \ {a} : account'[b] = account[b])
      /\ call'[p] = held /\ (\A q \in Calls \ {p} : call'[q] = call[q])
      /\ bound'[s] = 1 /\ (\A t \in Consents \ {s} : bound'[t] = bound[t])
  BY <1>1, <1>2, <1>6 DEF IInv, TypeOK
<1>9. Exists(a)' /\ (\A b \in Accounts \ {a} : Exists(b)' <=> Exists(b))
  BY <1>4, <1>8, NoneAssumption DEF Exists
<1>10. TypeOK'
  <2>1. bound' \in [Consents -> Nat] /\ account' \in [Accounts -> Row \cup {None}] /\ used' \subseteq Accounts
    BY <1>1, <1>2, <1>4, <1>6 DEF IInv, TypeOK
  <2>2. call' \in [Calls -> Call]
    BY <1>5, <1>6 DEF IInv, TypeOK
  <2> QED BY <2>1, <2>2, <1>7 DEF IInv, TypeOK, provider
<1>11. ASSUME NEW q \in Calls PROVE CallInv(q)'
  <2>1. CASE q = p
    BY <2>1, <1>1, <1>4, <1>5, <1>6, <1>7, <1>8 DEF CallInv, Unbound, WithAccount
  <2>2. CASE q # p
    <3>1. call'[q] = call[q] /\ CallInv(q)
      BY <2>2, <1>8 DEF IInv
    <3>2. call[q].step \in Unbound => call[q].grant # s
      BY <2>2 DEF IInv, OneUse, At, Unbound, s
    <3>3. call[q].step \in {"store", "ask", "keep"} /\ Exists(call[q].account)' =>
            account'[call[q].account].mailbox = picked[call[q].grant]
      <4>1. SUFFICES ASSUME call[q].step \in {"store", "ask", "keep"}, Exists(call[q].account)'
                     PROVE  account'[call[q].account].mailbox = picked[call[q].grant]
        OBVIOUS
      <4>2. call[q].account \in used /\ call[q].account \in Accounts
        BY <3>1, <4>1 DEF CallInv, WithAccount, IInv, TypeOK
      <4>3. CASE call[q].account = a
        BY <4>1, <4>2, <4>3, <3>1, <1>2, <1>4, <1>8 DEF CallInv
      <4>4. CASE call[q].account # a
        BY <4>1, <4>2, <4>4, <3>1, <1>8, <1>9 DEF CallInv
      <4> QED BY <4>3, <4>4
    <3> QED BY <3>1, <3>2, <3>3, <1>6, <1>7, <1>8 DEF CallInv
  <2> QED BY <2>1, <2>2
<1>12. OneUse'
  BY <1>5, <1>8 DEF IInv, OneUse, Unbound
<1>13. Known' /\ Unspent' /\ BoundOnce'
  BY <1>1, <1>6, <1>7, <1>8, <1>9 DEF IInv, Known, Unspent, BoundOnce
<1>14. TokensMatch'
  <2> SUFFICES ASSUME NEW b \in Accounts, Exists(b)', credential[b] # None
               PROVE  /\ picked[credential[b].access.grant] = account'[b].mailbox
                      /\ credential[b].refresh # None =>
                           picked[credential[b].refresh.grant] = account'[b].mailbox
    BY <1>7 DEF TokensMatch
  <2>1. Exists(b)
    BY DEF IInv, NothingLeftBehind
  <2>2. account'[b].mailbox = account[b].mailbox
    BY <2>1, <1>2, <1>4, <1>8 DEF IInv, Known
  <2> QED BY <2>1, <2>2 DEF IInv, TokensMatch
<1>15. NothingLeftBehind' /\ Readable'
  BY <1>7, <1>9 DEF IInv, NothingLeftBehind, Readable
<1>16. OnePrimary'
  <2> SUFFICES ASSUME NEW b \in Accounts, NEW c \in Accounts, Exists(b)', Exists(c)',
                      account'[b].primary, account'[c].primary, b # c
               PROVE  FALSE
    BY DEF OnePrimary
  <2>1. CASE b # a /\ c # a
    BY <2>1, <1>8, <1>9 DEF IInv, OnePrimary
  <2>2. CASE b = a
    BY <2>2, <1>4, <1>8, <1>9 DEF PrimaryTaken
  <2>3. CASE c = a
    BY <2>3, <1>4, <1>8, <1>9 DEF PrimaryTaken
  <2> QED BY <2>1, <2>2, <2>3
<1> QED BY <1>10, <1>11, <1>12, <1>13, <1>14, <1>15, <1>16 DEF IInv

LEMMA UpsertInv == ASSUME IInv, NEW p \in Calls, Upsert(p) PROVE IInv'
<1> PICK a \in Target(picked[call[p].grant]) :
      IF call[p].primary /\ PrimaryTaken(a)
      THEN Done(p) /\ UNCHANGED <<account, used, bound>>
      ELSE Bind(p, a)
  BY DEF Upsert
<1>1. CASE call[p].primary /\ PrimaryTaken(a)
  BY <1>1, DoneStep DEF IInv, TypeOK, Upsert, consents, rows, provider
<1>2. CASE ~(call[p].primary /\ PrimaryTaken(a))
  BY <1>2, BindInv DEF Upsert
<1> QED BY <1>1, <1>2

LEMMA StoreTokensInv == ASSUME IInv, NEW p \in Calls, StoreTokens(p) PROVE IInv'
<1>1. CASE UNCHANGED credential
  BY <1>1, DoneStep DEF IInv, TypeOK, StoreTokens, provider
<1>2. CASE Write(call[p].account, call[p].grant)
  <2>1. call'[p] = Idle
    BY DEF IInv, TypeOK, StoreTokens, Done
  <2>2. CallInv(p)' /\ Idle.step \notin Unbound
    BY <2>1, IdleTyped DEF CallInv, Unbound, WithAccount
  <2>3. call[p].account \in Accounts /\ call[p].grant \in Consents
        /\ account[call[p].account].mailbox = picked[call[p].grant]
    BY <1>2 DEF IInv, TypeOK, CallInv, StoreTokens, At, WithAccount, Write
  <2> QED BY <1>2, <2>2, <2>3, IdleTyped, WriteStep DEF StoreTokens, Done
<1> QED BY <1>1, <1>2 DEF StoreTokens

-----------------------------------------------------------------------------
(* A sync, or an approved action, asks for an access token *)

LEMMA BeginInv == ASSUME IInv, NEW p \in Calls, NEW a \in Accounts, Begin(p, a) PROVE IInv'
<1> DEFINE held == [call[p] EXCEPT !.step = "load", !.account = a]
<1>1. held \in Call /\ held.step = "load" /\ held.account = a
  BY DEF IInv, TypeOK, Call
<1>2. call' = [call EXCEPT ![p] = held]
  BY DEF Begin
<1> HIDE DEF held
<1>3. call'[p] = held
  BY <1>2 DEF IInv, TypeOK
<1>4. CallInv(p)' /\ held.step \notin Unbound
  BY <1>1, <1>3 DEF IInv, Known, Begin, CallInv, Unbound, WithAccount, rows
<1> QED BY <1>1, <1>2, <1>4, CallStep DEF IInv, TypeOK, Begin, provider

\* A call goes on with the account it has, to no step that binds a consent.
LEMMA HeldStep ==
  ASSUME IInv, NEW p \in Calls, call[p].step \in WithAccount, NEW held \in Call,
         call' = [call EXCEPT ![p] = held], held.account = call[p].account,
         held.step \in {"ask", "keep"} =>
           /\ held.grant \in Consents
           /\ picked[held.grant] \in Mailboxes
           /\ Exists(held.account) => account[held.account].mailbox = picked[held.grant],
         held.step \in WithAccount \ {"store"},
         held.step = "recall" => held.grant \in Consents,
         held.step \in {"mark", "unlink"} => held.mark \in Status,
         held.step = "forget" => held.mark \in Status \cup {None},
         UNCHANGED <<consents, picked, rows, credential, key>>,
         live' \subseteq Consents, faults' \in 0 .. MaxFaults
  PROVE  IInv'
<1>1. call'[p] = held /\ picked' = picked /\ account' = account /\ used' = used
  BY DEF IInv, TypeOK, rows
<1>2. held.step \notin Unbound
  BY DEF Unbound, WithAccount
<1>3. call[p].account \in used
  BY DEF IInv, CallInv
<1>4. CallInv(p)'
  BY <1>1, <1>2, <1>3 DEF CallInv, Exists
<1> QED BY <1>2, <1>4, CallStep

\* What is stored for an account opens a call for that account's mailbox.
LEMMA LoadInv == ASSUME IInv, NEW p \in Calls, Load(p) PROVE IInv'
<1> DEFINE token == credential[call[p].account]
<1>1. call[p].step = "load" /\ call[p] \in Call /\ call[p].account \in Accounts
  BY DEF IInv, TypeOK, CallInv, WithAccount, Load, At
<1>2. CASE Done(p)
  BY <1>2, DoneStep DEF IInv, TypeOK, Load, provider
<1>3. CASE call' = [call EXCEPT ![p].step = "mark", ![p].mark = "expired"]
  <2> DEFINE held == [call[p] EXCEPT !.step = "mark", !.mark = "expired"]
  <2>1. held \in Call /\ held.step = "mark" /\ held.mark = "expired" /\ held.account = call[p].account
    BY <1>1 DEF Call, Status
  <2>2. call' = [call EXCEPT ![p] = held]
    BY <1>3
  <2> HIDE DEF held
  <2> QED BY <1>1, <2>1, <2>2, HeldStep DEF Load, WithAccount, Status, IInv, TypeOK, provider
<1>4. ASSUME token # None, token.refresh # None,
             call' = [call EXCEPT ![p].step = "ask", ![p].grant = token.refresh.grant]
      PROVE  IInv'
  <2>1. token \in Tokens
    BY <1>1, <1>4 DEF IInv, TypeOK
  <2>2. token.refresh.grant \in Consents
    BY <2>1, <1>4 DEF Tokens, Secret
  <2>3. Exists(call[p].account)
    BY <1>1, <1>4 DEF IInv, NothingLeftBehind
  <2>4. account[call[p].account] \in Row
    BY <1>1, <2>3 DEF IInv, TypeOK, Exists
  <2>5. account[call[p].account].mailbox = picked[token.refresh.grant]
        /\ picked[token.refresh.grant] \in Mailboxes
    BY <1>1, <1>4, <2>3, <2>4 DEF IInv, TokensMatch, Row
  <2> DEFINE held == [call[p] EXCEPT !.step = "ask", !.grant = token.refresh.grant]
  <2>6. held \in Call /\ held.step = "ask" /\ held.grant = token.refresh.grant
        /\ held.account = call[p].account
    BY <1>1, <2>2 DEF Call
  <2>7. call' = [call EXCEPT ![p] = held]
    BY <1>4
  <2> HIDE DEF held, token
  <2> QED BY <1>1, <2>2, <2>5, <2>6, <2>7, HeldStep DEF Load, WithAccount, IInv, TypeOK, provider
<1> QED BY <1>2, <1>3, <1>4 DEF Load

LEMMA AskInv == ASSUME IInv, NEW p \in Calls, Ask(p) PROVE IInv'
<1>1. call[p].step = "ask" /\ call[p] \in Call
  BY DEF IInv, TypeOK, Ask, At
<1>2. faults' \in 0 .. MaxFaults
  BY BoundsAssumption DEF IInv, TypeOK, Ask, Fault
<1>3. ASSUME NEW step \in {"keep", "mark"}, NEW mark \in Status \cup {None},
             step = "mark" => mark # None,
             call' = [call EXCEPT ![p] = [@ EXCEPT !.step = step, !.mark = mark]]
      PROVE  IInv'
  <2> DEFINE held == [call[p] EXCEPT !.step = step, !.mark = mark]
  <2>1. held \in Call /\ held.step = step /\ held.mark = mark /\ held.account = call[p].account
        /\ held.grant = call[p].grant
    BY <1>1 DEF Call
  <2>2. call' = [call EXCEPT ![p] = held]
    BY <1>3
  <2>3. /\ call[p].grant \in Consents
        /\ picked[call[p].grant] \in Mailboxes
        /\ Exists(call[p].account) => account[call[p].account].mailbox = picked[call[p].grant]
    BY <1>1 DEF IInv, CallInv
  <2>4. held.step \in WithAccount \ {"store"} /\ held.step # "recall" /\ held.step # "forget"
        /\ (held.step \in {"mark", "unlink"} => held.mark \in Status)
    BY <1>3, <2>1 DEF WithAccount
  <2> HIDE DEF held
  <2> QED BY <1>1, <1>2, <2>1, <2>2, <2>3, <2>4, HeldStep DEF Ask, WithAccount, IInv, TypeOK, provider
<1>4. CASE call' = [call EXCEPT ![p].step = "keep"]
  <2>1. call' = [call EXCEPT ![p] = [@ EXCEPT !.step = "keep", !.mark = call[p].mark]]
    BY <1>1, <1>4 DEF IInv, TypeOK, Call
  <2>2. call[p].mark \in Status \cup {None}
    BY <1>1 DEF Call
  <2> QED BY <2>1, <2>2, <1>3
<1>5. ASSUME NEW mark \in {"revoked", "expired"}, call' = [call EXCEPT ![p].step = "mark", ![p].mark = mark]
      PROVE  IInv'
  <2>1. mark \in Status /\ mark # None
    BY NoneAssumption DEF Status
  <2> QED BY <2>1, <1>3, <1>5
<1> QED BY <1>4, <1>5 DEF Ask

LEMMA KeepInv == ASSUME IInv, NEW p \in Calls, Keep(p) PROVE IInv'
<1>1. call[p].step = "keep" /\ call[p] \in Call
  BY DEF IInv, TypeOK, Keep, At
<1>2. CASE Done(p) /\ UNCHANGED credential
  BY <1>2, DoneStep DEF IInv, TypeOK, Keep, provider
<1>3. CASE /\ Write(call[p].account, call[p].grant)
           /\ call' = [call EXCEPT ![p].step = "mark", ![p].mark = "connected"]
  <2> DEFINE held == [call[p] EXCEPT !.step = "mark", !.mark = "connected"]
  <2>1. held \in Call /\ held.step = "mark" /\ held.mark = "connected" /\ held.account = call[p].account
    BY <1>1 DEF Call, Status
  <2>2. call' = [call EXCEPT ![p] = held]
    BY <1>3
  <2> HIDE DEF held
  <2>3. call'[p] = held
    BY <2>2 DEF IInv, TypeOK
  <2>4. call[p].account \in used /\ call[p].account \in Accounts /\ call[p].grant \in Consents
        /\ account[call[p].account].mailbox = picked[call[p].grant]
    BY <1>1, <1>3 DEF IInv, TypeOK, CallInv, WithAccount, Write
  <2>5. held.step \notin Unbound /\ CallInv(p)'
    BY <2>1, <2>3, <2>4 DEF CallInv, Unbound, WithAccount, Status, Keep, rows
  <2> QED BY <1>3, <2>1, <2>2, <2>4, <2>5, WriteStep DEF Keep
<1> QED BY <1>2, <1>3 DEF Keep

LEMMA MarkInv == ASSUME IInv, NEW p \in Calls, Mark(p) PROVE IInv'
<1>1. call[p].account \in Accounts /\ call[p].mark \in Status
  BY DEF IInv, TypeOK, CallInv, WithAccount, Mark, At
<1>2. call'[p] = Idle
  BY DEF IInv, TypeOK, Mark, Done
<1>3. CallInv(p)' /\ Idle.step \notin Unbound
  BY <1>2, IdleTyped DEF CallInv, Unbound, WithAccount
<1> QED BY <1>1, <1>3, IdleTyped, MarkStep DEF Mark, Done

-----------------------------------------------------------------------------
(* The user disconnects an account *)

LEMMA DisconnectInv == ASSUME IInv, NEW p \in Calls, NEW a \in Accounts, Disconnect(p, a) PROVE IInv'
<1>1. call[p] \in Call /\ a \in used
  BY DEF IInv, TypeOK, Known, Disconnect
<1>2. ASSUME NEW step \in {"revoke", "forget"}, NEW mark \in Status \cup {None},
             call' = [call EXCEPT ![p] = [@ EXCEPT !.step = step, !.account = a, !.mark = mark]]
      PROVE  IInv'
  <2> DEFINE held == [call[p] EXCEPT !.step = step, !.account = a, !.mark = mark]
  <2>1. held \in Call /\ held.step = step /\ held.account = a /\ held.mark = mark
    BY <1>1 DEF Call
  <2>2. call' = [call EXCEPT ![p] = held]
    BY <1>2
  <2> HIDE DEF held
  <2>3. call'[p] = held
    BY <2>2 DEF IInv, TypeOK
  <2>4. CallInv(p)' /\ held.step \notin Unbound
    BY <1>1, <2>1, <2>3 DEF Disconnect, CallInv, Unbound, WithAccount, rows
  <2> QED BY <2>1, <2>2, <2>4, CallStep DEF IInv, TypeOK, Disconnect, provider
<1>3. CASE call' = [call EXCEPT ![p].step = "revoke", ![p].account = a, ![p].mark = "disconnected"]
  <2>1. "disconnected" \in Status \cup {None}
    BY DEF Status
  <2> QED BY <1>2, <1>3, <2>1
<1>4. CASE call' = [call EXCEPT ![p].step = "forget", ![p].account = a]
  <2>1. call[p].mark \in Status \cup {None}
    BY <1>1 DEF Call
  <2>2. call' = [call EXCEPT ![p] = [@ EXCEPT !.step = "forget", !.account = a, !.mark = call[p].mark]]
    BY <1>1, <1>4 DEF IInv, TypeOK, Call
  <2> QED BY <1>2, <2>1, <2>2
<1> QED BY <1>3, <1>4 DEF Disconnect

LEMMA RevokeInv == ASSUME IInv, NEW p \in Calls, Revoke(p) PROVE IInv'
<1>1. call[p].step = "revoke" /\ call[p] \in Call /\ call[p].account \in Accounts
  BY DEF IInv, TypeOK, CallInv, WithAccount, Revoke, At
<1>2. ASSUME NEW step \in {"recall", "forget"}, NEW g \in Consents \cup {None},
             step = "recall" => g \in Consents,
             call' = [call EXCEPT ![p] = [@ EXCEPT !.step = step, !.grant = g]]
      PROVE  IInv'
  <2> DEFINE held == [call[p] EXCEPT !.step = step, !.grant = g]
  <2>1. held \in Call /\ held.step = step /\ held.account = call[p].account /\ held.grant = g
        /\ held.mark \in Status \cup {None}
    BY <1>1 DEF Call
  <2>2. call' = [call EXCEPT ![p] = held]
    BY <1>2
  <2>3. held.step \in WithAccount \ {"store", "ask", "keep", "mark", "unlink"}
    BY <2>1 DEF WithAccount
  <2> HIDE DEF held
  <2> QED BY <1>1, <1>2, <2>1, <2>2, <2>3, HeldStep DEF Revoke, WithAccount, IInv, TypeOK, provider
<1>3. CASE call' = [call EXCEPT ![p].step = "forget"]
  <2>1. call[p].grant \in Consents \cup {None}
    BY <1>1 DEF Call
  <2>2. call' = [call EXCEPT ![p] = [@ EXCEPT !.step = "forget", !.grant = call[p].grant]]
    BY <1>1, <1>3 DEF IInv, TypeOK, Call
  <2> QED BY <1>2, <2>1, <2>2
<1>4. ASSUME CanRevoke(credential[call[p].account]),
             call' = [call EXCEPT ![p].step = "recall",
                                  ![p].grant = credential[call[p].account].refresh.grant]
      PROVE  IInv'
  <2> DEFINE token == credential[call[p].account]
  <2>1. token # None /\ token.refresh # None
    BY <1>4 DEF CanRevoke
  <2>2. token \in Tokens
    BY <1>1, <2>1 DEF IInv, TypeOK
  <2>3. token.refresh.grant \in Consents
    BY <2>1, <2>2 DEF Tokens, Secret
  <2>4. call' = [call EXCEPT ![p] = [@ EXCEPT !.step = "recall", !.grant = token.refresh.grant]]
    BY <1>4
  <2> HIDE DEF token
  <2> QED BY <1>2, <2>3, <2>4
<1> QED BY <1>3, <1>4 DEF Revoke

LEMMA RecallInv == ASSUME IInv, NEW p \in Calls, Recall(p) PROVE IInv'
<1>1. call[p].step = "recall" /\ call[p] \in Call
  BY DEF IInv, TypeOK, Recall, At
<1>2. live' \subseteq Consents /\ faults' \in 0 .. MaxFaults
  BY BoundsAssumption DEF IInv, TypeOK, Recall, Withdraw, Fault
<1> DEFINE held == [call[p] EXCEPT !.step = "forget"]
<1>3. held \in Call /\ held.step = "forget" /\ held.account = call[p].account
      /\ held.mark \in Status \cup {None}
  BY <1>1 DEF Call
<1>4. call' = [call EXCEPT ![p] = held]
  BY DEF Recall
<1>5. held.step \in WithAccount \ {"store", "ask", "keep", "mark", "unlink", "recall"}
  BY <1>3 DEF WithAccount
<1> HIDE DEF held
<1> QED BY <1>1, <1>2, <1>3, <1>4, <1>5, HeldStep DEF Recall, WithAccount

\* A row loses its credentials, or goes altogether and takes them along.
LEMMA EraseStep ==
  ASSUME IInv, NEW p \in Calls, NEW held \in Call, call' = [call EXCEPT ![p] = held],
         held.step \notin Unbound \cup {"store", "ask", "keep"}, CallInv(p)', NEW a \in Accounts,
         credential' = [credential EXCEPT ![a] = None],
         \/ UNCHANGED <<account, state>>
         \/ /\ account' = [account EXCEPT ![a] = None]
            /\ state' = [s \in Consents |-> IF state[s] = "open" /\ names[s] = a THEN "gone" ELSE state[s]],
         UNCHANGED <<names, bound, provider, used, key, faults>>
  PROVE  IInv'
<1>1. call'[p] = held /\ \A q \in Calls \ {p} : call'[q] = call[q]
  BY DEF IInv, TypeOK
<1>2. credential'[a] = None /\ \A b \in Accounts \ {a} : credential'[b] = credential[b]
  BY DEF IInv, TypeOK
<1>3. \A b \in Accounts : account'[b] = account[b] \/ (b = a /\ account'[b] = None)
  BY DEF IInv, TypeOK
<1>4. \A s \in Consents : /\ state'[s] = state[s] \/ (state[s] = "open" /\ state'[s] = "gone")
                          /\ account' # account /\ names[s] = a => state'[s] # "open"
  BY DEF IInv, TypeOK
<1>5. picked' = picked /\ names' = names /\ bound' = bound /\ used' = used
  BY DEF provider
<1>6. TypeOK'
  <2>1. account' \in [Accounts -> Row \cup {None}] /\ credential' \in [Accounts -> Tokens \cup {None}]
    BY DEF IInv, TypeOK
  <2>2. state' \in [Consents -> {"new", "open", "gone"}]
    BY DEF IInv, TypeOK
  <2> QED BY <2>1, <2>2, <1>5 DEF IInv, TypeOK, provider
<1>7. ASSUME NEW q \in Calls PROVE CallInv(q)'
  <2>1. CASE q = p
    BY <2>1
  <2>2. CASE q # p
    <3>1. call'[q] = call[q] /\ CallInv(q)
      BY <2>2, <1>1 DEF IInv
    <3>2. call[q].step \in WithAccount => call[q].account \in Accounts
      BY <3>1 DEF CallInv, IInv, TypeOK
    <3>3. call[q].step \in {"store", "ask", "keep"} /\ Exists(call[q].account)' =>
            account'[call[q].account].mailbox = picked[call[q].grant]
      BY <3>1, <3>2, <1>3 DEF CallInv, WithAccount, Exists
    <3>4. call[q].step \in Unbound => state'[call[q].grant] = "gone"
      BY <3>1, <1>4 DEF CallInv
    <3> QED BY <3>1, <3>3, <3>4, <1>5 DEF CallInv
  <2> QED BY <2>1, <2>2
<1>8. OneUse'
  BY <1>1 DEF IInv, OneUse
<1>9. Known' /\ Unspent' /\ BoundOnce'
  BY <1>3, <1>4, <1>5 DEF IInv, Known, Unspent, BoundOnce, Exists
<1>10. TokensMatch' /\ OnePrimary' /\ Readable'
  BY <1>2, <1>3, <1>5 DEF IInv, TokensMatch, OnePrimary, Readable, Exists
<1>11. NothingLeftBehind'
  <2> SUFFICES ASSUME NEW b \in Accounts, ~Exists(b)'
               PROVE  credential'[b] = None /\ \A s \in Consents : names[s] = b => state'[s] # "open"
    BY <1>5 DEF NothingLeftBehind
  <2>1. CASE ~Exists(b)
    BY <2>1, <1>2, <1>4 DEF IInv, NothingLeftBehind
  <2>2. CASE Exists(b)
    <3>1. b = a /\ account' # account
      BY <2>2, <1>3 DEF Exists
    <3> QED BY <3>1, <1>2, <1>4
  <2> QED BY <2>1, <2>2
<1> QED BY <1>6, <1>7, <1>8, <1>9, <1>10, <1>11 DEF IInv

LEMMA ForgetInv == ASSUME IInv, NEW p \in Calls, Forget(p) PROVE IInv'
<1>1. call[p] \in Call /\ call[p].account \in used /\ call[p].account \in Accounts
      /\ call[p].mark \in Status \cup {None}
  BY DEF IInv, TypeOK, CallInv, WithAccount, Forget, At
<1> DEFINE step == IF call[p].mark = None THEN "delete" ELSE "unlink"
           held == [call[p] EXCEPT !.step = step]
<1>2. held \in Call /\ held.step \in {"delete", "unlink"} /\ held.account = call[p].account
      /\ (held.step = "unlink" => held.mark \in Status)
  BY <1>1 DEF Call
<1>3. call' = [call EXCEPT ![p] = held]
  BY DEF Forget
<1> HIDE DEF held, step
<1>4. call'[p] = held
  BY <1>3 DEF IInv, TypeOK
<1>5. held.step \notin Unbound \cup {"store", "ask", "keep"} /\ CallInv(p)'
  BY <1>1, <1>2, <1>4 DEF CallInv, Unbound, Forget, rows
<1>6. CASE credential' = [credential EXCEPT ![call[p].account] = None] /\ UNCHANGED faults
  BY <1>1, <1>2, <1>3, <1>5, <1>6, EraseStep DEF Forget, consents, rows
<1>7. CASE Fault /\ UNCHANGED credential
  <2>1. faults' \in 0 .. MaxFaults /\ live' \subseteq Consents
    BY <1>7, BoundsAssumption DEF IInv, TypeOK, Forget, Fault, provider
  <2> QED BY <1>2, <1>3, <1>5, <1>7, <2>1, CallStep DEF Forget, provider
<1> QED BY <1>6, <1>7 DEF Forget

LEMMA UnlinkInv == ASSUME IInv, NEW p \in Calls, Unlink(p) PROVE IInv'
<1>1. call[p] \in Call /\ call[p].account \in used /\ call[p].account \in Accounts /\ call[p].mark \in Status
  BY DEF IInv, TypeOK, CallInv, WithAccount, Unlink, At
<1> DEFINE held == [call[p] EXCEPT !.step = "delete"]
<1>2. held \in Call /\ held.step = "delete" /\ held.account = call[p].account
  BY <1>1 DEF Call
<1>3. call' = [call EXCEPT ![p] = held]
  BY DEF Unlink
<1> HIDE DEF held
<1>4. call'[p] = held
  BY <1>3 DEF IInv, TypeOK
<1>5. held.step \notin Unbound /\ CallInv(p)'
  BY <1>1, <1>2, <1>4 DEF CallInv, Unbound, Unlink
<1>6. CASE MarkStatus(call[p].account, call[p].mark) /\ UNCHANGED faults
  BY <1>1, <1>2, <1>3, <1>5, <1>6, MarkStep DEF Unlink
<1>7. CASE Fault /\ UNCHANGED account
  <2>1. faults' \in 0 .. MaxFaults /\ live' \subseteq Consents
    BY <1>7, BoundsAssumption DEF IInv, TypeOK, Unlink, Fault, provider
  <2> QED BY <1>2, <1>3, <1>5, <1>7, <2>1, CallStep DEF Unlink, provider, rows
<1> QED BY <1>6, <1>7 DEF Unlink

LEMMA DeleteInv == ASSUME IInv, NEW p \in Calls, Delete(p) PROVE IInv'
<1>1. call[p].account \in Accounts
  BY DEF IInv, TypeOK, CallInv, WithAccount, Delete, At
<1>2. call'[p] = Idle
  BY DEF IInv, TypeOK, Delete, Done
<1>3. CallInv(p)' /\ Idle.step \notin Unbound \cup {"store", "ask", "keep"}
  BY <1>2, IdleTyped DEF CallInv, Unbound, WithAccount
<1> QED BY <1>1, <1>3, IdleTyped, EraseStep DEF Delete, Done

-----------------------------------------------------------------------------
(* Everything else *)

LEMMA GiveUpInv == ASSUME IInv, NEW p \in Calls, GiveUp(p) PROVE IInv'
<1>1. faults' \in 0 .. MaxFaults
  BY BoundsAssumption DEF IInv, TypeOK, GiveUp, Fault
<1> QED BY <1>1, DoneStep DEF IInv, TypeOK, GiveUp, provider

LEMMA ExpireInv == ASSUME IInv, NEW a \in Accounts, Expire(a) PROVE IInv'
<1> DEFINE new == [credential[a] EXCEPT !.fresh = FALSE]
<1>1. credential[a] \in Tokens /\ credential[a] # None
  BY DEF IInv, TypeOK, Expire
<1>2. new \in Tokens /\ new.access = credential[a].access /\ new.refresh = credential[a].refresh
  BY <1>1 DEF Tokens
<1>3. credential' = [credential EXCEPT ![a] = new]
  BY DEF Expire
<1> HIDE DEF new
<1>4. credential'[a] = new /\ \A b \in Accounts \ {a} : credential'[b] = credential[b]
  BY <1>3 DEF IInv, TypeOK
<1>5. TypeOK'
  BY <1>2, <1>3 DEF IInv, TypeOK, Expire, consents, provider, rows
<1>6. OneUse' /\ Known' /\ Unspent' /\ BoundOnce' /\ OnePrimary' /\ \A p \in Calls : CallInv(p)'
  BY DEF IInv, Expire, OneUse, Known, Unspent, BoundOnce, OnePrimary, CallInv, Exists, consents,
         provider, rows
<1>7. TokensMatch' /\ Readable'
  BY <1>1, <1>2, <1>4 DEF IInv, Expire, TokensMatch, Readable, Exists, rows, provider
<1>8. NothingLeftBehind'
  BY <1>1, <1>4 DEF IInv, Expire, NothingLeftBehind, Exists, rows, consents
<1> QED BY <1>5, <1>6, <1>7, <1>8 DEF IInv

\* Of what the provider, the key and the bound hold, only their types matter.
LEMMA OutsideStep ==
  ASSUME IInv, UNCHANGED <<consents, picked, rows, credential, call>>,
         live' \subseteq Consents, key' \in Keys, faults' \in 0 .. MaxFaults
  PROVE  IInv'
<1>1. TypeOK'
  BY DEF IInv, TypeOK, consents, rows
<1>2. OneUse' /\ Known' /\ Unspent' /\ BoundOnce' /\ \A p \in Calls : CallInv(p)'
  BY DEF IInv, OneUse, Known, Unspent, BoundOnce, CallInv, Exists, consents, rows
<1>3. TokensMatch' /\ NothingLeftBehind' /\ OnePrimary' /\ Readable'
  BY DEF IInv, TokensMatch, NothingLeftBehind, OnePrimary, Readable, Exists, consents, rows
<1> QED BY <1>1, <1>2, <1>3 DEF IInv

LEMMA WithdrawnByOwnerInv == ASSUME IInv, NEW s \in Consents, WithdrawnByOwner(s) PROVE IInv'
  BY OutsideStep DEF IInv, TypeOK, WithdrawnByOwner, Withdraw

LEMMA RotateKeyInv == ASSUME IInv, RotateKey PROVE IInv'
<1>1. key' \in Keys
  BY BoundsAssumption DEF IInv, TypeOK, RotateKey, Keys
<1> QED BY <1>1, OutsideStep DEF IInv, TypeOK, RotateKey, provider

LEMMA StutterInv == ASSUME IInv, UNCHANGED vars PROVE IInv'
  BY OutsideStep DEF IInv, TypeOK, vars, consents, rows

LEMMA ProceedInv == ASSUME IInv, NEW p \in Calls, Proceed(p) PROVE IInv'
  BY ExchangeInv, LookupInv, TotalInv, UpsertInv, StoreTokensInv, LoadInv, AskInv, KeepInv, MarkInv,
     RevokeInv, RecallInv, ForgetInv, UnlinkInv, DeleteInv DEF Proceed

LEMMA NextInv == ASSUME IInv, [Next]_vars PROVE IInv'
<1>1. CASE \E p \in Calls : Proceed(p) \/ GiveUp(p)
  BY <1>1, ProceedInv, GiveUpInv
<1>2. CASE \E p \in Calls, s \in Consents : Consume(p, s)
  BY <1>2, ConsumeInv
<1>3. CASE \E p \in Calls, a \in Accounts : Begin(p, a) \/ Disconnect(p, a)
  BY <1>3, BeginInv, DisconnectInv
<1>4. CASE \E s \in Consents, a \in Accounts \cup {None} : Start(s, a)
  BY <1>4, StartInv
<1>5. CASE \E s \in Consents, m \in Mailboxes : SignIn(s, m)
  BY <1>5, SignInInv
<1>6. CASE \E s \in Consents : Lapse(s) \/ WithdrawnByOwner(s)
  BY <1>6, LapseInv, WithdrawnByOwnerInv
<1>7. CASE (\E a \in Accounts : Expire(a)) \/ RotateKey \/ UNCHANGED vars
  BY <1>7, ExpireInv, RotateKeyInv, StutterInv
<1> QED BY <1>1, <1>2, <1>3, <1>4, <1>5, <1>6, <1>7 DEF Next

THEOREM Inductive == Spec => []IInv
  BY InitInv, NextInv, PTL DEF Spec

-----------------------------------------------------------------------------
(* The theorems *)

\* Every variable keeps its type.
THEOREM TypeCorrect == Spec => []TypeOK
  BY Inductive, PTL DEF IInv

\* A row only ever holds tokens of its own mailbox, whatever overlaps (oauth-complete
\* and getAccessToken).
THEOREM TokensAlwaysMatch == Spec => []TokensMatch
  BY Inductive, PTL DEF IInv

\* No credentials and no consent outlive the account they belong to (accounts-disconnect
\* and the cascades of 0003 and 0015).
THEOREM NothingIsLeftBehind == Spec => []NothingLeftBehind
  BY Inductive, PTL DEF IInv

\* At most one account is the primary one (oauth-complete and the index of 0003).
THEOREM OnePrimaryAlways == Spec => []OnePrimary
  BY Inductive, PTL DEF IInv

\* No consent is bound twice (consumeState).
THEOREM BoundOnceAlways == Spec => []BoundOnce
  BY Inductive, PTL DEF IInv

\* Every stored token can be opened with the version beside it (storeTokens).
THEOREM ReadableAlways == Spec => []Readable
  BY Inductive, PTL DEF IInv

-----------------------------------------------------------------------------
(* Connections implements the links the rest of the product relies on *)

\* Whatever an account holds, or a call is about to store, came with a consent
\* that an account was made or renewed with.
GrantsSpent ==
  /\ \A a \in Accounts : GrantsOf(credential[a]) \subseteq Spent
  /\ \A p \in Calls : call[p].step \in {"store", "ask", "keep"} => call[p].grant \in Spent

Linked == [Connected!Next]_(Connected!vars)

\* Nothing the links are made of changes.
LEMMA QuietStep ==
  ASSUME UNCHANGED <<picked, rows, bound, credential>>
  PROVE  Linked
  BY DEF Linked, Connected!vars, Spent, Held, rows

\* What Written leaves in place of the tokens it found.
LEMMA WrittenGrants ==
  ASSUME NEW old \in Tokens \cup {None}, NEW g \in Consents, NEW rotated \in BOOLEAN, key \in Keys
  PROVE  \E kept \in SUBSET GrantsOf(old) : GrantsOf(Written(old, g, rotated)) = kept \cup {g}
<1> DEFINE new == Written(old, g, rotated)
<1>1. Sealed(g) \in Secret /\ Sealed(g).grant = g /\ Sealed(g) # None
  BY NoneAssumption DEF Sealed, Secret
<1>2. new \in Tokens /\ new # None /\ new.access = Sealed(g)
  <2>1. new.refresh \in Secret \cup {None}
    BY <1>1 DEF Written, Tokens
  <2>2. new \in Tokens /\ new.access = Sealed(g)
    BY <1>1, <2>1 DEF Written, Tokens
  <2> QED BY <2>2, NoneAssumption
<1>3. CASE rotated \/ old = None \/ old.refresh = None
  <2>1. new.refresh \in {Sealed(g), None}
    BY <1>3 DEF Written
  <2>2. GrantsOf(new) = {} \cup {g}
    BY <1>1, <1>2, <2>1 DEF GrantsOf
  <2> QED BY <2>2
<1>4. CASE ~rotated /\ old # None /\ old.refresh # None
  <2>1. new.refresh = old.refresh
    BY <1>4 DEF Written
  <2>2. GrantsOf(new) = {old.refresh.grant} \cup {g} /\ {old.refresh.grant} \subseteq GrantsOf(old)
    BY <1>1, <1>2, <1>4, <2>1 DEF GrantsOf
  <2> QED BY <2>2
<1> QED BY <1>3, <1>4

\* Tokens that are written are held by their mailbox's account.
LEMMA WriteLinks ==
  ASSUME IInv, GrantsSpent, NEW a \in Accounts, NEW g \in Spent, Write(a, g), account[a].mailbox = picked[g],
         UNCHANGED <<picked, rows, bound>>
  PROVE  Linked /\ \A b \in Accounts : GrantsOf(credential'[b]) \subseteq Spent
<1> PICK rotated \in BOOLEAN :
      credential' = [credential EXCEPT ![a] = Written(credential[a], g, rotated)]
  BY DEF Write
<1>1. g \in Consents /\ credential[a] \in Tokens \cup {None} /\ key \in Keys
  BY DEF IInv, TypeOK, Spent
<1>2. PICK kept \in SUBSET GrantsOf(credential[a]) :
        GrantsOf(Written(credential[a], g, rotated)) = kept \cup {g}
  BY <1>1, WrittenGrants
<1>3. GrantsOf(credential'[a]) = kept \cup {g} /\ \A b \in Accounts \ {a} : credential'[b] = credential[b]
  BY <1>2 DEF IInv, TypeOK
<1>4. Held' = [Held EXCEPT ![a] = kept \cup {g}] /\ kept \in SUBSET Held[a]
  <2>1. Held' = [b \in Accounts |-> GrantsOf(credential'[b])]
    BY DEF Held, GrantsOf
  <2>2. \A b \in Accounts \ {a} : GrantsOf(credential'[b]) = Held[b]
    BY <1>3 DEF Held
  <2> QED BY <1>3, <2>1, <2>2 DEF Held
<1>5. Connected!Exists(a) /\ UNCHANGED <<picked, account, used, Spent>>
  BY DEF Write, Exists, Connected!Exists, rows, Spent
<1>6. Connected!Hold(g, a)
  BY <1>4, <1>5 DEF Connected!Hold
<1>7. Linked
  BY <1>1, <1>6 DEF Linked, Connected!Next
<1>8. \A b \in Accounts : GrantsOf(credential'[b]) \subseteq Spent
  BY <1>3 DEF GrantsSpent
<1> QED BY <1>7, <1>8

\* The upsert spends its consent on the row of its mailbox, or on a new one.
LEMMA BindLinks ==
  ASSUME IInv, NEW p \in Calls, At(p, "upsert"), NEW a \in Target(picked[call[p].grant]), Bind(p, a),
         ~(call[p].primary /\ PrimaryTaken(a)), UNCHANGED <<picked, credential>>
  PROVE  Linked /\ Spent' = Spent \cup {call[p].grant} /\ call'[p].grant = call[p].grant
<1> DEFINE s == call[p].grant
<1>1. s \in Consents /\ picked[s] \in Mailboxes /\ bound[s] = 0 /\ call[p] \in Call
  BY DEF IInv, CallInv, Unbound, At, TypeOK
<1>2. a \in Accounts /\ picked[s] # None
  BY <1>1, NoneAssumption DEF Target
<1>3. \/ Exists(a) /\ account[a].mailbox = picked[s]
      \/ a \notin used /\ \A b \in Accounts : Exists(b) => account[b].mailbox # picked[s]
  BY DEF Target
<1>4. call[p].primary \in BOOLEAN /\ (call[p].primary => \A b \in Accounts \ {a} : Exists(b) => ~account[b].primary)
  BY <1>1 DEF Call, PrimaryTaken
<1>5. bound' = [bound EXCEPT ![s] = bound[s] + 1]
  BY DEF Bind
<1>6. Spent' = Spent \cup {s} /\ s \notin Spent
  BY <1>1, <1>5 DEF Spent, IInv, TypeOK
<1>7. /\ account' = [account EXCEPT ![a] =
            [mailbox |-> picked[s], status |-> "connected", primary |-> call[p].primary]]
      /\ used' = used \cup {a} /\ UNCHANGED <<picked, Held>>
  BY DEF Bind, Held
<1>8. call'[p].grant = s
  BY DEF Bind, IInv, TypeOK, Call
<1> HIDE DEF s
<1>9. Connected!Link(s, a)
  BY <1>2, <1>3, <1>4, <1>6, <1>7 DEF Connected!Link, Connected!Exists, Exists
<1>10. Linked
  BY <1>1, <1>2, <1>9 DEF Linked, Connected!Next
<1> QED BY <1>6, <1>8, <1>10 DEF s

\* A call that holds a grant to store got it from its consent or from its account.
LEMMA GrantsKept ==
  ASSUME IInv, GrantsSpent, [Next]_vars, Spent \subseteq Spent',
         \A a \in Accounts : GrantsOf(credential'[a]) \subseteq Spent',
         \A p \in Calls : Upsert(p) /\ call'[p].step = "store" => call'[p].grant \in Spent'
  PROVE  GrantsSpent'
<1> SUFFICES ASSUME NEW p \in Calls, call'[p].step \in {"store", "ask", "keep"}
             PROVE  call'[p].grant \in Spent'
  <2>1. \A a \in Accounts : GrantsOf(credential[a])' \subseteq Spent'
    BY DEF GrantsOf
  <2> QED BY <2>1 DEF GrantsSpent
<1>1. CASE call'[p] = call[p]
  BY <1>1 DEF GrantsSpent
<1>2. CASE call'[p] # call[p]
  <2>0. Idle.step = "idle" /\ call \in [Calls -> Call]
    BY IdleTyped DEF IInv, TypeOK
  <2>1. CASE Upsert(p)
    <3>1. call'[p].step = "store"
      BY <2>0, <2>1 DEF Upsert, Bind, Done, Call
    <3> QED BY <2>1, <3>1
  <2>2. CASE Load(p)
    <3>1. credential[call[p].account].refresh # None /\ credential[call[p].account] # None
          /\ call'[p].grant = credential[call[p].account].refresh.grant
      BY <2>0, <2>2 DEF Load, Done, Call
    <3>2. call[p].account \in Accounts
      BY <2>2 DEF Load, At, IInv, CallInv, WithAccount, TypeOK
    <3> QED BY <3>1, <3>2 DEF GrantsSpent, GrantsOf
  <2>3. CASE Ask(p)
    <3>1. call[p].step = "ask" /\ call'[p].grant = call[p].grant
      BY <2>0, <2>3 DEF Ask, At, Call
    <3> QED BY <3>1 DEF GrantsSpent
  <2>4. CASE \E q \in Calls \ {p} : Proceed(q) \/ GiveUp(q)
    <3>1. PICK q \in Calls \ {p} : Proceed(q) \/ GiveUp(q)
      BY <2>4
    <3>2. call'[p] = call[p]
      BY <2>0, <3>1 DEF Proceed, GiveUp, Exchange, Lookup, Total, Upsert, Bind, StoreTokens, Load, Ask, Keep, Mark, Revoke,
            Recall, Forget, Unlink, Delete, Done
    <3> QED BY <1>2, <3>2
  <2>5. CASE Proceed(p) /\ ~Upsert(p) /\ ~Load(p) /\ ~Ask(p)
    <3>1. call'[p].step \notin {"store", "ask", "keep"}
      BY <2>0, <2>5 DEF Proceed, Exchange, Lookup, Total, StoreTokens, Keep, Mark, Revoke, Recall, Forget, Unlink,
            Delete, Done, Call
    <3> QED BY <3>1
  <2>6. CASE GiveUp(p)
    BY <2>0, <2>6 DEF GiveUp, Done
  <2>7. ASSUME NEW q \in Calls, \/ \E c \in Consents : Consume(q, c)
                               \/ \E a \in Accounts : Begin(q, a) \/ Disconnect(q, a)
        PROVE  FALSE
    <3>1. q # p => call'[p] = call[p]
      BY <2>0, <2>7 DEF Consume, Begin, Disconnect
    <3>2. q = p => call'[p].step \notin {"store", "ask", "keep"}
      <4>1. ASSUME NEW c \in Consents, Consume(p, c) PROVE call'[p].step = "exchange"
        BY <2>0, <4>1 DEF Consume, Call
      <4>2. ASSUME NEW a \in Accounts, Begin(p, a) PROVE call'[p].step = "load"
        BY <2>0, <4>2 DEF Begin, Call
      <4>3. ASSUME NEW a \in Accounts, Disconnect(p, a) PROVE call'[p].step \in {"revoke", "forget"}
        BY <2>0, <4>3 DEF Disconnect, Call
      <4> QED BY <2>7, <4>1, <4>2, <4>3
    <3> QED BY <1>2, <3>1, <3>2
  <2>8. ASSUME \/ \E c \in Consents, a \in Accounts \cup {None} : Start(c, a)
               \/ \E c \in Consents, m \in Mailboxes : SignIn(c, m)
               \/ \E c \in Consents : Lapse(c) \/ WithdrawnByOwner(c)
               \/ \E a \in Accounts : Expire(a)
               \/ RotateKey \/ UNCHANGED vars
        PROVE  FALSE
    BY <1>2, <2>8 DEF Start, SignIn, Lapse, WithdrawnByOwner, Expire, RotateKey, vars
  <2> QED BY <2>1, <2>2, <2>3, <2>4, <2>5, <2>6, <2>7, <2>8 DEF Next
<1> QED BY <1>1, <1>2

\* The rows are marked by id, and only if they are still there.
LEMMA MarkLinks ==
  ASSUME IInv, NEW a \in Accounts, NEW status \in Status, MarkStatus(a, status),
         UNCHANGED <<picked, used, bound, credential>>
  PROVE  Linked
<1>1. UNCHANGED <<picked, used, Spent, Held>>
  BY DEF Spent, Held
<1>2. CASE Exists(a)
  <2>1. Connected!Mark(a, status)
    BY <1>1, <1>2 DEF MarkStatus, Connected!Mark, Exists, Connected!Exists
  <2> QED BY <2>1 DEF Linked, Connected!Next
<1>3. CASE ~Exists(a)
  BY <1>1, <1>3 DEF MarkStatus, Linked, Connected!vars
<1> QED BY <1>2, <1>3

\* Tokens that go take nothing else with them, and leave nothing behind.
LEMMA ForgetLinks ==
  ASSUME IInv, NEW a \in Accounts, credential' = [credential EXCEPT ![a] = None], UNCHANGED <<picked, used, bound>>,
         account' \in {account, [account EXCEPT ![a] = None]}
  PROVE  Linked /\ \A b \in Accounts : GrantsOf(credential'[b]) \subseteq GrantsOf(credential[b])
<1>1. credential'[a] = None /\ \A b \in Accounts \ {a} : credential'[b] = credential[b]
  BY DEF IInv, TypeOK
<1>2. GrantsOf(credential'[a]) = {} /\ \A b \in Accounts \ {a} : GrantsOf(credential'[b]) = GrantsOf(credential[b])
  BY <1>1 DEF GrantsOf
<1>3. Held' = [Held EXCEPT ![a] = {}] /\ UNCHANGED <<picked, used, Spent>>
  <2>1. Held' = [b \in Accounts |-> GrantsOf(credential'[b])]
    BY DEF Held, GrantsOf
  <2> QED BY <1>2, <2>1 DEF Held, Spent
<1>4. Connected!Forget(a) \/ Connected!Drop(a)
  BY <1>3 DEF Connected!Forget, Connected!Drop
<1>5. Linked
  BY <1>4 DEF Linked, Connected!Next
<1> QED BY <1>2, <1>5

\* Every step is one step of the links, or none.
LEMMA NextLinks == ASSUME IInv, GrantsSpent, [Next]_vars PROVE Linked /\ GrantsSpent'
<1> DEFINE Fine == /\ Linked /\ Spent \subseteq Spent'
                   /\ \A a \in Accounts : GrantsOf(credential'[a]) \subseteq Spent'
<1>1. ASSUME UNCHANGED bound, Linked, \A a \in Accounts : GrantsOf(credential'[a]) \subseteq Spent
      PROVE  Fine
  BY <1>1 DEF Spent
<1>2. ASSUME UNCHANGED <<picked, rows, bound, credential>> PROVE Fine
  BY <1>1, <1>2, QuietStep DEF GrantsSpent
<1>3. CASE \E p \in Calls : Upsert(p)
  <2>1. PICK p \in Calls : Upsert(p)
    BY <1>3
  <2>2. PICK a \in Target(picked[call[p].grant]) :
          IF call[p].primary /\ PrimaryTaken(a) THEN Done(p) /\ UNCHANGED <<account, used, bound>> ELSE Bind(p, a)
    BY <2>1 DEF Upsert
  <2>3. At(p, "upsert") /\ UNCHANGED <<picked, credential>> /\ call \in [Calls -> Call]
        /\ \A q \in Calls \ {p} : call'[q] = call[q]
    BY <2>1 DEF Upsert, Bind, Done, provider, IInv, TypeOK
  <2>4. \A q \in Calls \ {p} : Upsert(q) => call'[q].step # "store"
    BY <2>3 DEF Upsert, At
  <2>5. Fine /\ (call'[p].step = "store" => call'[p].grant \in Spent')
    <3>1. CASE call[p].primary /\ PrimaryTaken(a)
      <4>1. UNCHANGED <<picked, rows, bound, credential>> /\ call'[p] = Idle
        BY <2>2, <2>3, <3>1 DEF Done, rows
      <4> QED BY <4>1, <1>2, IdleTyped
    <3>2. CASE ~(call[p].primary /\ PrimaryTaken(a))
      <4>1. Linked /\ Spent' = Spent \cup {call[p].grant} /\ call'[p].grant = call[p].grant
        BY <2>2, <2>3, <3>2, BindLinks
      <4>2. \A b \in Accounts : GrantsOf(credential'[b]) \subseteq Spent
        BY <2>3 DEF GrantsSpent
      <4> QED BY <4>1, <4>2
    <3> QED BY <3>1, <3>2
  <2>6. \A q \in Calls : Upsert(q) /\ call'[q].step = "store" => call'[q].grant \in Spent'
    BY <2>4, <2>5
  <2> HIDE DEF Fine
  <2> QED BY <2>5, <2>6, GrantsKept DEF Fine
<1>4. CASE ~\E p \in Calls : Upsert(p)
  <2> SUFFICES Fine
    BY <1>4, GrantsKept
  <2> HIDE DEF Fine
  <2>1. ASSUME NEW p \in Calls, Exchange(p) \/ Lookup(p) \/ Total(p) \/ Load(p) \/ Ask(p) \/ Revoke(p) \/ Recall(p) \/ GiveUp(p)
        PROVE  Fine
    BY <1>2, <2>1 DEF Exchange, Lookup, Total, Load, Ask, Revoke, Recall, GiveUp, consents, provider, rows
  <2>2. ASSUME NEW p \in Calls, StoreTokens(p) \/ Keep(p) PROVE Fine
    <3>1. CASE UNCHANGED credential
      BY <1>2, <2>2, <3>1 DEF StoreTokens, Keep, consents, provider, rows
    <3>2. CASE Write(call[p].account, call[p].grant)
      <4>1. call[p].account \in Accounts /\ call[p].grant \in Spent
            /\ account[call[p].account].mailbox = picked[call[p].grant]
        BY <2>2, <3>2 DEF StoreTokens, Keep, At, IInv, CallInv, WithAccount, TypeOK, Write, GrantsSpent
      <4>2. UNCHANGED <<picked, rows, bound>>
        BY <2>2 DEF StoreTokens, Keep, consents, provider, rows
      <4> QED BY <1>1, <3>2, <4>1, <4>2, WriteLinks
    <3> QED BY <2>2, <3>1, <3>2 DEF StoreTokens, Keep
  <2>3. ASSUME NEW p \in Calls, Mark(p) \/ Unlink(p) PROVE Fine
    <3>1. call[p].account \in Accounts /\ call[p].mark \in Status
      BY <2>3 DEF Mark, Unlink, At, IInv, CallInv, WithAccount, TypeOK
    <3>2. UNCHANGED <<picked, used, bound, credential>> /\ (MarkStatus(call[p].account, call[p].mark) \/ UNCHANGED account)
      BY <2>3 DEF Mark, Unlink, consents, provider
    <3>3. CASE UNCHANGED account
      BY <1>2, <3>2, <3>3 DEF rows
    <3>4. CASE MarkStatus(call[p].account, call[p].mark)
      BY <1>1, <3>1, <3>2, <3>4, MarkLinks DEF GrantsSpent
    <3> QED BY <3>2, <3>3, <3>4
  <2>4. ASSUME NEW p \in Calls, Forget(p) \/ Delete(p) PROVE Fine
    <3>1. call[p].account \in Accounts
      BY <2>4 DEF Forget, Delete, At, IInv, CallInv, WithAccount, TypeOK
    <3>2. CASE UNCHANGED <<credential, account>>
      BY <1>2, <2>4, <3>2 DEF Forget, Delete, consents, provider, rows
    <3>3. CASE ~UNCHANGED <<credential, account>>
      <4>1. /\ credential' = [credential EXCEPT ![call[p].account] = None]
            /\ UNCHANGED <<picked, used, bound>>
            /\ account' \in {account, [account EXCEPT ![call[p].account] = None]}
        BY <2>4, <3>3 DEF Forget, Delete, consents, provider, rows
      <4> QED BY <1>1, <3>1, <4>1, ForgetLinks DEF GrantsSpent
    <3> QED BY <3>2, <3>3
  <2>5. ASSUME NEW q \in Calls, \/ \E c \in Consents : Consume(q, c)
                               \/ \E a \in Accounts : Begin(q, a) \/ Disconnect(q, a)
        PROVE  Fine
    BY <1>2, <2>5 DEF Consume, Begin, Disconnect, consents, provider, rows
  <2>6. ASSUME NEW c \in Consents, NEW m \in Mailboxes, SignIn(c, m) PROVE Fine
    <3>1. UNCHANGED <<rows, bound, credential>>
      BY <2>6 DEF SignIn, consents
    <3>2. Connected!SignIn(c, m)
      BY <2>6, <3>1 DEF SignIn, Connected!SignIn, Spent, Held, rows
    <3>3. Linked
      BY <3>2 DEF Linked, Connected!Next
    <3> QED BY <1>1, <3>1, <3>3 DEF GrantsSpent
  <2>7. ASSUME NEW a \in Accounts, Expire(a) PROVE Fine
    <3>1. credential' = [credential EXCEPT ![a] = [credential[a] EXCEPT !.fresh = FALSE]]
          /\ credential[a] \in Tokens /\ UNCHANGED <<picked, rows, bound>>
      BY <2>7 DEF Expire, IInv, TypeOK, consents, provider, rows
    <3>2. \A b \in Accounts : GrantsOf(credential'[b]) = GrantsOf(credential[b])
      <4>1. [credential[a] EXCEPT !.fresh = FALSE] \in Tokens
        BY <3>1 DEF Tokens
      <4>2. credential'[a] # None /\ credential'[a].access = credential[a].access
            /\ credential'[a].refresh = credential[a].refresh
        BY <3>1, <4>1, NoneAssumption DEF Tokens, IInv, TypeOK
      <4>3. GrantsOf(credential'[a]) = GrantsOf(credential[a])
        BY <3>1, <4>2, NoneAssumption DEF GrantsOf
      <4> QED BY <3>1, <4>3 DEF IInv, TypeOK
    <3>3. Held' = Held
      <4>1. Held' = [b \in Accounts |-> GrantsOf(credential'[b])]
        BY DEF Held, GrantsOf
      <4> QED BY <3>2, <4>1 DEF Held
    <3>4. Linked
      BY <3>1, <3>3 DEF Linked, Connected!vars, Spent, rows
    <3> QED BY <1>1, <3>1, <3>2, <3>4 DEF GrantsSpent
  <2>8. ASSUME \/ \E c \in Consents, a \in Accounts \cup {None} : Start(c, a)
               \/ \E c \in Consents : Lapse(c) \/ WithdrawnByOwner(c)
               \/ RotateKey \/ UNCHANGED vars
        PROVE  Fine
    BY <1>2, <2>8 DEF Start, Lapse, WithdrawnByOwner, RotateKey, vars, consents, provider, rows
  <2> QED BY <1>4, <2>1, <2>2, <2>3, <2>4, <2>5, <2>6, <2>7, <2>8 DEF Next, Proceed
<1> QED BY <1>3, <1>4

\* Consents, refreshes and disconnects, however they overlap, die and fail half-way,
\* make, renew and drop whole links (oauth-complete, getAccessToken, accounts-disconnect).
THEOREM LinksAreWhole == Spec => ImplementsLinks
<1>1. Init => Connected!Init /\ GrantsSpent
  <2> SUFFICES ASSUME Init PROVE Connected!Init /\ GrantsSpent
    OBVIOUS
  <2>1. Spent = {} /\ Held = [a \in Accounts |-> {}]
    BY DEF Init, Spent, Held, GrantsOf
  <2>2. GrantsSpent
    BY <2>1, IdleTyped DEF Init, GrantsSpent, GrantsOf
  <2> QED BY <2>1, <2>2 DEF Init, Connected!Init
<1>2. IInv /\ GrantsSpent /\ [Next]_vars => GrantsSpent' /\ [Connected!Next]_(Connected!vars)
  BY NextLinks DEF Linked
<1> QED BY <1>1, <1>2, Inductive, PTL DEF Spec, ImplementsLinks, Connected!Spec
=============================================================================
