--------------------------- MODULE PromptsProofs ---------------------------
(***************************************************************************)
(* Proofs about Prompts, for any number of features, versions and calls.   *)
(* IInv is inductive: what a call read of a row that cannot change any     *)
(* more is still true (CallInv), and a version that is down for a swap is  *)
(* archived, was not retired by an operator, and is in the hands of one    *)
(* call only (CallInv, OneSwap), so that call finds it as it left it.      *)
(***************************************************************************)
EXTENDS Prompts, TLAPS

CallState ==
  [step : {"idle", "insert", "current", "demote", "promote", "restore", "archive"},
   feature : Features \cup {None}, number : Nat, body : Bodies \cup {None},
   version : Versions \cup {None}, current : Versions \cup {None}]

\* Every version is a row of the table, and every action holds what a step may need.
TypeOK ==
  /\ prompt \in [Versions -> Row \cup {None}]
  /\ call \in [Calls -> CallState]
  /\ retired \subseteq Stored
  /\ bare \subseteq Features

\* A feature has at most one live version (prompt_versions_one_active_per_feature).
OneLive == \A f \in Features : \A v, w \in Live(f) : v = w

\* A number to insert follows one that is there.
Follows(f, n) == n = 1 \/ \E w \in Of(f) : prompt[w].number + 1 = n

Activating == {"current", "demote", "promote", "restore"}

CallInv(c) ==
  /\ call[c].step = "insert" =>
       /\ call[c].feature \in Features
       /\ call[c].body \in Bodies
       /\ Follows(call[c].feature, call[c].number)
  /\ call[c].step \in Activating =>
       /\ call[c].version \in Stored
       /\ call[c].feature = prompt[call[c].version].feature
       /\ call[c].current # None =>
            /\ call[c].current \in Of(call[c].feature)
            /\ prompt[call[c].current].status # "draft"
  /\ call[c].step = "current" => call[c].current = None
  /\ call[c].step \in {"demote", "restore"} => call[c].current # None
  /\ call[c].step = "archive" => call[c].version \in Stored
  /\ MidSwap(c) => /\ prompt[call[c].current].status = "archived"
                   /\ call[c].current \notin retired

OneSwap ==
  \A c, d \in Calls : MidSwap(c) /\ MidSwap(d) /\ call[c].current = call[d].current => c = d

IInv ==
  /\ TypeOK
  /\ \A c \in Calls : CallInv(c)
  /\ OneSwap
  /\ OneLive
  /\ NeverLeftWithout
  /\ RetiredStays
  /\ NumbersRunOn

-----------------------------------------------------------------------------
LEMMA IdleTyped == Idle \in CallState /\ Idle.step = "idle"
  BY DEF Idle, CallState

LEMMA InitInv == Init => IInv
<1> SUFFICES ASSUME Init PROVE IInv
  OBVIOUS
<1>1. Stored = {} /\ \A f \in Features : Of(f) = {} /\ Live(f) = {}
  BY DEF Init, Stored, Of, Live
<1>2. TypeOK
  BY <1>1, IdleTyped DEF Init, TypeOK
<1>3. OneSwap /\ \A c \in Calls : CallInv(c)
  BY IdleTyped DEF Init, OneSwap, CallInv, MidSwap, Activating
<1>4. OneLive /\ NeverLeftWithout /\ RetiredStays /\ NumbersRunOn
  BY <1>1 DEF Init, OneLive, NeverLeftWithout, RetiredStays, NumbersRunOn
<1> QED BY <1>2, <1>3, <1>4 DEF IInv

\* What a row is about never changes and no row goes away.
Grows ==
  /\ Stored \subseteq Stored'
  /\ \A v \in Stored : /\ prompt'[v].feature = prompt[v].feature
                       /\ prompt'[v].number = prompt[v].number

\* Which versions are drafts, live and archived has not changed.
SameStatus == \A v \in Stored : prompt'[v].status = prompt[v].status

LEMMA FollowsStays ==
  ASSUME Grows, NEW f, NEW n, Follows(f, n)
  PROVE  Follows(f, n)'
  BY DEF Grows, Follows, Of, Stored

\* A call moves on and the table stays as it is.
LEMMA CallStep ==
  ASSUME IInv, NEW c \in Calls, NEW held \in CallState, Goto(c, held), CallInv(c)',
         UNCHANGED <<prompt, retired>>,
         MidSwap(c)' => MidSwap(c) /\ held.current = call[c].current,
         MidSwap(c) /\ ~MidSwap(c)' =>
           call[c].feature \in bare' \/ Live(call[c].feature) # {},
         MidSwap(c)' => held.feature = call[c].feature,
         bare \subseteq bare', bare' \subseteq Features
  PROVE  IInv'
<1>1. call'[c] = held /\ \A d \in Calls \ {c} : call'[d] = call[d]
  BY DEF IInv, TypeOK, Goto
<1>2. Stored' = Stored /\ \A f \in Features : Of(f)' = Of(f) /\ Live(f)' = Live(f)
  BY DEF Stored, Of, Live
<1>3. TypeOK'
  BY <1>2 DEF IInv, TypeOK, Goto
<1>4. ASSUME NEW d \in Calls PROVE CallInv(d)'
  <2>1. CASE d = c
    BY <2>1
  <2>2. CASE d # c
    BY <2>2, <1>1 DEF IInv, CallInv, MidSwap, Follows, Of, Stored
  <2> QED BY <2>1, <2>2
<1>5. OneSwap'
  BY <1>1 DEF IInv, OneSwap, MidSwap
<1>6. OneLive' /\ RetiredStays' /\ NumbersRunOn'
  BY <1>2 DEF IInv, OneLive, RetiredStays, NumbersRunOn
<1>7. NeverLeftWithout'
  <2> SUFFICES ASSUME NEW f \in Features \ bare', Live(f) = {}
               PROVE  \E d \in Calls : MidSwap(d)' /\ call'[d].feature = f
    BY <1>2 DEF NeverLeftWithout
  <2> PICK d \in Calls : MidSwap(d) /\ call[d].feature = f
    BY DEF IInv, NeverLeftWithout
  <2>1. CASE d = c
    BY <2>1, <1>1
  <2>2. CASE d # c
    BY <2>2, <1>1 DEF MidSwap
  <2> QED BY <2>1, <2>2
<1> QED BY <1>3, <1>4, <1>5, <1>6, <1>7 DEF IInv

\* A call ends that was not in the middle of a swap, and the table stays as it is.
LEMMA IdleStep ==
  ASSUME IInv, NEW c \in Calls, Goto(c, Idle), UNCHANGED <<prompt, retired, bare>>,
         MidSwap(c) => Live(call[c].feature) # {}
  PROVE  IInv'
<1>1. call'[c] = Idle
  BY DEF IInv, TypeOK, Goto
<1>2. CallInv(c)' /\ ~MidSwap(c)'
  BY <1>1, IdleTyped DEF CallInv, MidSwap, Activating
<1> QED BY <1>2, IdleTyped, CallStep DEF IInv, TypeOK

-----------------------------------------------------------------------------
(* One lemma per action *)

LEMMA CreateBeginInv ==
  ASSUME IInv, NEW c \in Calls, NEW f \in Features, NEW b \in Bodies, CreateBegin(c, f, b)
  PROVE  IInv'
<1> PICK n \in NextVersionFor(f) :
      Goto(c, [Idle EXCEPT !.step = "insert", !.feature = f, !.number = n, !.body = b])
  BY DEF CreateBegin
<1> DEFINE held == [Idle EXCEPT !.step = "insert", !.feature = f, !.number = n, !.body = b]
<1>1. n \in Nat /\ Follows(f, n)
  BY DEF IInv, TypeOK, NextVersionFor, Follows, Of, Stored, Row
<1>2. held \in CallState /\ held.step = "insert" /\ held.feature = f /\ held.number = n
      /\ held.body = b
  BY <1>1 DEF Idle, CallState
<1> HIDE DEF held
<1>3. call'[c] = held /\ UNCHANGED <<prompt, retired, bare>>
  BY DEF IInv, TypeOK, Goto, CreateBegin, held
<1>4. CallInv(c)' /\ ~MidSwap(c)'
  BY <1>1, <1>2, <1>3 DEF CallInv, MidSwap, Activating, Follows, Of, Stored
<1>5. ~MidSwap(c)
  BY DEF CreateBegin, At, MidSwap
<1>6. Goto(c, held)
  BY DEF held
<1> QED BY <1>2, <1>3, <1>4, <1>5, <1>6, CallStep DEF IInv, TypeOK

LEMMA InsertRefusedInv ==
  ASSUME IInv, NEW c \in Calls, InsertRefused(c)
  PROVE  IInv'
<1>1. ~MidSwap(c)
  BY DEF InsertRefused, At, MidSwap
<1> QED BY <1>1, IdleStep DEF InsertRefused

LEMMA ActivateBeginInv ==
  ASSUME IInv, NEW c \in Calls, NEW v \in Stored, ActivateBegin(c, v)
  PROVE  IInv'
<1> DEFINE held ==
      [Idle EXCEPT !.step = "current", !.feature = prompt[v].feature, !.version = v]
<1>1. prompt[v] \in Row /\ v \in Versions
  BY DEF IInv, TypeOK, Stored
<1>2. held \in CallState /\ held.step = "current" /\ held.feature = prompt[v].feature
      /\ held.version = v /\ held.current = None
  BY <1>1 DEF Idle, CallState, Row
<1>3. Goto(c, held) /\ UNCHANGED <<prompt, retired, bare>>
  BY DEF ActivateBegin
<1> HIDE DEF held
<1>4. call'[c] = held
  BY <1>3 DEF IInv, TypeOK, Goto
<1>5. CallInv(c)' /\ ~MidSwap(c)'
  BY <1>2, <1>3, <1>4 DEF CallInv, MidSwap, Activating, Stored
<1>6. ~MidSwap(c)
  BY DEF ActivateBegin, At, MidSwap
<1> QED BY <1>2, <1>3, <1>5, <1>6, CallStep DEF IInv, TypeOK

LEMMA LoadActiveInv ==
  ASSUME IInv, NEW c \in Calls, LoadActive(c)
  PROVE  IInv'
<1>0. call[c] \in CallState /\ call[c].step = "current" /\ call[c].current = None
      /\ CallInv(c) /\ UNCHANGED <<prompt, retired, bare>> /\ ~MidSwap(c)
  BY DEF LoadActive, At, IInv, TypeOK, CallInv, MidSwap
<1>1. CASE \E v \in Live(call[c].feature) :
             Goto(c, [call[c] EXCEPT !.step = "demote", !.current = v])
  <2> PICK v \in Live(call[c].feature) :
        Goto(c, [call[c] EXCEPT !.step = "demote", !.current = v])
    BY <1>1
  <2> DEFINE held == [call[c] EXCEPT !.step = "demote", !.current = v]
  <2>1. v \in Versions /\ v \in Of(call[c].feature) /\ prompt[v].status = "active"
    BY DEF Live, Of, Stored
  <2>2. held \in CallState /\ held.step = "demote" /\ held.current = v
        /\ held.feature = call[c].feature /\ held.version = call[c].version
    BY <1>0, <2>1 DEF CallState
  <2>3. Goto(c, held)
    OBVIOUS
  <2> HIDE DEF held
  <2>4. call'[c] = held
    BY <2>3 DEF IInv, TypeOK, Goto
  <2>5. CallInv(c)' /\ ~MidSwap(c)'
    BY <1>0, <2>1, <2>2, <2>4, NoneAssumption DEF CallInv, MidSwap, Activating, Stored, Of
  <2> QED BY <1>0, <2>2, <2>3, <2>5, CallStep DEF IInv, TypeOK
<1>2. CASE Step(c, "promote")
  <2> DEFINE held == [call[c] EXCEPT !.step = "promote"]
  <2>2. held \in CallState /\ held.step = "promote" /\ held.current = None
        /\ held.feature = call[c].feature /\ held.version = call[c].version
    BY <1>0 DEF CallState
  <2>3. Goto(c, held)
    BY <1>2 DEF Step, Goto
  <2> HIDE DEF held
  <2>4. call'[c] = held
    BY <2>3 DEF IInv, TypeOK, Goto
  <2>5. CallInv(c)' /\ ~MidSwap(c)'
    BY <1>0, <2>2, <2>4 DEF CallInv, MidSwap, Activating, Stored, Of
  <2> QED BY <1>0, <2>2, <2>3, <2>5, CallStep DEF IInv, TypeOK
<1> QED BY <1>1, <1>2 DEF LoadActive

LEMMA PromoteMissedInv ==
  ASSUME IInv, NEW c \in Calls, PromoteMissed(c)
  PROVE  IInv'
<1>0. call[c] \in CallState /\ call[c].step = "promote" /\ CallInv(c)
      /\ UNCHANGED <<prompt, retired, bare>>
  BY DEF PromoteMissed, At, IInv, TypeOK
<1>1. CASE call[c].current # None /\ Step(c, "restore")
  <2> DEFINE held == [call[c] EXCEPT !.step = "restore"]
  <2>1. held \in CallState /\ held.step = "restore" /\ held.current = call[c].current
        /\ held.feature = call[c].feature /\ held.version = call[c].version
    BY <1>0 DEF CallState
  <2>2. Goto(c, held)
    BY <1>1 DEF Step, Goto
  <2> HIDE DEF held
  <2>3. call'[c] = held
    BY <2>2 DEF IInv, TypeOK, Goto
  <2>4. MidSwap(c) /\ MidSwap(c)'
    BY <1>0, <1>1, <2>1, <2>3 DEF MidSwap
  <2>5. CallInv(c)'
    BY <1>0, <1>1, <2>1, <2>3, <2>4 DEF CallInv, Activating, Stored, Of
  <2> QED BY <1>0, <2>1, <2>2, <2>4, <2>5, CallStep DEF IInv, TypeOK
<1>2. CASE call[c].current = None /\ Goto(c, Idle)
  BY <1>0, <1>2, IdleStep DEF MidSwap
<1> QED BY <1>1, <1>2 DEF PromoteMissed

LEMMA ArchiveBeginInv ==
  ASSUME IInv, NEW c \in Calls, NEW v \in Stored, ArchiveBegin(c, v)
  PROVE  IInv'
<1> DEFINE held == [Idle EXCEPT !.step = "archive", !.version = v]
<1>1. held \in CallState /\ held.step = "archive" /\ held.version = v
  BY DEF Idle, CallState, Stored
<1>2. Goto(c, held) /\ UNCHANGED <<prompt, retired, bare>>
  BY DEF ArchiveBegin
<1> HIDE DEF held
<1>3. call'[c] = held
  BY <1>2 DEF IInv, TypeOK, Goto
<1>4. CallInv(c)' /\ ~MidSwap(c)'
  BY <1>1, <1>2, <1>3 DEF CallInv, MidSwap, Activating, Stored
<1>5. ~MidSwap(c)
  BY DEF ArchiveBegin, At, MidSwap
<1> QED BY <1>1, <1>2, <1>4, <1>5, CallStep DEF IInv, TypeOK

LEMMA GiveUpInv ==
  ASSUME IInv, NEW c \in Calls, GiveUp(c)
  PROVE  IInv'
<1>1. call'[c] = Idle /\ UNCHANGED <<prompt, retired>>
  BY DEF IInv, TypeOK, GiveUp, Goto
<1>2. CallInv(c)' /\ ~MidSwap(c)'
  BY <1>1, IdleTyped DEF CallInv, MidSwap, Activating
<1>3. MidSwap(c) => call[c].feature \in Features /\ bare' = bare \cup {call[c].feature}
  BY DEF GiveUp, IInv, TypeOK, CallInv, MidSwap, Activating, Stored, Row
<1>4. ~MidSwap(c) => bare' = bare
  BY DEF GiveUp
<1>5. Goto(c, Idle)
  BY DEF GiveUp
<1> QED BY <1>1, <1>2, <1>3, <1>4, <1>5, IdleTyped, CallStep DEF IInv, TypeOK

\* A new draft, or other text in an old one.
LEMMA DraftStep ==
  ASSUME IInv, NEW v \in Versions, NEW row \in Row, row.status = "draft",
         prompt' = [prompt EXCEPT ![v] = row],
         v \in Stored => /\ prompt[v].status = "draft"
                         /\ prompt[v].feature = row.feature
                         /\ prompt[v].number = row.number,
         v \notin Stored => /\ ~NumberTaken(row.feature, row.number)
                            /\ Follows(row.feature, row.number),
         UNCHANGED <<retired, bare>>,
         \/ UNCHANGED call
         \/ \E c \in Calls : Goto(c, Idle) /\ ~MidSwap(c)
  PROVE  IInv'
<1>1. prompt'[v] = row /\ \A w \in Versions \ {v} : prompt'[w] = prompt[w]
  BY DEF IInv, TypeOK
<1>2. Stored' = Stored \cup {v} /\ v \in Stored'
  BY <1>1, NoneAssumption DEF Stored
<1>3. Grows
  BY <1>1, <1>2 DEF Grows, Stored
<1>4. \A f \in Features : Live(f)' = Live(f) /\ Of(f) \subseteq Of(f)'
      /\ Of(f)' \subseteq Of(f) \cup {v}
  BY <1>1, <1>2, <1>3 DEF Live, Of, Grows, Stored
<1>5. \A c \in Calls : call'[c] = call[c] \/ (call'[c] = Idle /\ ~MidSwap(c))
  <2>1. CASE UNCHANGED call
    BY <2>1
  <2>2. ASSUME NEW d \in Calls, Goto(d, Idle), ~MidSwap(d)
        PROVE  \A c \in Calls : call'[c] = call[c] \/ (call'[c] = Idle /\ ~MidSwap(c))
    BY <2>2 DEF Goto, IInv, TypeOK
  <2> QED BY <2>1, <2>2
<1>6. \A c \in Calls : MidSwap(c)' <=> MidSwap(c)
  BY <1>5, IdleTyped DEF MidSwap
<1>7. TypeOK'
  <2>1. prompt' \in [Versions -> Row \cup {None}]
    BY DEF IInv, TypeOK
  <2>2. call' \in [Calls -> CallState]
    BY IdleTyped DEF IInv, TypeOK, Goto
  <2> QED BY <2>1, <2>2, <1>2 DEF IInv, TypeOK
<1>8. ASSUME NEW c \in Calls PROVE CallInv(c)'
  <2>1. CASE call'[c] = Idle
    BY <2>1, IdleTyped DEF CallInv, MidSwap, Activating
  <2>2. CASE call'[c] = call[c]
    <3>1. call[c].step = "insert" => Follows(call[c].feature, call[c].number)'
      BY <2>2, <1>3 DEF IInv, CallInv, Follows, Of, Grows, Stored
    <3>2. call[c].step \in Activating /\ call[c].current # None =>
            /\ call[c].current \in Stored /\ call[c].current # v
            /\ prompt'[call[c].current] = prompt[call[c].current]
      BY <1>1 DEF IInv, CallInv, Of, Stored
    <3>3. CallInv(c)
      BY DEF IInv
    <3>4. \A w \in Stored : w \in Stored' /\ prompt'[w].feature = prompt[w].feature
      BY <1>3 DEF Grows
    <3>5. MidSwap(c) => call[c].step \in Activating
      BY DEF MidSwap, Activating
    <3> QED BY <2>2, <1>6, <3>1, <3>2, <3>3, <3>4, <3>5 DEF CallInv, MidSwap, Of
  <2> QED BY <1>5, <2>1, <2>2
<1>9. OneSwap'
  BY <1>5, <1>6 DEF IInv, OneSwap, MidSwap
<1>10. OneLive'
  BY <1>4 DEF IInv, OneLive
<1>11. NeverLeftWithout'
  BY <1>4, <1>5, <1>6 DEF IInv, NeverLeftWithout, MidSwap
<1>12. RetiredStays'
  BY <1>1 DEF IInv, TypeOK, RetiredStays, Stored
<1>13. ASSUME NEW f \in Features, NEW x \in Of(f)', NEW y \in Of(f)',
              prompt'[x].number = prompt'[y].number
       PROVE  x = y
  <2>1. \A w \in Of(f) : w \in Stored /\ prompt'[w].number = prompt[w].number
    BY <1>3 DEF Grows, Of
  <2>2. CASE v \in Stored
    <3>1. x \in Of(f) /\ y \in Of(f)
      BY <2>2, <1>2, <1>3 DEF Of, Grows
    <3> QED BY <3>1, <2>1, <1>13 DEF IInv, NumbersRunOn
  <2>3. CASE v \notin Stored
    <3>1. v \in Of(f)' => \A w \in Of(f) : prompt[w].number # row.number
      BY <2>3, <1>1 DEF NumberTaken, Of
    <3>2. (x = v \/ x \in Of(f)) /\ (y = v \/ y \in Of(f))
      BY <1>4
    <3> QED BY <3>1, <3>2, <2>1, <1>1, <1>13 DEF IInv, NumbersRunOn
  <2> QED BY <2>2, <2>3
<1>14. ASSUME NEW f \in Features, NEW x \in Of(f)'
       PROVE  Follows(f, prompt[x].number)'
  <2>1. CASE x \in Of(f)
    <3>1. Follows(f, prompt[x].number)
      BY <2>1 DEF IInv, NumbersRunOn, Follows
    <3>2. prompt'[x].number = prompt[x].number
      BY <2>1, <1>3 DEF Grows, Of
    <3> QED BY <3>1, <3>2, <1>3, FollowsStays
  <2>2. CASE x \notin Of(f)
    <3>1. x = v /\ v \notin Stored /\ row.feature = f
      BY <2>2, <1>1, <1>2, <1>3, <1>4 DEF Of, Grows
    <3>2. Follows(f, row.number)
      BY <3>1
    <3>3. Follows(f, row.number)'
      BY <3>2, <1>3, FollowsStays
    <3> QED BY <3>1, <3>3, <1>1
  <2> QED BY <2>1, <2>2
<1>15. NumbersRunOn'
  BY <1>13, <1>14 DEF NumbersRunOn, Follows
<1> QED BY <1>7, <1>8, <1>9, <1>10, <1>11, <1>12, <1>15 DEF IInv

LEMMA InsertInv ==
  ASSUME IInv, NEW c \in Calls, Insert(c)
  PROVE  IInv'
<1> PICK v \in Versions \ Stored : prompt' = [prompt EXCEPT ![v] = Draft(c)]
  BY DEF Insert
<1>1. call[c].step = "insert" /\ ~MidSwap(c) /\ CallInv(c) /\ call[c].number \in Nat
  BY DEF Insert, At, MidSwap, IInv, TypeOK, CallState
<1>2. Draft(c) \in Row /\ Draft(c).status = "draft" /\ Draft(c).feature = call[c].feature
      /\ Draft(c).number = call[c].number
  BY <1>1 DEF Draft, Row, Status, CallInv
<1>3. ~NumberTaken(Draft(c).feature, Draft(c).number) /\ Follows(Draft(c).feature, Draft(c).number)
  BY <1>1, <1>2 DEF Insert, CallInv
<1>4. UNCHANGED <<retired, bare>> /\ Goto(c, Idle)
  BY DEF Insert
<1> HIDE DEF Draft
<1> QED BY <1>1, <1>2, <1>3, <1>4, DraftStep

LEMMA EditInv ==
  ASSUME IInv, NEW v \in Stored, NEW b \in Bodies, Edit(v, b)
  PROVE  IInv'
<1> DEFINE row == [prompt[v] EXCEPT !.body = b]
<1>1. prompt[v] \in Row /\ v \in Versions /\ prompt[v].status = "draft"
  BY DEF IInv, TypeOK, Stored, Edit
<1>2. row \in Row /\ row.status = "draft" /\ row.feature = prompt[v].feature
      /\ row.number = prompt[v].number
  BY <1>1 DEF Row
<1>3. prompt' = [prompt EXCEPT ![v] = row]
  BY DEF Edit
<1>4. UNCHANGED <<call, retired, bare>>
  BY DEF Edit
<1> HIDE DEF row
<1> QED BY <1>1, <1>2, <1>3, <1>4, DraftStep

\* A version that no other call has down for a swap changes its status.
LEMMA StatusStep ==
  ASSUME IInv, NEW c \in Calls, NEW v \in Stored, NEW s \in Status \ {"draft"}, SetStatus(v, s),
         NEW held \in CallState, Goto(c, held), CallInv(c)',
         \A d \in Calls \ {c} : MidSwap(d) => call[d].current # v,
         MidSwap(c)' => \A d \in Calls \ {c} : MidSwap(d) => call[d].current # held.current,
         retired' \in {retired, retired \cup {v}}, bare' \subseteq Features,
         v \in retired' => s = "archived",
         \A d \in Calls \ {c} : MidSwap(d) => call[d].current \notin retired',
         s = "active" => Live(prompt[v].feature) = {},
         NeverLeftWithout'
  PROVE  IInv'
<1>1. prompt[v] \in Row /\ v \in Versions
  BY DEF IInv, TypeOK, Stored
<1>2. /\ prompt'[v] = [prompt[v] EXCEPT !.status = s]
      /\ \A w \in Versions \ {v} : prompt'[w] = prompt[w]
  BY <1>1 DEF IInv, TypeOK, SetStatus
<1>3. prompt'[v] \in Row /\ prompt'[v].status = s /\ prompt'[v].number = prompt[v].number
      /\ prompt'[v].feature = prompt[v].feature
  BY <1>1, <1>2 DEF Row
<1>4. Stored' = Stored /\ Grows
  BY <1>1, <1>2, <1>3, NoneAssumption DEF Stored, Grows
<1>5. \A f \in Features : Of(f)' = Of(f)
  BY <1>4 DEF Of, Grows
<1>6. call'[c] = held /\ \A d \in Calls \ {c} : call'[d] = call[d]
  BY DEF IInv, TypeOK, Goto
<1>7. TypeOK'
  <2>1. prompt' \in [Versions -> Row \cup {None}]
    BY <1>3 DEF IInv, TypeOK, SetStatus
  <2>2. call' \in [Calls -> CallState]
    BY DEF IInv, TypeOK, Goto
  <2> QED BY <2>1, <2>2, <1>4 DEF IInv, TypeOK
<1>8. ASSUME NEW d \in Calls PROVE CallInv(d)'
  <2>1. CASE d = c
    BY <2>1
  <2>2. CASE d # c
    <3>1. CallInv(d) /\ call'[d] = call[d] /\ (MidSwap(d)' <=> MidSwap(d))
      BY <2>2, <1>6 DEF IInv, MidSwap
    <3>2. call[d].step = "insert" => Follows(call[d].feature, call[d].number)'
      BY <3>1, <1>4, <1>5 DEF CallInv, Follows, Of, Grows, Stored
    <3>3. \A w \in Stored : w \in Stored' /\ prompt'[w].feature = prompt[w].feature
                           /\ (prompt[w].status # "draft" => prompt'[w].status # "draft")
      BY <1>2, <1>3, <1>4 DEF Stored
    <3>4. MidSwap(d) =>
            /\ call[d].current \in Stored
            /\ prompt'[call[d].current].status = "archived"
            /\ call[d].current \notin retired'
      BY <2>2, <3>1, <1>2 DEF CallInv, MidSwap, Activating, Of, Stored
    <3> QED BY <3>1, <3>2, <3>3, <3>4 DEF CallInv, Of
  <2> QED BY <2>1, <2>2
<1>9. OneSwap'
  BY <1>6 DEF IInv, OneSwap, MidSwap
<1>10. OneLive'
  <2> SUFFICES ASSUME NEW f \in Features, NEW x \in Live(f)', NEW y \in Live(f)'
               PROVE  x = y
    BY DEF OneLive
  <2>1. (x = v \/ x \in Live(f)) /\ (y = v \/ y \in Live(f))
    BY <1>2, <1>4, <1>5 DEF Live, Of, Stored
  <2>2. x = v \/ y = v => s = "active" /\ prompt[v].feature = f
    BY <1>3 DEF Live, Of
  <2> QED BY <2>1, <2>2 DEF IInv, OneLive
<1>11. RetiredStays'
  <2> SUFFICES ASSUME NEW w \in retired' PROVE prompt'[w].status = "archived"
    BY DEF RetiredStays
  <2>1. CASE w = v
    BY <2>1, <1>3
  <2>2. CASE w # v
    BY <2>2, <1>2 DEF IInv, TypeOK, RetiredStays, Stored
  <2> QED BY <2>1, <2>2
<1>12. NumbersRunOn'
  BY <1>4, <1>5 DEF IInv, NumbersRunOn, Grows, Of
<1> QED BY <1>7, <1>8, <1>9, <1>10, <1>11, <1>12 DEF IInv

LEMMA DemoteInv ==
  ASSUME IInv, NEW c \in Calls, Demote(c)
  PROVE  IInv'
<1> DEFINE v == call[c].current
           f == call[c].feature
<1>1. call[c] \in CallState /\ call[c].step = "demote" /\ CallInv(c) /\ ~MidSwap(c)
      /\ UNCHANGED <<retired, bare>>
  BY DEF Demote, At, IInv, TypeOK, MidSwap
<1>2. v \in Of(f) /\ v \in Stored /\ v # None /\ prompt[v].feature = f /\ f \in Features
  BY <1>1 DEF CallInv, Activating, Of, Stored, IInv, TypeOK, Row
<1>3. CASE prompt[v].status = "active" /\ SetStatus(v, "archived") /\ Step(c, "promote")
  <2> DEFINE held == [call[c] EXCEPT !.step = "promote"]
  <2>1. held \in CallState /\ held.step = "promote" /\ held.current = v
        /\ held.feature = f /\ held.version = call[c].version
    BY <1>1 DEF CallState
  <2>2. Goto(c, held)
    BY <1>3 DEF Step, Goto
  <2> HIDE DEF held
  <2>3. call'[c] = held /\ \A d \in Calls \ {c} : call'[d] = call[d]
    BY <2>2 DEF IInv, TypeOK, Goto
  <2>4. prompt'[v].status = "archived"
        /\ (\A w \in Versions \ {v} : prompt'[w] = prompt[w])
        /\ (\A w \in Stored : w \in Stored' /\ prompt'[w].feature = prompt[w].feature)
    <3>1. prompt[v] \in Row /\ v \in Versions
      BY <1>2 DEF IInv, TypeOK, Stored
    <3>2. prompt'[v] = [prompt[v] EXCEPT !.status = "archived"]
          /\ \A w \in Versions \ {v} : prompt'[w] = prompt[w]
      BY <1>3, <3>1 DEF IInv, TypeOK, SetStatus
    <3>3. prompt'[v] \in Row /\ prompt'[v].status = "archived"
          /\ prompt'[v].feature = prompt[v].feature
      BY <3>1, <3>2 DEF Row, Status
    <3> QED BY <3>2, <3>3, NoneAssumption DEF Stored
  <2>5. MidSwap(c)'
    BY <1>2, <2>1, <2>3 DEF MidSwap
  <2>6. v \notin retired
    BY <1>3 DEF IInv, RetiredStays
  <2>7. CallInv(c)'
    BY <1>1, <1>2, <2>1, <2>3, <2>4, <2>6 DEF CallInv, Activating, Of
  <2>8. \A d \in Calls : MidSwap(d) => call[d].current # v /\ call[d].current \notin retired
    BY <1>3 DEF IInv, CallInv
  <2>9. NeverLeftWithout'
    <3> SUFFICES ASSUME NEW g \in Features \ bare, Live(g)' = {}
                 PROVE  \E d \in Calls : MidSwap(d)' /\ call'[d].feature = g
      BY <1>1 DEF NeverLeftWithout
    <3>1. CASE g = f
      BY <3>1, <2>1, <2>3, <2>5
    <3>2. CASE g # f
      <4>1. Live(g) = {}
        BY <3>2, <1>2, <2>4 DEF Live, Of, Stored
      <4>2. PICK d \in Calls : MidSwap(d) /\ call[d].feature = g
        BY <4>1 DEF IInv, NeverLeftWithout
      <4> QED BY <4>2, <1>1, <2>3 DEF MidSwap
    <3> QED BY <3>1, <3>2
  <2>10. "archived" \in Status \ {"draft"}
    BY DEF Status
  <2> QED BY <1>1, <1>2, <1>3, <2>1, <2>2, <2>6, <2>7, <2>8, <2>9, <2>10, StatusStep
          DEF IInv, TypeOK
<1>4. CASE Goto(c, Idle) /\ UNCHANGED prompt
  BY <1>1, <1>4, IdleStep
<1> QED BY <1>3, <1>4 DEF Demote

\* A version goes live, or the index refuses it, and the call ends.
LEMMA MakeActiveInv ==
  ASSUME IInv, NEW c \in Calls, NEW v \in Stored, MakeActive(v), Goto(c, Idle), UNCHANGED retired,
         MidSwap(c) => call[c].feature = prompt[v].feature,
         v \notin retired,
         \A d \in Calls \ {c} : MidSwap(d) => call[d].current # v
  PROVE  IInv'
<1> DEFINE f == prompt[v].feature
<1>0. prompt[v] \in Row /\ f \in Features /\ v \in Versions
  BY DEF IInv, TypeOK, Stored, Row
<1>1. CASE Live(f) = {} /\ SetStatus(v, "active") /\ bare' = bare \ {f}
  <2>1. call'[c] = Idle /\ \A d \in Calls \ {c} : call'[d] = call[d]
    BY DEF IInv, TypeOK, Goto
  <2>2. CallInv(c)' /\ ~MidSwap(c)'
    BY <2>1, IdleTyped DEF CallInv, MidSwap, Activating
  <2>3. \A d \in Calls : MidSwap(d) => call[d].current \notin retired
    BY DEF IInv, CallInv
  <2>4. /\ prompt'[v] = [prompt[v] EXCEPT !.status = "active"]
        /\ \A w \in Versions \ {v} : prompt'[w] = prompt[w]
    BY <1>0, <1>1 DEF IInv, TypeOK, SetStatus
  <2>5. prompt'[v] \in Row /\ prompt'[v].status = "active" /\ prompt'[v].feature = f
    BY <1>0, <2>4 DEF Row, Status
  <2>6. \A g \in Features : g = f => v \in Live(g)'
    BY <1>0, <2>5, NoneAssumption DEF Live, Of, Stored
  <2>7. NeverLeftWithout'
    <3> SUFFICES ASSUME NEW g \in Features \ bare', Live(g)' = {}
                 PROVE  \E d \in Calls : MidSwap(d)' /\ call'[d].feature = g
      BY DEF NeverLeftWithout
    <3>1. g # f /\ g \notin bare
      BY <1>1, <2>6
    <3>2. Live(g) = {}
      BY <3>1, <2>4, <2>5 DEF Live, Of, Stored
    <3>3. PICK d \in Calls : MidSwap(d) /\ call[d].feature = g
      BY <3>1, <3>2 DEF IInv, NeverLeftWithout
    <3>4. d # c
      BY <3>1, <3>3
    <3> QED BY <3>3, <3>4, <2>1 DEF MidSwap
  <2>8. bare' \subseteq Features /\ "active" \in Status \ {"draft"}
    BY <1>1 DEF IInv, TypeOK, Status
  <2> QED BY <1>1, <2>2, <2>3, <2>7, <2>8, IdleTyped, StatusStep
<1>2. CASE Live(f) # {} /\ UNCHANGED <<prompt, bare>>
  BY <1>2, IdleStep
<1> QED BY <1>1, <1>2 DEF MakeActive

LEMMA PromoteInv ==
  ASSUME IInv, NEW c \in Calls, Promote(c)
  PROVE  IInv'
<1> DEFINE v == call[c].version
<1>1. call[c].step = "promote" /\ prompt[v].status = "draft" /\ MakeActive(v) /\ Goto(c, Idle)
      /\ UNCHANGED retired /\ CallInv(c)
  BY DEF Promote, At, IInv
<1>2. v \in Stored /\ call[c].feature = prompt[v].feature
  BY <1>1 DEF CallInv, Activating
<1>3. v \notin retired
  BY <1>1 DEF IInv, RetiredStays
<1>4. \A d \in Calls : MidSwap(d) => call[d].current # v
  BY <1>1 DEF IInv, CallInv
<1> HIDE DEF v
<1> QED BY <1>1, <1>2, <1>3, <1>4, MakeActiveInv

\* Nobody has touched the version that is to be put back.
LEMMA RestoreMatches ==
  ASSUME IInv, NEW c \in Calls, At(c, "restore")
  PROVE  /\ MidSwap(c)
         /\ call[c].current \in Of(call[c].feature)
         /\ prompt[call[c].current].status = "archived"
         /\ call[c].current \notin retired
<1>1. CallInv(c) /\ MidSwap(c)
  BY DEF IInv, CallInv, At, MidSwap
<1> QED BY <1>1 DEF CallInv, At, Activating, MidSwap

LEMMA RestoreInv ==
  ASSUME IInv, NEW c \in Calls, Restore(c)
  PROVE  IInv'
<1> DEFINE v == call[c].current
<1>1. At(c, "restore") /\ Goto(c, Idle) /\ UNCHANGED retired
  BY DEF Restore
<1>2. MidSwap(c) /\ v \in Stored /\ call[c].feature = prompt[v].feature
      /\ prompt[v].status = "archived" /\ v \notin retired
  BY <1>1, RestoreMatches DEF Of
<1>3. MakeActive(v)
  BY <1>2 DEF Restore
<1>4. \A d \in Calls \ {c} : MidSwap(d) => call[d].current # v
  BY <1>2 DEF IInv, OneSwap
<1> HIDE DEF v
<1> QED BY <1>1, <1>2, <1>3, <1>4, MakeActiveInv

LEMMA ArchiveInv ==
  ASSUME IInv, NEW c \in Calls, Archive(c)
  PROVE  IInv'
<1> DEFINE v == call[c].version
           f == prompt[v].feature
<1>1. call[c].step = "archive" /\ Goto(c, Idle) /\ CallInv(c) /\ ~MidSwap(c)
  BY DEF Archive, At, IInv, MidSwap
<1>2. v \in Stored /\ v \in Versions /\ prompt[v] \in Row /\ f \in Features
  BY <1>1 DEF CallInv, IInv, TypeOK, Stored, Row
<1>3. CASE /\ prompt[v].status # "archived"
           /\ SetStatus(v, "archived")
           /\ retired' = retired \cup {v}
           /\ bare' = IF prompt[v].status = "active" THEN bare \cup {f} ELSE bare
  <2>1. call'[c] = Idle /\ \A d \in Calls \ {c} : call'[d] = call[d]
    BY <1>1 DEF IInv, TypeOK, Goto
  <2>2. CallInv(c)' /\ ~MidSwap(c)'
    BY <2>1, IdleTyped DEF CallInv, MidSwap, Activating
  <2>3. \A d \in Calls : MidSwap(d) => call[d].current # v /\ call[d].current \notin retired'
    BY <1>3 DEF IInv, CallInv
  <2>4. /\ \A w \in Versions \ {v} : prompt'[w] = prompt[w]
        /\ \A d \in Calls : MidSwap(d) => MidSwap(d)' /\ call'[d] = call[d]
    BY <1>1, <1>2, <1>3, <2>1 DEF IInv, TypeOK, SetStatus, MidSwap
  <2>5. NeverLeftWithout'
    <3> SUFFICES ASSUME NEW g \in Features \ bare', Live(g)' = {}
                 PROVE  \E d \in Calls : MidSwap(d)' /\ call'[d].feature = g
      BY DEF NeverLeftWithout
    <3>1. Live(g) = {} /\ g \notin bare
      BY <1>2, <1>3, <2>4 DEF Live, Of, Stored
    <3>2. PICK d \in Calls : MidSwap(d) /\ call[d].feature = g
      BY <3>1 DEF IInv, NeverLeftWithout
    <3> QED BY <3>2, <2>4
  <2>6. bare' \subseteq Features /\ "archived" \in Status \ {"draft"}
    BY <1>2, <1>3 DEF IInv, TypeOK, Status
  <2> HIDE DEF v, f
  <2> QED BY <1>1, <1>2, <1>3, <2>2, <2>3, <2>5, <2>6, IdleTyped, StatusStep
<1>4. CASE UNCHANGED <<prompt, retired, bare>>
  BY <1>1, <1>4, IdleStep
<1> QED BY <1>3, <1>4 DEF Archive

-----------------------------------------------------------------------------
LEMMA NextInv == IInv /\ [Next]_vars => IInv'
<1> SUFFICES ASSUME IInv, [Next]_vars PROVE IInv'
  OBVIOUS
<1>1. ASSUME NEW c \in Calls, NEW f \in Features, NEW b \in Bodies, CreateBegin(c, f, b)
      PROVE  IInv'
  BY <1>1, CreateBeginInv
<1>2. ASSUME NEW c \in Calls, NEW v \in Stored, ActivateBegin(c, v) \/ ArchiveBegin(c, v)
      PROVE  IInv'
  BY <1>2, ActivateBeginInv, ArchiveBeginInv
<1>3. ASSUME NEW c \in Calls, Insert(c) \/ InsertRefused(c)
      PROVE  IInv'
  BY <1>3, InsertInv, InsertRefusedInv
<1>4. ASSUME NEW c \in Calls,
             LoadActive(c) \/ Demote(c) \/ Promote(c) \/ PromoteMissed(c) \/ Restore(c)
      PROVE  IInv'
  BY <1>4, LoadActiveInv, DemoteInv, PromoteInv, PromoteMissedInv, RestoreInv
<1>5. ASSUME NEW c \in Calls, Archive(c) \/ GiveUp(c)
      PROVE  IInv'
  BY <1>5, ArchiveInv, GiveUpInv
<1>6. ASSUME NEW v \in Stored, NEW b \in Bodies, Edit(v, b)
      PROVE  IInv'
  BY <1>6, EditInv
<1>7. CASE UNCHANGED vars
  BY <1>7 DEF vars, IInv, TypeOK, CallInv, OneSwap, OneLive, NeverLeftWithout, RetiredStays,
              NumbersRunOn, MidSwap, Follows, Live, Of, Stored
<1> QED BY <1>1, <1>2, <1>3, <1>4, <1>5, <1>6, <1>7 DEF Next

\* IInv holds in every reachable state.
THEOREM Inductive == Spec => []IInv
  BY InitInv, NextInv, PTL DEF Spec

\* The table, the calls and the accounts kept of them keep their types, for any
\* number of features, versions, texts and server actions.
THEOREM TypeCorrect == Spec => []TypeOK
<1>1. IInv => TypeOK
  BY DEF IInv
<1> QED BY <1>1, Inductive, PTL

\* However many activations race, a feature never has two live versions.
THEOREM OneLiveAlways == Spec => []OneLive
<1>1. IInv => OneLive
  BY DEF IInv
<1> QED BY <1>1, Inductive, PTL

\* A race between activations, edits and archives never costs a feature its
\* prompt: only an operator's decision or a fault in mid-swap does.
THEOREM NeverLeftWithoutAlways == Spec => []NeverLeftWithout
<1>1. IInv => NeverLeftWithout
  BY DEF IInv
<1> QED BY <1>1, Inductive, PTL

\* No activation that lost its race brings back a version an operator archived.
THEOREM RetiredStaysAlways == Spec => []RetiredStays
<1>1. IInv => RetiredStays
  BY DEF IInv
<1> QED BY <1>1, Inductive, PTL

\* The version numbers of a feature are a sequence without gap or repeat.
THEOREM NumbersRunOnAlways == Spec => []NumbersRunOn
<1>1. IInv => NumbersRunOn
  BY DEF IInv
<1> QED BY <1>1, Inductive, PTL

-----------------------------------------------------------------------------
(* The text of a version that has left the drafts *)

Kept(v) ==
  /\ prompt'[v] # None
  /\ [prompt'[v] EXCEPT !.status = prompt[v].status] = prompt[v]
  /\ prompt'[v].status # "draft"

\* A statement that writes one version's status keeps everything else.
LEMMA StatusKeeps ==
  ASSUME IInv, NEW v \in Stored, prompt[v].status # "draft",
         NEW w \in Stored, NEW s \in Status \ {"draft"}, SetStatus(w, s)
  PROVE  Kept(v)
<1>1. prompt[v] \in Row /\ v \in Versions /\ w \in Versions
  BY DEF IInv, TypeOK, Stored
<1>2. CASE v = w
  <2>1. prompt'[v] = [prompt[v] EXCEPT !.status = s]
    BY <1>1, <1>2 DEF IInv, TypeOK, SetStatus
  <2>2. prompt'[v] \in Row /\ prompt'[v].status = s
    BY <1>1, <2>1 DEF Row
  <2>3. [prompt'[v] EXCEPT !.status = prompt[v].status] = prompt[v]
    BY <1>1, <2>1 DEF Row
  <2> QED BY <2>2, <2>3, NoneAssumption DEF Kept
<1>3. CASE v # w
  BY <1>1, <1>3, NoneAssumption DEF Kept, SetStatus, IInv, TypeOK, Row
<1> QED BY <1>2, <1>3

LEMMA SameKeeps ==
  ASSUME IInv, NEW v \in Stored, prompt[v].status # "draft", prompt'[v] = prompt[v]
  PROVE  Kept(v)
  BY NoneAssumption DEF Kept, IInv, TypeOK, Stored, Row

LEMMA NextKeeps ==
  ASSUME IInv, Next, NEW v \in Stored, prompt[v].status # "draft"
  PROVE  Kept(v)
<1>0. v \in Versions /\ "active" \in Status \ {"draft"} /\ "archived" \in Status \ {"draft"}
  BY DEF Stored, Status
<1>1. ASSUME NEW c \in Calls, Insert(c)
      PROVE  Kept(v)
  <2>1. prompt'[v] = prompt[v]
    BY <1>0, <1>1 DEF Insert, IInv, TypeOK, Stored
  <2> QED BY <2>1, SameKeeps
<1>2. ASSUME NEW w \in Stored, NEW b \in Bodies, Edit(w, b)
      PROVE  Kept(v)
  <2>1. prompt'[v] = prompt[v]
    BY <1>0, <1>2 DEF Edit, IInv, TypeOK, Stored
  <2> QED BY <2>1, SameKeeps
<1>3. ASSUME NEW c \in Calls, Demote(c)
      PROVE  Kept(v)
  <2>1. call[c].current \in Stored
    BY <1>3 DEF Demote, At, IInv, CallInv, Activating, Of
  <2> QED BY <1>0, <1>3, <2>1, StatusKeeps, SameKeeps DEF Demote
<1>4. ASSUME NEW c \in Calls, Promote(c)
      PROVE  Kept(v)
  <2>1. call[c].version \in Stored
    BY <1>4 DEF Promote, At, IInv, CallInv, Activating
  <2> QED BY <1>0, <1>4, <2>1, StatusKeeps, SameKeeps DEF Promote, MakeActive
<1>5. ASSUME NEW c \in Calls, Restore(c)
      PROVE  Kept(v)
  <2>1. call[c].current \in Stored
    BY <1>5, RestoreMatches DEF Restore, Of
  <2> QED BY <1>0, <1>5, <2>1, StatusKeeps, SameKeeps DEF Restore, MakeActive
<1>6. ASSUME NEW c \in Calls, Archive(c)
      PROVE  Kept(v)
  <2>1. call[c].version \in Stored
    BY <1>6 DEF Archive, At, IInv, CallInv
  <2> QED BY <1>0, <1>6, <2>1, StatusKeeps, SameKeeps DEF Archive
<1>7. CASE UNCHANGED prompt
  BY <1>7, SameKeeps
<1>8. ASSUME NEW c \in Calls,
             \/ \E f \in Features, b \in Bodies : CreateBegin(c, f, b)
             \/ \E w \in Stored : ActivateBegin(c, w) \/ ArchiveBegin(c, w)
             \/ InsertRefused(c) \/ LoadActive(c) \/ PromoteMissed(c) \/ GiveUp(c)
      PROVE  UNCHANGED prompt
  BY <1>8 DEF CreateBegin, ActivateBegin, ArchiveBegin, InsertRefused, LoadActive, PromoteMissed, GiveUp
<1> QED BY <1>1, <1>2, <1>3, <1>4, <1>5, <1>6, <1>7, <1>8 DEF Next

\* However an edit races with an activation, the text usage is attributed to is
\* the text that was served.
THEOREM ServedTextIsFixedAlways == Spec => ServedTextIsFixed
<1>1. IInv /\ [Next]_vars =>
        [\A v \in Stored :
           prompt[v].status # "draft" =>
             prompt'[v] # None /\ [prompt'[v] EXCEPT !.status = prompt[v].status] = prompt[v]
                               /\ prompt'[v].status # "draft"]_vars
  BY NextKeeps DEF Kept
<1> QED BY <1>1, Inductive, PTL DEF Spec, ServedTextIsFixed

-----------------------------------------------------------------------------
(* Prompts implements the shelf a feature takes its prompt from *)

OnShelf == [Served!Next]_(Served!vars)

\* What is on the shelf, and which of it is down.
LEMMA ShelfView ==
  ASSUME IInv
  PROVE  /\ Down \subseteq Stored
         /\ \A v \in Down : prompt[v].status = "archived"
         /\ \A v \in Versions \ Down : Shelved[v] = prompt[v]
         /\ \A v \in Down : Shelved[v] = [prompt[v] EXCEPT !.status = "down"]
         /\ \A v \in Stored : /\ prompt[v] \in Row
                              /\ Shelved[v] # None
                              /\ Shelved[v].feature = prompt[v].feature
                              /\ Shelved[v].number = prompt[v].number
<1>1. Down \subseteq Stored /\ \A v \in Down : prompt[v].status = "archived"
  <2> SUFFICES ASSUME NEW c \in Calls, MidSwap(c)
               PROVE  call[c].current \in Stored /\ prompt[call[c].current].status = "archived"
    BY DEF Down
  <2> QED BY DEF IInv, CallInv, MidSwap, Activating, Of
<1>2. \A v \in Versions \ Down : Shelved[v] = prompt[v]
  BY DEF Shelved
<1>3. \A v \in Down : Shelved[v] = [prompt[v] EXCEPT !.status = "down"]
  BY <1>1 DEF Shelved, Stored
<1>4. ASSUME NEW v \in Stored
      PROVE  /\ prompt[v] \in Row
             /\ Shelved[v] # None
             /\ Shelved[v].feature = prompt[v].feature
             /\ Shelved[v].number = prompt[v].number
  <2>1. prompt[v] \in Row /\ v \in Versions
    BY DEF IInv, TypeOK, Stored
  <2>2. CASE v \notin Down
    BY <1>2, <2>1, <2>2, NoneAssumption
  <2>3. CASE v \in Down
    <3>1. Shelved[v] \in [feature : Features, number : Nat, status : {"down"}, body : Bodies]
      BY <1>3, <2>1, <2>3 DEF Row
    <3>2. Shelved[v].feature = prompt[v].feature /\ Shelved[v].number = prompt[v].number
      BY <1>3, <2>1, <2>3 DEF Row
    <3> QED BY <2>1, <3>1, <3>2, DownAssumption
  <2> QED BY <2>2, <2>3
<1> QED BY <1>1, <1>2, <1>3, <1>4

\* The questions the shelf asks, asked of the table.
LEMMA ShelfAsks ==
  ASSUME IInv
  PROVE  /\ \A f \in Features : Served!Of(f) = Of(f) /\ (Served!HasLive(f) <=> Live(f) # {})
         /\ \A v \in Versions : Served!Is(v, "down") <=> v \in Down
         /\ \A v \in Versions, s \in {"draft", "active"} :
              Served!Is(v, s) <=> v \in Stored /\ prompt[v].status = s
         /\ \A v \in Versions : Shelved[v] = None <=> v \notin Stored
<1>1. \A v \in Versions : Shelved[v] = None <=> v \notin Stored
  BY ShelfView DEF Stored
<1>2. ASSUME NEW v \in Down PROVE Shelved[v].status = "down"
  <2>1. prompt[v] \in Row /\ Shelved[v] = [prompt[v] EXCEPT !.status = "down"]
    BY ShelfView
  <2> QED BY <2>1 DEF Row
<1>3. \A v \in Versions : Served!Is(v, "down") <=> v \in Down
  BY <1>1, <1>2, ShelfView DEF Served!Is, Row, Status
<1>4. \A v \in Versions, s \in {"draft", "active"} : Served!Is(v, s) <=> v \in Stored /\ prompt[v].status = s
  BY <1>1, <1>2, ShelfView DEF Served!Is
<1>5. \A f \in Features : Served!Of(f) = Of(f)
  BY <1>1, ShelfView DEF Served!Of, Of, Stored
<1>6. \A f \in Features : Served!HasLive(f) <=> Live(f) # {}
  <2> SUFFICES ASSUME NEW f \in Features, NEW v \in Of(f)
               PROVE  Shelved[v].status = "active" <=> prompt[v].status = "active"
    BY <1>5 DEF Served!HasLive, Live
  <2> QED BY <1>2, ShelfView DEF Of, Stored
<1> QED BY <1>1, <1>3, <1>4, <1>5, <1>6

\* Which versions are down after a call went on.
LEMMA DownChanges ==
  ASSUME IInv, NEW c \in Calls, NEW held, Goto(c, held)
  PROVE  /\ MidSwap(c)' /\ ~MidSwap(c) => Down' = Down \cup {held.current}
         /\ MidSwap(c) /\ ~MidSwap(c)' => Down' = Down \ {call[c].current}
         /\ (MidSwap(c)' <=> MidSwap(c)) /\ (MidSwap(c) => held.current = call[c].current) => Down' = Down
<1>1. call'[c] = held /\ \A d \in Calls \ {c} : call'[d] = call[d]
  BY DEF IInv, TypeOK, Goto
<1>2. \A d \in Calls \ {c} : MidSwap(d)' <=> MidSwap(d)
  BY <1>1 DEF MidSwap
<1>3. Down' = {call'[d].current : d \in {e \in Calls : MidSwap(e)'}}
  BY DEF Down
<1>4. ASSUME MidSwap(c), ~MidSwap(c)' PROVE Down' = Down \ {call[c].current}
  <2>1. \A d \in Calls \ {c} : MidSwap(d) => call[d].current # call[c].current
    BY <1>4 DEF IInv, OneSwap
  <2> QED BY <1>1, <1>2, <1>3, <1>4, <2>1 DEF Down
<1>5. ASSUME MidSwap(c)', ~MidSwap(c) PROVE Down' = Down \cup {held.current}
  BY <1>1, <1>2, <1>3, <1>5 DEF Down
<1>6. ASSUME MidSwap(c)' <=> MidSwap(c), MidSwap(c) => held.current = call[c].current PROVE Down' = Down
  BY <1>1, <1>2, <1>3, <1>6 DEF Down
<1> QED BY <1>4, <1>5, <1>6

\* Nothing on the shelf moves.
LEMMA QuietShelf ==
  ASSUME UNCHANGED <<prompt, bare>>, Down' = Down
  PROVE  OnShelf
  BY DEF OnShelf, Served!vars, Shelved

\* One version is moved.
LEMMA OneMoves ==
  ASSUME IInv, NEW v \in Stored, NEW t \in Status, prompt'[v] = [prompt[v] EXCEPT !.status = t],
         \A w \in Versions \ {v} : prompt'[w] = prompt[w] /\ (w \in Down' <=> w \in Down)
  PROVE  Served!Move(v, IF v \in Down' THEN "down" ELSE t)
<1> DEFINE s == IF v \in Down' THEN "down" ELSE t
<1>1. prompt[v] \in Row /\ v \in Versions
  BY ShelfView DEF Stored
<1>2. Shelved'[v] = [prompt[v] EXCEPT !.status = s]
  BY <1>1 DEF Shelved, Row
<1>3. [Shelved[v] EXCEPT !.status = s] = [prompt[v] EXCEPT !.status = s]
  <2>1. Shelved[v] = prompt[v] \/ Shelved[v] = [prompt[v] EXCEPT !.status = "down"]
    BY <1>1, ShelfView
  <2> QED BY <1>1, <2>1 DEF Row
<1>4. \A w \in Versions \ {v} : Shelved'[w] = Shelved[w]
  BY DEF Shelved
<1> HIDE DEF s
<1>5. Shelved' = [Shelved EXCEPT ![v].status = s]
  BY <1>1, <1>2, <1>3, <1>4 DEF Shelved
<1> QED BY <1>5 DEF Served!Move, s

\* A call that goes on without a word to the table, in or out of a swap.
LEMMA SilentCall ==
  ASSUME IInv, NEW c \in Calls, NEW held, Goto(c, held), UNCHANGED <<prompt, bare>>,
         (held.step \in {"promote", "restore"} /\ held.current # None) <=> MidSwap(c),
         MidSwap(c) => held.current = call[c].current
  PROVE  OnShelf
<1>1. call'[c] = held
  BY DEF IInv, TypeOK, Goto
<1>2. MidSwap(c)' <=> MidSwap(c)
  BY <1>1 DEF MidSwap
<1> QED BY <1>2, DownChanges, QuietShelf

\* A call that is in no swap ends.
LEMMA EndsOutside ==
  ASSUME IInv, NEW c \in Calls, ~MidSwap(c), Goto(c, Idle)
  PROVE  Down' = Down /\ (UNCHANGED <<prompt, bare>> => OnShelf)
<1>1. call'[c] = Idle /\ ~MidSwap(c)'
  BY IdleTyped DEF IInv, TypeOK, Goto, MidSwap
<1>2. Down' = Down
  BY <1>1, DownChanges
<1> QED BY <1>2, QuietShelf

\* A call in a swap ends: what it took down is not down any more.
LEMMA EndsSwap ==
  ASSUME IInv, NEW c \in Calls, MidSwap(c), Goto(c, Idle)
  PROVE  /\ Down' = Down \ {call[c].current}
         /\ call[c].current \in Down /\ call[c].current \in Of(call[c].feature)
         /\ call[c].feature \in Features
<1>1. call'[c] = Idle /\ ~MidSwap(c)'
  BY IdleTyped DEF IInv, TypeOK, Goto, MidSwap
<1>2. Down' = Down \ {call[c].current}
  BY <1>1, DownChanges
<1>3. call[c].current \in Down
  BY DEF Down
<1>4. call[c].current \in Of(call[c].feature)
  BY DEF IInv, CallInv, MidSwap, Activating
<1>5. call[c].feature \in Features
  BY <1>4 DEF Of, Stored, IInv, TypeOK, Row
<1> QED BY <1>2, <1>3, <1>4, <1>5

\* A swap ends while nobody wrote: what was down is archived.
LEMMA SwapOver ==
  ASSUME IInv, NEW c \in Calls, MidSwap(c), Goto(c, Idle), UNCHANGED prompt,
         \/ Live(call[c].feature) # {} /\ UNCHANGED bare
         \/ bare' = bare \cup {call[c].feature}
  PROVE  OnShelf
<1> DEFINE v == call[c].current
<1>1. Down' = Down \ {v} /\ v \in Down /\ v \in Of(call[c].feature) /\ call[c].feature \in Features
  BY EndsSwap
<1>2. v \in Stored /\ v \in Versions /\ prompt[v] \in Row /\ prompt[v].status = "archived"
      /\ Shelved[v].feature = call[c].feature
  BY <1>1, ShelfView DEF Of, Stored
<1>3. prompt'[v] = [prompt[v] EXCEPT !.status = "archived"] /\ "archived" \in Status
  BY <1>2 DEF Row, Status
<1> HIDE DEF v
<1>4. Served!Move(v, "archived")
  <2>1. v \notin Down' /\ \A w \in Versions \ {v} : prompt'[w] = prompt[w] /\ (w \in Down' <=> w \in Down)
    BY <1>1
  <2> QED BY <1>2, <1>3, <2>1, OneMoves
<1>5. Served!Settle(v) \/ Served!Abandon(v)
  BY <1>1, <1>2, <1>4, ShelfAsks DEF Served!Settle, Served!Abandon
<1> QED BY <1>2, <1>5 DEF OnShelf, Served!Next

\* A new row is the next draft of its feature.
LEMMA InsertShelves ==
  ASSUME IInv, NEW c \in Calls, Insert(c)
  PROVE  OnShelf
<1> DEFINE f == call[c].feature
           n == call[c].number
<1>1. PICK v \in Versions \ Stored : prompt' = [prompt EXCEPT ![v] = Draft(c)]
  BY DEF Insert
<1>2. call[c].step = "insert" /\ Goto(c, Idle) /\ ~MidSwap(c) /\ UNCHANGED bare /\ ~NumberTaken(f, n)
  BY DEF Insert, At, MidSwap
<1>3. f \in Features /\ call[c].body \in Bodies /\ Follows(f, n)
  BY <1>2 DEF IInv, CallInv
<1>4. Down' = Down /\ v \notin Down
  BY <1>2, ShelfView, EndsOutside
<1>5. Shelved' = [Shelved EXCEPT ![v] = Draft(c)]
  BY <1>1, <1>4 DEF IInv, TypeOK, Shelved
<1>6. n \in Served!Numbers(f)
  <2>1. \A w \in Of(f) : Shelved[w].number = prompt[w].number
    BY ShelfView DEF Of
  <2>2. Served!Of(f) = Of(f)
    BY <1>3, ShelfAsks
  <2> QED BY <1>2, <1>3, <2>1, <2>2 DEF Served!Numbers, NumberTaken, Follows
<1>7. Served!Draft(v)
  BY <1>2, <1>3, <1>5, <1>6, ShelfAsks DEF Served!Draft, Draft
<1> QED BY <1>7 DEF OnShelf, Served!Next

\* Only a draft is edited, and a draft is not down.
LEMMA EditShelves ==
  ASSUME IInv, NEW v \in Stored, NEW b \in Bodies, Edit(v, b)
  PROVE  OnShelf
<1>1. v \notin Down /\ Down' = Down /\ v \in Versions
  BY ShelfView DEF Edit, Down, MidSwap, Stored
<1>2. Shelved' = [Shelved EXCEPT ![v].body = b]
  BY <1>1 DEF Edit, IInv, TypeOK, Shelved
<1>3. Served!Edit(v)
  BY <1>1, <1>2, ShelfAsks DEF Served!Edit, Edit
<1> QED BY <1>1, <1>3 DEF OnShelf, Served!Next

\* To the shelf, the version that is demoted is taken down for a swap.
LEMMA DemoteShelves ==
  ASSUME IInv, NEW c \in Calls, Demote(c)
  PROVE  OnShelf
<1> DEFINE v == call[c].current
           held == [call[c] EXCEPT !.step = "promote"]
<1>1. call[c].step = "demote" /\ ~MidSwap(c) /\ call[c] \in CallState /\ UNCHANGED bare
  BY DEF Demote, At, MidSwap, IInv, TypeOK
<1>2. v \in Stored /\ v # None /\ v \in Versions /\ prompt[v] \in Row
  BY <1>1, ShelfView DEF IInv, CallInv, Activating, Of, Stored
<1>3. CASE prompt[v].status = "active" /\ SetStatus(v, "archived") /\ Step(c, "promote")
  <2>1. held.step = "promote" /\ held.current = v /\ Goto(c, held)
    BY <1>1, <1>3 DEF CallState, Step, Goto
  <2>2. MidSwap(c)'
    BY <1>2, <2>1 DEF MidSwap, IInv, TypeOK, Goto
  <2> HIDE DEF held
  <2>3. Down' = Down \cup {v}
    BY <1>1, <2>1, <2>2, DownChanges
  <2>4. prompt'[v] = [prompt[v] EXCEPT !.status = "archived"] /\ "archived" \in Status
        /\ \A w \in Versions \ {v} : prompt'[w] = prompt[w]
    BY <1>2, <1>3 DEF SetStatus, IInv, TypeOK, Status
  <2>5. Served!Move(v, "down")
    BY <1>2, <2>3, <2>4, OneMoves
  <2>6. Served!TakeDown(v)
    BY <1>1, <1>2, <1>3, <2>5, ShelfAsks DEF Served!TakeDown
  <2> QED BY <1>2, <2>6 DEF OnShelf, Served!Next
<1>4. CASE Goto(c, Idle) /\ UNCHANGED prompt
  BY <1>1, <1>4, EndsOutside
<1> QED BY <1>3, <1>4 DEF Demote

\* A draft goes live in place of what its action took down.
LEMMA PromoteShelves ==
  ASSUME IInv, NEW c \in Calls, Promote(c)
  PROVE  OnShelf
<1> DEFINE v == call[c].version
           w == call[c].current
           f == call[c].feature
<1>1. call[c].step = "promote" /\ prompt[v].status = "draft" /\ MakeActive(v) /\ Goto(c, Idle) /\ CallInv(c)
  BY DEF Promote, At, IInv
<1>2. v \in Stored /\ v \in Versions /\ f = prompt[v].feature /\ prompt[v] \in Row /\ f \in Features
      /\ v \notin Down /\ Shelved[v] = prompt[v]
  BY <1>1, ShelfView DEF CallInv, Activating, Stored, Row
<1>3. CASE Live(f) = {} /\ SetStatus(v, "active") /\ bare' = bare \ {f}
  <2>1. prompt'[v] = [prompt[v] EXCEPT !.status = "active"] /\ "active" \in Status
        /\ \A u \in Versions \ {v} : prompt'[u] = prompt[u]
    BY <1>2, <1>3 DEF SetStatus, IInv, TypeOK, Status
  <2>2. Served!Is(v, "draft") /\ ~Served!HasLive(f) /\ Shelved[v].feature = f /\ bare' = bare \ {Shelved[v].feature}
    BY <1>1, <1>2, <1>3, ShelfAsks
  <2>3. CASE ~MidSwap(c)
    <3>1. Down' = Down
      BY <1>1, <2>3, EndsOutside
    <3>2. Served!Move(v, "active")
      BY <1>2, <2>1, <3>1, OneMoves
    <3>3. Served!Promote(v)
      BY <2>2, <3>2 DEF Served!Promote
    <3> QED BY <1>2, <3>3 DEF OnShelf, Served!Next
  <2>4. CASE MidSwap(c)
    <3>1. Down' = Down \ {w} /\ w \in Down /\ w \in Of(f)
      BY <1>1, <2>4, EndsSwap
    <3>2. w \in Versions /\ w # v /\ prompt[w] \in Row /\ prompt[w].status = "archived"
          /\ Shelved[w] = [prompt[w] EXCEPT !.status = "down"]
      BY <1>2, <3>1, ShelfView DEF Of, Stored
    <3>3. Shelved'[v] = [Shelved[v] EXCEPT !.status = "active"]
      BY <1>2, <2>1, <3>1 DEF Shelved
    <3>4. Shelved'[w] = [Shelved[w] EXCEPT !.status = "archived"]
      <4>1. Shelved'[w] = prompt[w]
        BY <2>1, <3>1, <3>2 DEF Shelved
      <4>2. [Shelved[w] EXCEPT !.status = "archived"] = prompt[w]
        BY <3>2 DEF Row
      <4> QED BY <4>1, <4>2
    <3>5. \A u \in Versions \ {v, w} : Shelved'[u] = Shelved[u]
      BY <2>1, <3>1 DEF Shelved
    <3> HIDE DEF v, w
    <3>6. Shelved' = [Shelved EXCEPT ![v].status = "active", ![w].status = "archived"]
      BY <1>2, <3>2, <3>3, <3>4, <3>5 DEF Shelved
    <3>7. w \in Served!Of(Shelved[v].feature) /\ Served!Is(w, "down")
      BY <1>2, <2>2, <3>1, <3>2, ShelfAsks
    <3>8. Served!Promote(v)
      BY <2>2, <3>6, <3>7 DEF Served!Promote
    <3> QED BY <1>2, <3>8 DEF OnShelf, Served!Next
  <2> QED BY <2>3, <2>4
<1>4. CASE Live(f) # {} /\ UNCHANGED <<prompt, bare>>
  BY <1>1, <1>4, EndsOutside, SwapOver
<1> QED BY <1>1, <1>2, <1>3, <1>4 DEF MakeActive

\* What a lost race took down comes back, unless another is live by now.
LEMMA RestoreShelves ==
  ASSUME IInv, NEW c \in Calls, Restore(c)
  PROVE  OnShelf
<1> DEFINE v == call[c].current
           f == call[c].feature
<1>1. MidSwap(c) /\ v \in Of(f) /\ prompt[v].status = "archived" /\ Goto(c, Idle)
  BY RestoreMatches DEF Restore
<1>2. Down' = Down \ {v} /\ v \in Down /\ f \in Features
  BY <1>1, EndsSwap
<1>3. v \in Stored /\ v \in Versions /\ f = prompt[v].feature /\ prompt[v] \in Row /\ Shelved[v].feature = f
  BY <1>1, ShelfView DEF Of, Stored
<1>4. CASE Live(f) = {} /\ SetStatus(v, "active") /\ bare' = bare \ {f}
  <2>1. prompt'[v] = [prompt[v] EXCEPT !.status = "active"] /\ "active" \in Status
        /\ \A u \in Versions \ {v} : prompt'[u] = prompt[u]
    BY <1>3, <1>4 DEF SetStatus, IInv, TypeOK, Status
  <2> HIDE DEF v
  <2>2. Served!Move(v, "active")
    <3>1. v \notin Down' /\ \A u \in Versions \ {v} : prompt'[u] = prompt[u] /\ (u \in Down' <=> u \in Down)
      BY <1>2, <2>1
    <3> QED BY <1>3, <2>1, <3>1, OneMoves
  <2>3. Served!PutBack(v)
    BY <1>2, <1>3, <1>4, <2>2, ShelfAsks DEF Served!PutBack
  <2> QED BY <1>3, <2>3 DEF OnShelf, Served!Next
<1>5. CASE Live(f) # {} /\ UNCHANGED <<prompt, bare>>
  BY <1>1, <1>5, SwapOver
<1> QED BY <1>1, <1>3, <1>4, <1>5 DEF Restore, MakeActive

\* An operator archives what is not down.
LEMMA ArchiveShelves ==
  ASSUME IInv, NEW c \in Calls, Archive(c)
  PROVE  OnShelf
<1> DEFINE v == call[c].version
<1>1. call[c].step = "archive" /\ ~MidSwap(c) /\ Goto(c, Idle)
  BY DEF Archive, At, MidSwap
<1>2. v \in Stored /\ v \in Versions /\ prompt[v] \in Row /\ Down' = Down
  BY <1>1, ShelfView, EndsOutside DEF IInv, CallInv, Stored
<1>3. CASE /\ prompt[v].status # "archived" /\ SetStatus(v, "archived")
           /\ bare' = IF prompt[v].status = "active" THEN bare \cup {prompt[v].feature} ELSE bare
  <2>1. prompt'[v] = [prompt[v] EXCEPT !.status = "archived"] /\ "archived" \in Status
        /\ \A u \in Versions \ {v} : prompt'[u] = prompt[u]
    BY <1>2, <1>3 DEF SetStatus, IInv, TypeOK, Status
  <2>2. v \notin Down' /\ prompt[v].status \in {"draft", "active"} /\ Shelved[v].feature = prompt[v].feature
    BY <1>2, <1>3, ShelfView DEF Row, Status
  <2> HIDE DEF v
  <2>3. Served!Move(v, "archived")
    BY <1>2, <2>1, <2>2, OneMoves
  <2>4. Served!Retire(v)
    BY <1>2, <1>3, <2>2, <2>3, ShelfAsks DEF Served!Retire
  <2> QED BY <1>2, <2>4 DEF OnShelf, Served!Next
<1>4. CASE UNCHANGED <<prompt, bare>>
  BY <1>1, <1>4, EndsOutside
<1> QED BY <1>3, <1>4 DEF Archive

\* Every step moves one version on the shelf, or none.
LEMMA NextShelves == IInv /\ [Next]_vars => OnShelf
<1> SUFFICES ASSUME IInv, [Next]_vars PROVE OnShelf
  OBVIOUS
<1>0. call \in [Calls -> CallState] /\ Idle.step = "idle"
  BY IdleTyped DEF IInv, TypeOK
<1>1. ASSUME NEW c \in Calls, \E f \in Features, b \in Bodies : CreateBegin(c, f, b)
      PROVE  OnShelf
  <2>1. PICK f \in Features, b \in Bodies :
          \E n \in NextVersionFor(f) :
            Goto(c, [Idle EXCEPT !.step = "insert", !.feature = f, !.number = n, !.body = b])
    BY <1>1 DEF CreateBegin
  <2> PICK n \in NextVersionFor(f) : Goto(c, [Idle EXCEPT !.step = "insert", !.feature = f, !.number = n, !.body = b])
    BY <2>1
  <2>2. [Idle EXCEPT !.step = "insert", !.feature = f, !.number = n, !.body = b].step = "insert"
    BY DEF Idle
  <2>3. ~MidSwap(c) /\ UNCHANGED <<prompt, bare>>
    BY <1>1 DEF CreateBegin, At, MidSwap
  <2> QED BY <2>1, <2>2, <2>3, SilentCall
<1>2. ASSUME NEW c \in Calls, NEW v \in Stored, ActivateBegin(c, v) \/ ArchiveBegin(c, v) PROVE OnShelf
  <2>1. ~MidSwap(c) /\ UNCHANGED <<prompt, bare>>
    BY <1>2 DEF ActivateBegin, ArchiveBegin, At, MidSwap
  <2>2. CASE ActivateBegin(c, v)
    <3>1. [Idle EXCEPT !.step = "current", !.feature = prompt[v].feature, !.version = v].step = "current"
      BY DEF Idle
    <3> QED BY <2>1, <2>2, <3>1, SilentCall DEF ActivateBegin
  <2>3. CASE ArchiveBegin(c, v)
    <3>1. [Idle EXCEPT !.step = "archive", !.version = v].step = "archive"
      BY DEF Idle
    <3> QED BY <2>1, <2>3, <3>1, SilentCall DEF ArchiveBegin
  <2> QED BY <1>2, <2>2, <2>3
<1>3. ASSUME NEW c \in Calls, InsertRefused(c) PROVE OnShelf
  BY <1>3, EndsOutside DEF InsertRefused, At, MidSwap
<1>4. ASSUME NEW c \in Calls, LoadActive(c) PROVE OnShelf
  <2>1. call[c].current = None /\ ~MidSwap(c) /\ UNCHANGED <<prompt, bare>>
    BY <1>4 DEF LoadActive, At, MidSwap, IInv, CallInv
  <2>2. PICK held : Goto(c, held) /\ (held.step = "demote" \/ (held.step = "promote" /\ held.current = None))
    <3>1. ASSUME NEW v \in Live(call[c].feature)
          PROVE  [call[c] EXCEPT !.step = "demote", !.current = v].step = "demote"
      BY <1>0 DEF CallState
    <3>2. LET held == [call[c] EXCEPT !.step = "promote"] IN held.step = "promote" /\ held.current = None
      BY <1>0, <2>1 DEF CallState
    <3>3. Step(c, "promote") => Goto(c, [call[c] EXCEPT !.step = "promote"])
      BY DEF Step, Goto
    <3> QED BY <1>4, <3>1, <3>2, <3>3 DEF LoadActive
  <2> QED BY <2>1, <2>2, SilentCall
<1>5. ASSUME NEW c \in Calls, PromoteMissed(c) PROVE OnShelf
  <2>0. call[c].step = "promote" /\ UNCHANGED <<prompt, bare>>
    BY <1>5 DEF PromoteMissed, At
  <2>1. CASE call[c].current # None /\ Step(c, "restore")
    <3> DEFINE held == [call[c] EXCEPT !.step = "restore"]
    <3>1. held.step = "restore" /\ held.current = call[c].current /\ Goto(c, held) /\ MidSwap(c)
      BY <1>0, <2>0, <2>1 DEF CallState, Step, Goto, MidSwap
    <3> HIDE DEF held
    <3> QED BY <2>0, <2>1, <3>1, SilentCall
  <2>2. CASE call[c].current = None /\ Goto(c, Idle)
    BY <2>0, <2>2, EndsOutside DEF MidSwap
  <2> QED BY <1>5, <2>1, <2>2 DEF PromoteMissed
<1>6. ASSUME NEW c \in Calls, GiveUp(c) PROVE OnShelf
  <2>1. CASE MidSwap(c)
    BY <1>6, <2>1, SwapOver DEF GiveUp
  <2>2. CASE ~MidSwap(c)
    BY <1>6, <2>2, EndsOutside DEF GiveUp
  <2> QED BY <2>1, <2>2
<1>7. ASSUME NEW c \in Calls, Insert(c) \/ Demote(c) \/ Promote(c) \/ Restore(c) \/ Archive(c) PROVE OnShelf
  BY <1>7, InsertShelves, DemoteShelves, PromoteShelves, RestoreShelves, ArchiveShelves
<1>8. ASSUME NEW v \in Stored, NEW b \in Bodies, Edit(v, b) PROVE OnShelf
  BY <1>8, EditShelves
<1>9. CASE UNCHANGED vars
  BY <1>9, QuietShelf DEF vars, Down, MidSwap
<1> QED BY <1>1, <1>2, <1>3, <1>4, <1>5, <1>6, <1>7, <1>8, <1>9 DEF Next

\* The actions, with their swaps in two statements, their lost races and their
\* deaths, implement the shelf: one version replaces another in one step, returns,
\* or leaves a feature known to be bare (prompts.ts, activatePromptAction).
THEOREM ShelfIsKept == Spec => ImplementsShelf
<1>1. Init => Served!Init
  <2> SUFFICES ASSUME Init PROVE Served!Init
    OBVIOUS
  <2>1. Down = {}
    BY IdleTyped DEF Init, Down, MidSwap
  <2> QED BY <2>1 DEF Init, Served!Init, Shelved
<1>2. IInv /\ [Next]_vars => [Served!Next]_(Served!vars)
  BY NextShelves DEF OnShelf
<1> QED BY <1>1, <1>2, Inductive, PTL DEF Spec, ImplementsShelf, Served!Spec
=============================================================================
