------------------------ MODULE NotificationsProofs ------------------------
(***************************************************************************)
(* Proofs about Notifications, for every set of messages, sweeps and       *)
(* devices.  IInv is inductive: at most one sweep is past the claim of a   *)
(* message and the mark it left says so (ClaimInv), what a sweep holds is  *)
(* a reminder that was due (MomentInv), and a phone with a stable id has   *)
(* one row (RowInv).                                                       *)
(***************************************************************************)
EXTENDS Notifications, FiniteSetTheorems, TLAPS

Running(w) == sweep[w].phase # "idle"

\* Sweep w holds the claim of k.
Busy(w, k) ==
  Running(w) /\ sweep[w].step \in {"tokens", "post", "receipts"} /\ sweep[w].msg = k

MsgInv == \A w \in Sweeps : Running(w) /\ sweep[w].step # "next" => sweep[w].msg \in Keys

ClaimInv ==
  /\ \A v, w \in Sweeps, k \in Keys : Busy(v, k) /\ Busy(w, k) => v = w
  /\ \A w \in Sweeps, k \in Keys : Busy(w, k) =>
       delivery[k] = "claimed" /\ handed[k] = (IF sweep[w].step = "receipts" THEN 1 ELSE 0)
  /\ \A k \in Keys : handed[k] \in {0, 1} /\ (delivery[k] = "absent" => handed[k] = 0)
  /\ MarksAreTrue

Holds(w, r) == Running(w) /\ (r \in sweep[w].todo \/ (sweep[w].step # "next" /\ sweep[w].msg = r))

MomentInv ==
  /\ \A w \in Sweeps : sweep[w].now <= now
  /\ \A w \in Sweeps, r \in Reminders : Holds(w, r) =>
       reminder[r].status # "absent" /\ reminder[r].at <= now
  /\ \A w \in Sweeps : At(w, "fire") =>
       sweep[w].msg \in Reminders /\ Answered(sweep[w].msg)
  /\ FiredHadItsMoment

\* With a stable id every row, and every token a sweep read, is the phone's own.
RowInv ==
  /\ phone.id \in {NoId, PlatformId}
  /\ \A d \in DeviceIds : tokenRow[d].token # NoToken => d = PlatformId
  /\ \A w \in Sweeps : \A x, y \in sweep[w].rows : x = y
  /\ \A k \in Keys : shown[k] <= handed[k]

IInv == TypeOK /\ MsgInv /\ ClaimInv /\ MomentInv /\ (StableId => RowInv)

-----------------------------------------------------------------------------
(* Types *)

\* What After leaves of a run.
LEMMA AfterFields ==
  ASSUME NEW s \in Run, NEW k \in Keys \cup {NoKey}
  PROVE  /\ After(s, k) \in Run
         /\ After(s, k).phase = s.phase
         /\ After(s, k).now = s.now
         /\ After(s, k).todo = s.todo \ {k}
         /\ After(s, k).rows = {}
         /\ After(s, k).step = (IF k \in Reminders THEN "fire" ELSE "next")
         /\ After(s, k).msg = (IF k \in Reminders THEN k ELSE NoKey)
  BY DEF After, Run, Steps

\* An idle run is a run.
LEMMA IdleRun == Idle \in Run
  BY BoundsAssumption DEF Idle, Run, Phases, Steps, Times

\* Threw is After, or the end of the run.
LEMMA ThrewCases ==
  ASSUME NEW s, NEW k
  PROVE  Threw(s, k) = After(s, k) \/ Threw(s, k) = Idle
  BY DEF Threw

\* A page holds rows of the select only.
LEMMA PageSubset == ASSUME NEW rows, NEW p \in Page(rows) PROVE p \subseteq rows
  BY DEF Page

\* The rows a sweep may have read are finitely many.
LEMMA RowsFinite ==
  ASSUME NEW rows \in SUBSET (DeviceIds \X (1 .. MaxTokens))
  PROVE  IsFiniteSet(rows)
<1>1. IsFiniteSet(1 .. MaxTokens)
  BY FS_Interval, BoundsAssumption
<1>2. IsFiniteSet(DeviceIds \X (1 .. MaxTokens))
  BY <1>1, FS_Product, PhoneAssumption
<1> QED
  BY <1>2, FS_Subset

\* The initial state is well typed.
LEMMA TypeInit == Init => TypeOK
  BY IdleRun, BoundsAssumption, PreferencesAssumption
  DEF Init, TypeOK, Times, ReminderStatus, DeliveryStatus, NoToken

\* Every step keeps the types.
LEMMA TypeStep == TypeOK /\ [Next]_vars => TypeOK'
<1> SUFFICES ASSUME TypeOK, [Next]_vars PROVE TypeOK'
  OBVIOUS
<1> USE BoundsAssumption, PreferencesAssumption
<1>1. CASE Environment
  <2>1. CASE Tick
    BY <2>1 DEF Tick, TypeOK, Times, records
  <2>2. CASE ChangeSettings
    BY <2>2 DEF ChangeSettings, TypeOK, records
  <2>3. CASE IssueToken
    BY <2>3 DEF IssueToken, TypeOK, records
  <2>4. CASE Register
    <3>1. PICK d \in DeviceIds, heard \in BOOLEAN :
            /\ tokenRow' = [tokenRow EXCEPT ![d] = [token |-> phone.live, disabled |-> FALSE]]
            /\ phone' = [phone EXCEPT !.id = d, !.registered = IF heard THEN phone.live ELSE @]
      BY <2>4, PhoneAssumption DEF Register, NewId, PlatformId, TypeOK
    <3> QED
      BY <2>4, <3>1 DEF Register, TypeOK, records
  <2>5. CASE SignOut
    <3>1. phone' \in [live : 0 .. MaxTokens, id : DeviceIds \cup {NoId}, registered : 0 .. MaxTokens]
      <4>1. phone' = [phone EXCEPT !.id = NoId, !.registered = 0]
        BY <2>5 DEF SignOut, NoToken
      <4>2. phone \in [live : 0 .. MaxTokens, id : DeviceIds \cup {NoId}, registered : 0 .. MaxTokens]
        BY DEF TypeOK
      <4>3. phone' = [live |-> phone.live, id |-> NoId, registered |-> 0]
        BY <4>1, <4>2
      <4>4. 0 \in 0 .. MaxTokens
        OBVIOUS
      <4> QED
        BY <4>2, <4>3, <4>4
    <3> QED
      BY <2>5, <3>1 DEF SignOut, TypeOK, records
  <2>6. CASE \E r \in Reminders : CancelReminder(r)
    BY <2>6 DEF CancelReminder, TypeOK, outside, records, ReminderStatus
  <2>7. CASE \E r \in Reminders, at \in now .. Horizon : SetReminder(r, at)
    <3>1. PICK r \in Reminders, at \in now .. Horizon : SetReminder(r, at)
      BY <2>7
    <3>2. at \in Times
      BY DEF TypeOK, Times
    <3> QED
      BY <3>1, <3>2 DEF SetReminder, TypeOK, outside, records, ReminderStatus
  <2>8. CASE \E m \in Meetings, at \in (now .. Horizon) \cup {Never} : SyncMeeting(m, at)
    <3>1. PICK m \in Meetings, at \in (now .. Horizon) \cup {Never} : SyncMeeting(m, at)
      BY <2>8
    <3>2. at \in Times \cup {Never}
      BY DEF TypeOK, Times
    <3> QED
      BY <3>1, <3>2 DEF SyncMeeting, TypeOK, records
  <2> QED
    BY <1>1, <2>1, <2>2, <2>3, <2>4, <2>5, <2>6, <2>7, <2>8 DEF Environment
<1>2. ASSUME NEW w \in Sweeps, Start(w) \/ SweepStep(w) \/ ProfileUnread(w) \/ CallFails(w) \/ Die(w)
      PROVE  TypeOK'
  <2> sweep[w] \in Run
    BY DEF TypeOK
  <2> sweep[w].msg \in Keys \cup {NoKey} /\ sweep[w].todo \in SUBSET Keys
    BY DEF Run
  <2>1. CASE Start(w)
    <3>1. [Idle EXCEPT !.phase = "briefings", !.now = now, !.todo = {k \in Kinds : JustPassed(k)}] \in Run
      BY IdleRun DEF TypeOK, Run, Phases, Keys
    <3> QED
      BY <2>1, <3>1 DEF Start, TypeOK, outside, records
  <2>2. CASE SelectReminders(w)
    <3>1. PICK page \in Page({r \in Reminders : Due(r, sweep[w].now)}) :
            sweep' = [sweep EXCEPT ![w].phase = "reminders", ![w].todo = page]
      BY <2>2 DEF SelectReminders
    <3>2. page \in SUBSET Keys
      BY PageSubset DEF Keys
    <3> QED
      BY <2>2, <3>1, <3>2 DEF SelectReminders, TypeOK, Run, Phases, outside, records
  <2>3. CASE SelectMeetings(w)
    <3>1. PICK page \in Page({m \in Meetings : Soon(m, sweep[w].now)}) :
            sweep' = [sweep EXCEPT ![w].phase = "meetings", ![w].todo = page]
      BY <2>3 DEF SelectMeetings
    <3>2. page \in SUBSET Keys
      BY PageSubset DEF Keys
    <3> QED
      BY <2>3, <3>1, <3>2 DEF SelectMeetings, TypeOK, Run, Phases, outside, records
  <2>4. CASE Finish(w)
    BY <2>4, IdleRun DEF Finish, TypeOK, outside, records
  <2>5. CASE SkipBriefing(w)
    <3>1. PICK k \in sweep[w].todo \cap Kinds : sweep' = [sweep EXCEPT ![w] = After(@, k)]
      BY <2>5 DEF SkipBriefing
    <3>2. After(sweep[w], k) \in Run
      BY AfterFields
    <3> QED
      BY <2>5, <3>1, <3>2 DEF SkipBriefing, TypeOK, outside, records
  <2>6. CASE LoadSettings(w)
    <3>1. PICK k \in sweep[w].todo :
            \/ sweep' = [sweep EXCEPT ![w] = After(@, k)] /\ hushed' = hushed \cup ({k} \cap Reminders)
            \/ sweep' = [sweep EXCEPT ![w].step = "claim", ![w].msg = k] /\ UNCHANGED hushed
      BY <2>6 DEF LoadSettings
    <3>2. After(sweep[w], k) \in Run
      BY AfterFields
    <3>3. [sweep[w] EXCEPT !.step = "claim", !.msg = k] \in Run
      BY DEF Run, Steps
    <3>4. sweep' \in [Sweeps -> Run]
      BY <3>1, <3>2, <3>3 DEF TypeOK
    <3>5. hushed' \in SUBSET Reminders
      BY <3>1 DEF TypeOK
    <3> QED
      BY <2>6, <3>4, <3>5 DEF LoadSettings, TypeOK, outside
  <2>7. CASE Claim(w)
    <3>1. After(sweep[w], sweep[w].msg) \in Run
      BY AfterFields
    <3>2. [sweep[w] EXCEPT !.step = "tokens"] \in Run
      BY DEF Run, Steps
    <3>3. sweep' \in [Sweeps -> Run]
      BY <2>7, <3>1, <3>2 DEF Claim, TypeOK
    <3>4. delivery' \in [Keys -> DeliveryStatus]
      BY <2>7 DEF Claim, TypeOK, DeliveryStatus
    <3> QED
      BY <2>7, <3>3, <3>4 DEF Claim, TypeOK, outside, records
  <2>8. CASE LoadTokens(w)
    <3> DEFINE rows == {<<d, tokenRow[d].token>> : d \in {e \in DeviceIds : Enabled(e)}}
    <3>1. After(sweep[w], sweep[w].msg) \in Run
      BY AfterFields
    <3>2. rows \in SUBSET (DeviceIds \X (1 .. MaxTokens))
      BY DEF TypeOK, Enabled, NoToken
    <3>3. [sweep[w] EXCEPT !.step = "post", !.rows = rows] \in Run
      BY <3>2 DEF Run, Steps
    <3> HIDE DEF rows
    <3>4. sweep' = [sweep EXCEPT ![w] = IF rows = {} THEN After(@, @.msg) ELSE [@ EXCEPT !.step = "post", !.rows = rows]]
      BY <2>8 DEF LoadTokens, rows
    <3> QED
      BY <2>8, <3>1, <3>3, <3>4 DEF LoadTokens, TypeOK, outside, records
  <2>9. ASSUME HandOver(w) PROVE handed' \in [Keys -> Nat] /\ shown' \in [Keys -> Nat]
    <3>1. sweep[w].rows \in SUBSET (DeviceIds \X (1 .. MaxTokens))
      BY DEF Run
    <3>2. Cardinality({x \in sweep[w].rows : x[2] = phone.live}) \in Nat
      BY <3>1, RowsFinite, FS_CardinalityType
    <3>0. handed' = [handed EXCEPT ![sweep[w].msg] = @ + 1]
      BY <2>9, Zenon DEF HandOver
    <3>4. shown' = [shown EXCEPT ![sweep[w].msg] = @ + Cardinality({x \in sweep[w].rows : x[2] = phone.live})]
      BY <2>9, Zenon DEF HandOver
    <3>3. handed' \in [Keys -> Nat]
      <4>1. CASE sweep[w].msg \in Keys
        BY <3>0, <4>1 DEF TypeOK
      <4>2. CASE sweep[w].msg \notin Keys
        BY <3>0, <4>2, Zenon DEF TypeOK
      <4> QED
        BY <4>1, <4>2
    <3> DEFINE n == Cardinality({x \in sweep[w].rows : x[2] = phone.live})
    <3> HIDE DEF n
    <3>5. shown' \in [Keys -> Nat]
      <4>1. shown' = [shown EXCEPT ![sweep[w].msg] = @ + n] /\ n \in Nat
        BY <3>2, <3>4 DEF n
      <4>2. CASE sweep[w].msg \in Keys
        BY <4>1, <4>2 DEF TypeOK
      <4>3. CASE sweep[w].msg \notin Keys
        BY <4>1, <4>3, Zenon DEF TypeOK
      <4> QED
        BY <4>2, <4>3
    <3> QED
      BY <3>3, <3>5
  <2>10. CASE PostAccepted(w)
    <3>1. PICK dead \in SUBSET {x[1] : x \in {y \in sweep[w].rows : y[2] # phone.live}} :
            sweep' = [sweep EXCEPT ![w].step = "receipts", ![w].dead = dead]
      BY <2>10 DEF PostAccepted
    <3>2. dead \in SUBSET DeviceIds
      BY DEF Run
    <3> QED
      BY <2>9, <2>10, <3>1, <3>2 DEF PostAccepted, TypeOK, Run, Steps, outside
  <2>11. CASE PostRefused(w)
    <3>1. After(sweep[w], sweep[w].msg) \in Run
      BY AfterFields
    <3> QED
      BY <2>11, <3>1 DEF PostRefused, Attempted, Missed, TypeOK, DeliveryStatus, outside, records
  <2>12. CASE PostThrew(w)
    <3>1. Threw(sweep[w], sweep[w].msg) \in Run
      BY AfterFields, ThrewCases, IdleRun
    <3> QED
      BY <2>9, <2>12, <3>1 DEF PostThrew, TypeOK, outside
  <2>13. CASE DisableToken(w)
    <3>1. PICK d \in sweep[w].dead :
            /\ tokenRow' = [tokenRow EXCEPT ![d].disabled = TRUE] \/ tokenRow' = tokenRow
            /\ sweep' = [sweep EXCEPT ![w].dead = @ \ {d}]
      BY <2>13 DEF DisableToken
    <3>2. tokenRow' \in [DeviceIds -> [token : 0 .. MaxTokens, disabled : BOOLEAN]]
      <4>1. CASE tokenRow' = [tokenRow EXCEPT ![d].disabled = TRUE]
        BY <4>1, <3>1, Zenon DEF TypeOK, Run
      <4>2. CASE tokenRow' = tokenRow
        BY <4>2 DEF TypeOK
      <4> QED
        BY <4>1, <4>2, <3>1
    <3>3. sweep' \in [Sweeps -> Run]
      BY <3>1 DEF TypeOK, Run
    <3>4. faults' \in 0 .. MaxFaults
      BY <2>13 DEF DisableToken, Attempted, Missed, TypeOK
    <3> QED
      BY <2>13, <3>2, <3>3, <3>4 DEF DisableToken, TypeOK, outside, records
  <2>14. CASE MarkSent(w)
    <3>1. After(sweep[w], sweep[w].msg) \in Run
      BY AfterFields
    <3> QED
      BY <2>14, <3>1 DEF MarkSent, Attempted, Missed, TypeOK, DeliveryStatus, outside, records
  <2>15. CASE Fire(w)
    <3>1. sweep' \in [Sweeps -> Run]
      BY <2>15 DEF Fire, TypeOK, Run, Steps
    <3>2. reminder' \in [Reminders -> [status : ReminderStatus, at : Times]]
      BY <2>15 DEF Fire, TypeOK, ReminderStatus
    <3>3. faults' \in 0 .. MaxFaults
      BY <2>15 DEF Fire, Attempted, Missed, TypeOK
    <3> QED
      BY <2>15, <3>1, <3>2, <3>3 DEF Fire, TypeOK, outside, records
  <2>16. CASE CallFails(w)
    <3>1. PICK k \in Keys \cup {NoKey} : sweep' = [sweep EXCEPT ![w] = Threw(@, k)]
      BY <2>16 DEF CallFails, SettingsUnread
    <3>2. Threw(sweep[w], k) \in Run
      BY AfterFields, ThrewCases, IdleRun
    <3> QED
      BY <2>16, <3>1, <3>2 DEF CallFails, SettingsUnread, Missed, TypeOK, outside, records
  <2>17. CASE Die(w)
    BY <2>17, IdleRun DEF Die, Missed, TypeOK, outside, records
  <2>18. CASE ProfileUnread(w)
    <3>1. PICK k \in sweep[w].todo :
            sweep' = [sweep EXCEPT ![w] = After(@, k)] /\ unread' = unread \cup ({k} \cap Reminders)
      BY <2>18 DEF ProfileUnread
    <3>2. After(sweep[w], k) \in Run
      BY AfterFields
    <3>3. unread' \in SUBSET Reminders
      BY <3>1 DEF TypeOK
    <3> QED
      BY <2>18, <3>1, <3>2, <3>3 DEF ProfileUnread, Missed, TypeOK, outside
  <2> QED
    BY <1>2, <2>1, <2>2, <2>3, <2>4, <2>5, <2>6, <2>7, <2>8, <2>10, <2>11, <2>12, <2>13, <2>14,
       <2>15, <2>16, <2>17, <2>18 DEF SweepStep
<1>3. CASE UNCHANGED vars
  BY <1>3 DEF vars, TypeOK
<1> QED
  BY <1>1, <1>2, <1>3 DEF Next

\* The types hold in every reachable state.
THEOREM TypeCorrect == Spec => []TypeOK
<1> QED
  BY TypeInit, TypeStep, PTL DEF Spec

-----------------------------------------------------------------------------
(* What a step of one sweep leaves in place *)

\* The sweep's own new record must not claim more than the old one did.
LEMMA ClaimKept ==
  ASSUME ClaimInv, NEW w \in Sweeps,
         \A v \in Sweeps : v # w => sweep'[v] = sweep[v],
         UNCHANGED <<delivery, handed>>,
         \A k \in Keys : Busy(w, k)' =>
           Busy(w, k) /\ (sweep'[w].step = "receipts" <=> sweep[w].step = "receipts")
  PROVE  ClaimInv'
<1>1. \A v \in Sweeps, k \in Keys : Busy(v, k)' =>
        Busy(v, k) /\ (sweep'[v].step = "receipts" <=> sweep[v].step = "receipts")
  BY DEF Busy, Running
<1>2. (\A u, v \in Sweeps, k \in Keys : Busy(u, k) /\ Busy(v, k) => u = v)'
  BY <1>1 DEF ClaimInv
<1>3. (\A v \in Sweeps, k \in Keys : Busy(v, k) =>
        delivery[k] = "claimed" /\ handed[k] = (IF sweep[v].step = "receipts" THEN 1 ELSE 0))'
  BY <1>1 DEF ClaimInv
<1>4. (\A k \in Keys : handed[k] \in {0, 1} /\ (delivery[k] = "absent" => handed[k] = 0))' /\ MarksAreTrue'
  BY DEF ClaimInv, MarksAreTrue
<1> QED
  BY <1>2, <1>3, <1>4 DEF ClaimInv

\* The sweep must hold no new reminder and bring no new mark.
LEMMA MomentKept ==
  ASSUME MomentInv, NEW w \in Sweeps,
         \A v \in Sweeps : v # w => sweep'[v] = sweep[v],
         now' = now, reminder' = reminder,
         \A k \in Keys : delivery[k] # "absent" => delivery'[k] # "absent",
         hushed \subseteq hushed', unread \subseteq unread',
         sweep'[w].now <= now,
         \A r \in Reminders : Holds(w, r)' => Holds(w, r),
         At(w, "fire")' => sweep'[w].msg \in Reminders /\
           (delivery'[sweep'[w].msg] # "absent" \/ sweep'[w].msg \in hushed' \cup unread')
  PROVE  MomentInv'
<1>1. (\A v \in Sweeps : sweep[v].now <= now)'
  BY DEF MomentInv
<1>2. \A v \in Sweeps, r \in Reminders : Holds(v, r)' => Holds(v, r)
  BY DEF Holds, Running
<1>3. (\A v \in Sweeps, r \in Reminders : Holds(v, r) => reminder[r].status # "absent" /\ reminder[r].at <= now)'
  BY <1>2 DEF MomentInv
<1>4. Reminders \subseteq Keys
  BY DEF Keys
<1>5. (\A v \in Sweeps : At(v, "fire") =>
        sweep[v].msg \in Reminders /\ Answered(sweep[v].msg))'
  <2> SUFFICES ASSUME NEW v \in Sweeps, At(v, "fire")'
      PROVE  sweep'[v].msg \in Reminders /\ (delivery'[sweep'[v].msg] # "absent" \/ sweep'[v].msg \in hushed' \cup unread')
    BY DEF Answered
  <2>1. CASE v = w
    BY <2>1
  <2>2. CASE v # w
    BY <2>2, <1>4 DEF MomentInv, At, Answered
  <2> QED
    BY <2>1, <2>2
<1>6. FiredHadItsMoment'
  BY <1>4 DEF MomentInv, FiredHadItsMoment, Answered
<1> QED
  BY <1>1, <1>3, <1>5, <1>6 DEF MomentInv

\* A sweep that reads no rows and shows nothing.
LEMMA RowKept ==
  ASSUME RowInv, NEW w \in Sweeps,
         \A v \in Sweeps : v # w => sweep'[v] = sweep[v],
         UNCHANGED <<phone, shown, handed>>,
         \A d \in DeviceIds : tokenRow'[d].token = tokenRow[d].token,
         sweep'[w].rows \subseteq sweep[w].rows
  PROVE  RowInv'
  BY DEF RowInv

\* Nothing but the world around the sweeps changes.
LEMMA SweepsKept ==
  ASSUME UNCHANGED <<sweep, delivery, handed, shown, hushed, unread>>, MsgInv, ClaimInv
  PROVE  MsgInv' /\ ClaimInv'
  BY DEF MsgInv, ClaimInv, Busy, Running, MarksAreTrue

-----------------------------------------------------------------------------
(* The steps *)

\* Nothing is held, claimed or shown at the start.
LEMMA InitInv == Init => IInv
<1> SUFFICES ASSUME Init PROVE IInv
  OBVIOUS
<1>1. \A w \in Sweeps : ~Running(w) /\ sweep[w].now = 0 /\ sweep[w].rows = {}
  BY DEF Init, Idle, Running
<1>2. MsgInv /\ ClaimInv
  BY <1>1 DEF Init, MsgInv, ClaimInv, Busy, MarksAreTrue
<1>3. MomentInv
  BY <1>1 DEF Init, MomentInv, Holds, At, Running, FiredHadItsMoment, Answered
<1>4. RowInv
  BY <1>1 DEF Init, RowInv, NoToken
<1> QED
  BY <1>2, <1>3, <1>4, TypeInit DEF IInv

\* The user, the phone and the clock.
LEMMA EnvironmentStep == IInv /\ Environment => MsgInv' /\ ClaimInv' /\ MomentInv' /\ (StableId => RowInv')
<1> SUFFICES ASSUME IInv, Environment
    PROVE  MsgInv' /\ ClaimInv' /\ MomentInv' /\ (StableId => RowInv')
  OBVIOUS
<1>0. MsgInv' /\ ClaimInv'
  BY SweepsKept DEF IInv, Environment, Tick, ChangeSettings, IssueToken, Register, SignOut,
     CancelReminder, SetReminder, SyncMeeting, outside, records
<1> USE DEF IInv
<1>1. CASE Tick
  <2>1. now' = now + 1 /\ now \in Int
    BY <1>1, BoundsAssumption DEF Tick, TypeOK, Times
  <2>2. \A w \in Sweeps : sweep[w].now \in Int
    BY BoundsAssumption DEF TypeOK, Run, Times
  <2>3. \A r \in Reminders : reminder[r].at \in Int
    BY BoundsAssumption DEF TypeOK, Times
  <2>4. MomentInv'
    BY <1>1, <2>1, <2>2, <2>3 DEF Tick, MomentInv, Holds, At, Running, FiredHadItsMoment, Answered, records
  <2> QED
    BY <1>0, <1>1, <2>4 DEF Tick, RowInv, records
<1>2. CASE ChangeSettings \/ IssueToken \/ SignOut \/ (\E m \in Meetings, at \in (now .. Horizon) \cup {Never} : SyncMeeting(m, at))
  <2>1. UNCHANGED <<now, reminder, tokenRow, delivery, sweep, handed, shown, hushed, unread>> /\ phone'.id \in {phone.id, NoId}
    BY <1>2 DEF ChangeSettings, IssueToken, SignOut, SyncMeeting, records, TypeOK
  <2>2. MomentInv'
    BY <2>1 DEF MomentInv, Holds, At, Running, FiredHadItsMoment, Answered
  <2>3. StableId => RowInv'
    BY <2>1 DEF RowInv
  <2> QED
    BY <1>0, <2>2, <2>3
<1>3. CASE Register
  <2>1. PICK d \in DeviceIds, heard \in BOOLEAN :
          /\ d \in (IF phone.id = NoId THEN NewId ELSE {phone.id})
          /\ tokenRow' = [tokenRow EXCEPT ![d] = [token |-> phone.live, disabled |-> FALSE]]
          /\ phone' = [phone EXCEPT !.id = d, !.registered = IF heard THEN phone.live ELSE @]
    BY <1>3, PhoneAssumption DEF Register, NewId, PlatformId, TypeOK
  <2>2. UNCHANGED <<now, reminder, delivery, sweep, handed, shown, hushed, unread>>
    BY <1>3 DEF Register, records
  <2>3. MomentInv'
    BY <2>2 DEF MomentInv, Holds, At, Running, FiredHadItsMoment, Answered
  <2>4. StableId /\ RowInv => d = PlatformId
    BY <2>1 DEF RowInv, NewId
  <2>5. phone'.id = d
    BY <2>1 DEF TypeOK
  <2>6. \A e \in DeviceIds : e # d => tokenRow'[e] = tokenRow[e]
    BY <2>1 DEF TypeOK
  <2>7. StableId => RowInv'
    BY <2>2, <2>4, <2>5, <2>6 DEF RowInv
  <2> QED
    BY <1>0, <2>3, <2>7
<1>4. ASSUME NEW r \in Reminders, NEW at \in Times,
             CancelReminder(r) \/ SetReminder(r, at)
      PROVE  MomentInv' /\ (StableId => RowInv')
  <2>1. UNCHANGED <<now, tokenRow, phone, delivery, sweep, handed, shown, hushed, unread>>
    BY <1>4 DEF CancelReminder, SetReminder, outside, records
  <2>2. \A q \in Reminders : reminder[q].status # "absent" =>
          reminder'[q].at = reminder[q].at /\ reminder'[q].status \in {reminder[q].status, "cancelled"}
    BY <1>4 DEF CancelReminder, SetReminder, TypeOK
  <2>3. \A q \in Reminders : reminder[q].status = "absent" => reminder'[q].status \in {"absent", "scheduled"}
    BY <1>4 DEF CancelReminder, SetReminder, TypeOK
  <2>4. (\A w \in Sweeps : sweep[w].now <= now)'
    BY <2>1 DEF MomentInv
  <2>5. (\A w \in Sweeps, q \in Reminders : Holds(w, q) => reminder[q].status # "absent" /\ reminder[q].at <= now)'
    BY <2>1, <2>2 DEF MomentInv, Holds, Running
  <2>6. (\A w \in Sweeps : At(w, "fire") =>
          sweep[w].msg \in Reminders /\ Answered(sweep[w].msg))'
    BY <2>1 DEF MomentInv, At, Answered
  <2>7. FiredHadItsMoment'
    BY <2>1, <2>2, <2>3 DEF MomentInv, FiredHadItsMoment, Answered
  <2>8. MomentInv'
    BY <2>4, <2>5, <2>6, <2>7 DEF MomentInv
  <2>9. StableId => RowInv'
    BY <2>1 DEF RowInv
  <2> QED
    BY <2>8, <2>9
<1>5. now .. Horizon \subseteq Times /\ now \in Times
  <2>1. now \in Times
    BY DEF TypeOK
  <2> QED
    BY <2>1, BoundsAssumption DEF Times
<1> QED
  BY <1>0, <1>1, <1>2, <1>3, <1>4, <1>5 DEF Environment

\* A step of a sweep that only moves on: it holds no claim afterwards, or the one
\* it held at the same side of the hand-over.
LEMMA QuietStep ==
  ASSUME IInv, NEW w \in Sweeps,
         \/ Start(w) \/ SelectReminders(w) \/ SelectMeetings(w) \/ Finish(w) \/ SkipBriefing(w)
         \/ LoadSettings(w) \/ ProfileUnread(w) \/ LoadTokens(w) \/ DisableToken(w) \/ CallFails(w) \/ Die(w)
  PROVE  MsgInv' /\ ClaimInv' /\ MomentInv' /\ (StableId => RowInv')
<1> USE DEF IInv
<1> sweep[w] \in Run
  BY DEF TypeOK
<1> Reminders \subseteq Keys
  BY DEF Keys
<1>1. \A v \in Sweeps : v # w => sweep'[v] = sweep[v]
  BY DEF TypeOK, Start, SelectReminders, SelectMeetings, Finish, SkipBriefing, LoadSettings,
     LoadTokens, DisableToken, ProfileUnread, CallFails, SettingsUnread, Die
<1>2. UNCHANGED <<now, reminder, phone, delivery, handed, shown>> /\ hushed \subseteq hushed' /\ unread \subseteq unread'
  BY DEF Start, SelectReminders, SelectMeetings, Finish, SkipBriefing, LoadSettings,
     LoadTokens, DisableToken, ProfileUnread, CallFails, SettingsUnread, Die, outside, records
<1>3. \A d \in DeviceIds : tokenRow'[d].token = tokenRow[d].token
  BY DEF TypeOK, Start, SelectReminders, SelectMeetings, Finish, SkipBriefing, LoadSettings,
     LoadTokens, DisableToken, ProfileUnread, CallFails, SettingsUnread, Die
<1>4. sweep[w].now <= now /\ now <= now
  BY BoundsAssumption DEF MomentInv, TypeOK, Times
\* The new record of w, and what the rest of the invariant needs of it.
<1> DEFINE Quiet ==
      /\ sweep'[w].now \in {sweep[w].now, now, 0}
      /\ sweep'[w].phase # "idle" /\ sweep'[w].step # "next" => sweep'[w].msg \in Keys
      /\ \A k \in Keys : Busy(w, k)' =>
           Busy(w, k) /\ (sweep'[w].step = "receipts" <=> sweep[w].step = "receipts")
      /\ \A r \in Reminders : Holds(w, r)' =>
           Holds(w, r) \/ (reminder[r].status # "absent" /\ reminder[r].at <= now)
      /\ At(w, "fire")' => sweep'[w].msg \in Reminders /\
           (delivery[sweep'[w].msg] # "absent" \/ sweep'[w].msg \in hushed' \cup unread')
<1>5. ASSUME NEW k \in Keys \cup {NoKey}, sweep'[w] = After(sweep[w], k), Running(w),
             k \in sweep[w].todo \/ (sweep[w].step # "next" /\ sweep[w].msg = k),
             k \in Reminders => delivery[k] # "absent" \/ k \in hushed' \cup unread'
      PROVE  Quiet /\ sweep'[w].rows = {}
  BY <1>5, AfterFields DEF Busy, Running, Holds, At
<1>6. ASSUME sweep'[w] = Idle PROVE Quiet /\ sweep'[w].rows = {}
  BY <1>6 DEF Idle, Busy, Running, Holds, At
<1>7. Quiet /\ (StableId => RowInv')
  <2>1. CASE Start(w)
    <3>1. sweep'[w] = [Idle EXCEPT !.phase = "briefings", !.now = now, !.todo = {k \in Kinds : JustPassed(k)}]
      BY <2>1 DEF Start, TypeOK
    <3>2. Quiet
      BY <3>1, KeysAssumption DEF Idle, Busy, Running, Holds, At
    <3>3. sweep'[w].rows = {}
      BY <3>1 DEF Idle
    <3> QED
      BY <3>2, <3>3, <1>1, <1>2, <1>3, RowKept
  <2>2. CASE SelectReminders(w)
    <3>1. PICK page \in Page({r \in Reminders : Due(r, sweep[w].now)}) :
            sweep' = [sweep EXCEPT ![w].phase = "reminders", ![w].todo = page]
      BY <2>2 DEF SelectReminders
    <3>2. sweep'[w] = [sweep[w] EXCEPT !.phase = "reminders", !.todo = page]
      BY <3>1 DEF TypeOK
    <3>3. \A r \in page : r \in Reminders /\ reminder[r].status # "absent" /\ reminder[r].at <= sweep[w].now
      BY PageSubset DEF Due
    <3>4. \A r \in page : reminder[r].at <= now
      BY <1>4, <3>3, BoundsAssumption DEF TypeOK, Run, Times
    <3>5. sweep[w].step = "next" /\ sweep[w].phase = "briefings"
      BY <2>2 DEF SelectReminders, Exhausted
    <3>6. Quiet /\ sweep'[w].rows = sweep[w].rows
      BY <3>2, <3>3, <3>4, <3>5 DEF Run, Busy, Running, Holds, At
    <3> QED
      BY <3>6, <1>1, <1>2, <1>3, RowKept
  <2>3. CASE SelectMeetings(w)
    <3>1. PICK page \in Page({m \in Meetings : Soon(m, sweep[w].now)}) :
            sweep' = [sweep EXCEPT ![w].phase = "meetings", ![w].todo = page]
      BY <2>3 DEF SelectMeetings
    <3>2. sweep'[w] = [sweep[w] EXCEPT !.phase = "meetings", !.todo = page]
      BY <3>1 DEF TypeOK
    <3>3. page \subseteq Meetings
      BY PageSubset
    <3>5. sweep[w].step = "next" /\ sweep[w].phase = "reminders"
      BY <2>3 DEF SelectMeetings, Exhausted
    <3>6. Quiet /\ sweep'[w].rows = sweep[w].rows
      BY <3>2, <3>3, <3>5, KeysAssumption DEF Run, Busy, Running, Holds, At
    <3> QED
      BY <3>6, <1>1, <1>2, <1>3, RowKept
  <2>4. CASE Finish(w) \/ Die(w)
    <3>1. sweep'[w] = Idle
      BY <2>4 DEF Finish, Die, TypeOK
    <3> QED
      BY <3>1, <1>6, <1>1, <1>2, <1>3, RowKept
  <2>5. CASE SkipBriefing(w)
    <3>1. PICK k \in sweep[w].todo \cap Kinds : sweep' = [sweep EXCEPT ![w] = After(@, k)]
      BY <2>5 DEF SkipBriefing
    <3>2. sweep'[w] = After(sweep[w], k) /\ k \in Keys /\ k \notin Reminders /\ Running(w)
      BY <2>5, <3>1, KeysAssumption DEF SkipBriefing, At, Running, TypeOK, Run
    <3>3. Quiet /\ sweep'[w].rows = {}
      BY <3>1, <3>2, <1>5
    <3> QED
      BY <3>3, <1>1, <1>2, <1>3, RowKept
  <2>6. CASE LoadSettings(w)
    <3>1. PICK k \in sweep[w].todo :
            \/ sweep' = [sweep EXCEPT ![w] = After(@, k)] /\ hushed' = hushed \cup ({k} \cap Reminders)
            \/ sweep' = [sweep EXCEPT ![w].step = "claim", ![w].msg = k] /\ UNCHANGED hushed
      BY <2>6 DEF LoadSettings
    <3>2. k \in Keys /\ Running(w) /\ sweep[w].step = "next"
      BY <2>6 DEF LoadSettings, At, Running, Run
    <3>3. CASE sweep'[w] = After(sweep[w], k) /\ hushed' = hushed \cup ({k} \cap Reminders)
      <4>1. Quiet /\ sweep'[w].rows = {}
        BY <3>2, <3>3, <1>5
      <4> QED
        BY <4>1, <1>1, <1>2, <1>3, RowKept
    <3>4. CASE sweep'[w] = [sweep[w] EXCEPT !.step = "claim", !.msg = k]
      <4>1. Quiet /\ sweep'[w].rows = sweep[w].rows
        BY <3>2, <3>4 DEF Run, Busy, Running, Holds, At
      <4> QED
        BY <4>1, <1>1, <1>2, <1>3, RowKept
    <3>5. \/ sweep'[w] = After(sweep[w], k) /\ hushed' = hushed \cup ({k} \cap Reminders)
          \/ sweep'[w] = [sweep[w] EXCEPT !.step = "claim", !.msg = k]
      BY <3>1 DEF TypeOK
    <3> QED
      BY <3>3, <3>4, <3>5
  <2>7. CASE LoadTokens(w)
    <3> DEFINE rows == {<<d, tokenRow[d].token>> : d \in {e \in DeviceIds : Enabled(e)}}
    <3>1. sweep'[w] = (IF rows = {} THEN After(sweep[w], sweep[w].msg) ELSE [sweep[w] EXCEPT !.step = "post", !.rows = rows])
      BY <2>7 DEF LoadTokens, TypeOK
    <3>2. Running(w) /\ sweep[w].step = "tokens" /\ sweep[w].msg \in Keys
      BY <2>7 DEF LoadTokens, At, Running, MsgInv
    <3>3. delivery[sweep[w].msg] # "absent"
      BY <3>2 DEF ClaimInv, Busy
    <3>4. StableId => \A x, y \in rows : x = y
      BY DEF RowInv, Enabled
    <3>5. CASE sweep'[w] = After(sweep[w], sweep[w].msg)
      <4>1. Quiet /\ sweep'[w].rows = {}
        BY <3>2, <3>3, <3>5, <1>5
      <4> QED
        BY <4>1, <1>1, <1>2, <1>3, RowKept
    <3>6. CASE sweep'[w] = [sweep[w] EXCEPT !.step = "post", !.rows = rows]
      <4> HIDE DEF rows
      <4>1. sweep'[w].phase = sweep[w].phase /\ sweep'[w].now = sweep[w].now /\ sweep'[w].todo = sweep[w].todo
            /\ sweep'[w].msg = sweep[w].msg /\ sweep'[w].step = "post" /\ sweep'[w].rows = rows
        BY <3>6 DEF Run
      <4>2. Quiet
        BY <3>2, <4>1 DEF Busy, Running, Holds, At
      <4>3. StableId => RowInv'
        BY <3>4, <4>1, <1>1, <1>2, <1>3 DEF RowInv
      <4> QED
        BY <4>2, <4>3
    <3> QED
      BY <3>1, <3>5, <3>6
  <2>8. CASE DisableToken(w)
    <3>1. PICK d \in sweep[w].dead : sweep' = [sweep EXCEPT ![w].dead = @ \ {d}]
      BY <2>8 DEF DisableToken
    <3>2. sweep'[w] = [sweep[w] EXCEPT !.dead = @ \ {d}]
      BY <3>1 DEF TypeOK
    <3>3. Running(w) /\ sweep[w].step = "receipts"
      BY <2>8 DEF DisableToken, At, Running
    <3>4. sweep[w].msg \in Keys
      BY <3>3 DEF MsgInv
    <3>5. Quiet /\ sweep'[w].rows = sweep[w].rows
      BY <3>2, <3>3, <3>4 DEF Run, Busy, Running, Holds, At
    <3> QED
      BY <3>5, <1>1, <1>2, <1>3, RowKept
  <2>9. CASE CallFails(w)
    <3>1. PICK k : sweep' = [sweep EXCEPT ![w] = Threw(@, k)] /\ Running(w) /\
            (k \in sweep[w].todo \/ (sweep[w].step # "next" /\ sweep[w].msg = k))
      BY <2>9 DEF CallFails, SettingsUnread, At, Running
    <3>2. k \in Keys
      BY <3>1 DEF Run, MsgInv
    <3>3. sweep'[w] = Threw(sweep[w], k)
      BY <3>1 DEF TypeOK
    <3>4. CASE sweep'[w] = Idle
      BY <3>4, <1>6, <1>1, <1>2, <1>3, RowKept
    <3>5. CASE sweep'[w] = After(sweep[w], k) /\ k \in Kinds
      <4>1. Quiet /\ sweep'[w].rows = {}
        BY <3>1, <3>2, <3>5, <1>5, KeysAssumption
      <4> QED
        BY <4>1, <1>1, <1>2, <1>3, RowKept
    <3> QED
      BY <3>3, <3>4, <3>5 DEF Threw
  <2>10. CASE ProfileUnread(w)
    <3>1. PICK k \in sweep[w].todo :
            sweep' = [sweep EXCEPT ![w] = After(@, k)] /\ unread' = unread \cup ({k} \cap Reminders)
      BY <2>10 DEF ProfileUnread
    <3>2. k \in Keys /\ Running(w) /\ sweep'[w] = After(sweep[w], k)
      BY <2>10, <3>1 DEF ProfileUnread, At, Running, Run, TypeOK
    <3>3. Quiet /\ sweep'[w].rows = {}
      BY <3>1, <3>2, <1>5
    <3> QED
      BY <3>3, <1>1, <1>2, <1>3, RowKept
  <2> QED
    BY <2>1, <2>2, <2>3, <2>4, <2>5, <2>6, <2>7, <2>8, <2>9, <2>10
<1> HIDE DEF Quiet
<1>8. MsgInv'
  BY <1>1, <1>7 DEF MsgInv, Quiet, Running
<1>9. ClaimInv'
  BY <1>1, <1>2, <1>7, ClaimKept DEF Quiet
<1>10. MomentInv'
  <2>1. (\A v \in Sweeps : sweep[v].now <= now)'
    BY <1>1, <1>2, <1>4, <1>7, BoundsAssumption DEF MomentInv, Quiet, TypeOK, Times
  <2>2. (\A v \in Sweeps, r \in Reminders : Holds(v, r) => reminder[r].status # "absent" /\ reminder[r].at <= now)'
    <3> SUFFICES ASSUME NEW v \in Sweeps, NEW r \in Reminders, Holds(v, r)'
        PROVE  reminder'[r].status # "absent" /\ reminder'[r].at <= now'
      OBVIOUS
    <3>1. CASE v = w
      BY <3>1, <1>2, <1>7 DEF MomentInv, Quiet
    <3>2. CASE v # w
      BY <3>2, <1>1, <1>2 DEF MomentInv, Holds, Running
    <3> QED
      BY <3>1, <3>2
  <2>3. (\A v \in Sweeps : At(v, "fire") =>
          sweep[v].msg \in Reminders /\ Answered(sweep[v].msg))'
    BY <1>1, <1>2, <1>7 DEF MomentInv, Quiet, At, Answered
  <2>4. FiredHadItsMoment'
    BY <1>2 DEF MomentInv, FiredHadItsMoment, Answered
  <2> QED
    BY <2>1, <2>2, <2>3, <2>4 DEF MomentInv
<1> QED
  BY <1>7, <1>8, <1>9, <1>10

\* After a step of w that leaves the message it holds.
LEMMA LeaveStep ==
  ASSUME IInv, NEW w \in Sweeps, Running(w), sweep[w].step # "next",
         \/ sweep'[w] = After(sweep[w], sweep[w].msg)
         \/ sweep'[w] = Idle
  PROVE  /\ sweep'[w].now <= now
         /\ sweep'[w].rows = {}
         /\ sweep'[w].step # "next" => sweep'[w].msg \in Keys
         /\ \A k \in Keys : ~Busy(w, k)'
         /\ \A r \in Reminders : Holds(w, r)' => Holds(w, r)
         /\ At(w, "fire")' => sweep'[w].msg \in Reminders /\ sweep'[w].msg = sweep[w].msg
<1> sweep[w] \in Run
  BY DEF IInv, TypeOK
<1>1. sweep[w].msg \in Keys
  BY DEF IInv, MsgInv
<1>2. sweep[w].now <= now /\ 0 <= now
  BY BoundsAssumption DEF IInv, MomentInv, TypeOK, Times
<1>3. CASE sweep'[w] = After(sweep[w], sweep[w].msg)
  BY <1>1, <1>2, <1>3, AfterFields DEF Busy, Running, Holds, At, Keys
<1>4. CASE sweep'[w] = Idle
  BY <1>2, <1>4 DEF Idle, Busy, Running, Holds, At
<1> QED
  BY <1>3, <1>4

\* The claim: of all sweeps only w gets past it.
LEMMA ClaimStep ==
  ASSUME IInv, NEW w \in Sweeps, Claim(w)
  PROVE  MsgInv' /\ ClaimInv' /\ MomentInv' /\ (StableId => RowInv')
<1> DEFINE k == sweep[w].msg
<1> USE DEF IInv
<1> sweep[w] \in Run
  BY DEF TypeOK
<1>1. Running(w) /\ sweep[w].step = "claim" /\ k \in Keys
  BY DEF Claim, At, Running, MsgInv
<1>2. \A v \in Sweeps : v # w => sweep'[v] = sweep[v]
  BY DEF Claim, TypeOK
<1>3. UNCHANGED <<now, reminder, phone, tokenRow, handed, shown, hushed, unread>>
  BY DEF Claim, outside, records
<1>4. CASE delivery[k] = "absent"
  <2>1. delivery' = [delivery EXCEPT ![k] = "claimed"]
    BY <1>4 DEF Claim
  <2>2. sweep'[w] = [sweep[w] EXCEPT !.step = "tokens"]
    BY <1>4 DEF Claim, TypeOK
  <2>3. \A q \in Keys : delivery'[q] = (IF q = k THEN "claimed" ELSE delivery[q])
    BY <2>1 DEF TypeOK
  <2>4. \A v \in Sweeps : ~Busy(v, k)
    BY <1>1, <1>4 DEF ClaimInv
  <2>5. \A q \in Keys : Busy(w, q)' => q = k
    BY <2>2 DEF Busy, Run
  <2>6. \A v \in Sweeps, q \in Keys : v # w => (Busy(v, q)' <=> Busy(v, q))
    BY <1>2 DEF Busy, Running
  <2>7. handed[k] = 0
    BY <1>1, <1>4 DEF ClaimInv
  <2>8. (\A u, v \in Sweeps, q \in Keys : Busy(u, q) /\ Busy(v, q) => u = v)'
    BY <2>4, <2>5, <2>6 DEF ClaimInv
  <2>9. (\A v \in Sweeps, q \in Keys : Busy(v, q) =>
          delivery[q] = "claimed" /\ handed[q] = (IF sweep[v].step = "receipts" THEN 1 ELSE 0))'
    <3> SUFFICES ASSUME NEW v \in Sweeps, NEW q \in Keys, Busy(v, q)'
        PROVE  delivery'[q] = "claimed" /\ handed'[q] = (IF sweep'[v].step = "receipts" THEN 1 ELSE 0)
      OBVIOUS
    <3>1. CASE v = w
      BY <3>1, <1>3, <2>2, <2>3, <2>5, <2>7 DEF Run
    <3>2. CASE v # w
      BY <3>2, <1>2, <1>3, <2>3, <2>6 DEF ClaimInv
    <3> QED
      BY <3>1, <3>2
  <2>10. (\A q \in Keys : handed[q] \in {0, 1} /\ (delivery[q] = "absent" => handed[q] = 0))' /\ MarksAreTrue'
    BY <1>3, <2>3 DEF ClaimInv, MarksAreTrue
  <2>11. ClaimInv'
    BY <2>8, <2>9, <2>10 DEF ClaimInv
  <2>12. MsgInv'
    BY <1>1, <1>2, <2>2 DEF MsgInv, Running, Run
  <2>13. sweep'[w].now = sweep[w].now /\ sweep'[w].rows = sweep[w].rows /\ ~At(w, "fire")'
    BY <2>2 DEF Run, At
  <2>14. \A r \in Reminders : Holds(w, r)' => Holds(w, r)
    BY <1>1, <2>2 DEF Run, Holds, Running
  <2>15. \A q \in Keys : delivery[q] # "absent" => delivery'[q] # "absent"
    BY <2>3
  <2>16. MomentInv'
    BY <1>2, <1>3, <2>13, <2>14, <2>15, MomentKept DEF MomentInv
  <2>17. StableId => RowInv'
    BY <1>2, <1>3, <2>13, RowKept
  <2> QED
    BY <2>11, <2>12, <2>16, <2>17
<1>5. CASE delivery[k] # "absent"
  <2>1. sweep'[w] = After(sweep[w], k) /\ delivery' = delivery
    BY <1>5 DEF Claim, TypeOK
  <2>2. /\ sweep'[w].now <= now
        /\ sweep'[w].rows = {}
        /\ sweep'[w].step # "next" => sweep'[w].msg \in Keys
        /\ \A q \in Keys : ~Busy(w, q)'
        /\ \A r \in Reminders : Holds(w, r)' => Holds(w, r)
        /\ At(w, "fire")' => sweep'[w].msg \in Reminders /\ sweep'[w].msg = k
    BY <1>1, <2>1, LeaveStep
  <2>3. MsgInv'
    BY <1>2, <2>2 DEF MsgInv, Running
  <2>4. ClaimInv'
    BY <1>2, <1>3, <2>1, <2>2, ClaimKept
  <2>5. MomentInv'
    BY <1>2, <1>3, <1>5, <2>1, <2>2, MomentKept
  <2>6. StableId => RowInv'
    BY <1>2, <1>3, <2>2, RowKept
  <2> QED
    BY <2>3, <2>4, <2>5, <2>6
<1> QED
  BY <1>4, <1>5

\* A sweep that changes the mark or the hand-over of the message whose claim it
\* holds disturbs no other sweep.
LEMMA OwnStep ==
  ASSUME IInv, NEW w \in Sweeps, NEW k \in Keys, Busy(w, k),
         \A v \in Sweeps : v # w => sweep'[v] = sweep[v],
         \A q \in Keys : q # k => delivery'[q] = delivery[q] /\ handed'[q] = handed[q],
         delivery'[k] \in {"claimed", "failed", "sent"}, handed'[k] \in {0, 1},
         delivery'[k] = "failed" => handed'[k] = 0,
         delivery'[k] = "sent" => handed'[k] = 1,
         \A q \in Keys : Busy(w, q)' =>
           q = k /\ delivery'[k] = "claimed" /\ handed'[k] = (IF sweep'[w].step = "receipts" THEN 1 ELSE 0)
  PROVE  ClaimInv'
<1> USE DEF IInv
<1>1. \A v \in Sweeps : v # w => ~Busy(v, k)
  BY DEF ClaimInv
<1>2. \A v \in Sweeps, q \in Keys : v # w => (Busy(v, q)' <=> Busy(v, q))
  BY DEF Busy, Running
<1>3. (\A u, v \in Sweeps, q \in Keys : Busy(u, q) /\ Busy(v, q) => u = v)'
  BY <1>1, <1>2 DEF ClaimInv
<1>4. (\A v \in Sweeps, q \in Keys : Busy(v, q) =>
        delivery[q] = "claimed" /\ handed[q] = (IF sweep[v].step = "receipts" THEN 1 ELSE 0))'
  <2> SUFFICES ASSUME NEW v \in Sweeps, NEW q \in Keys, Busy(v, q)'
      PROVE  delivery'[q] = "claimed" /\ handed'[q] = (IF sweep'[v].step = "receipts" THEN 1 ELSE 0)
    OBVIOUS
  <2>1. CASE v = w
    BY <2>1
  <2>2. CASE v # w
    BY <2>2, <1>1, <1>2 DEF ClaimInv
  <2> QED
    BY <2>1, <2>2
<1>5. (\A q \in Keys : handed[q] \in {0, 1} /\ (delivery[q] = "absent" => handed[q] = 0))' /\ MarksAreTrue'
  BY DEF ClaimInv, MarksAreTrue
<1> QED
  BY <1>3, <1>4, <1>5 DEF ClaimInv

\* The hand-over counts once, and once on a phone with one row.
LEMMA HandOverOnce ==
  ASSUME IInv, NEW w \in Sweeps, At(w, "post"), HandOver(w)
  PROVE  /\ Busy(w, sweep[w].msg) /\ sweep[w].msg \in Keys
         /\ handed'[sweep[w].msg] = 1
         /\ \A q \in Keys : q # sweep[w].msg => handed'[q] = handed[q]
         /\ StableId => \A q \in Keys : shown'[q] <= handed'[q]
<1> DEFINE k == sweep[w].msg
           n == Cardinality({x \in sweep[w].rows : x[2] = phone.live})
<1> USE DEF IInv
<1>1. Busy(w, k) /\ k \in Keys
  BY DEF At, Busy, Running, MsgInv
<1>2. handed[k] = 0
  BY <1>1 DEF ClaimInv, At
<1>3. handed' = [handed EXCEPT ![k] = @ + 1]
  BY Zenon DEF HandOver
<1>4. handed'[k] = 1 /\ \A q \in Keys : q # k => handed'[q] = handed[q]
  BY <1>1, <1>2, <1>3 DEF TypeOK
<1>5. shown' = [shown EXCEPT ![k] = @ + n]
  BY Zenon DEF HandOver
<1>6. ASSUME StableId PROVE n \in {0, 1}
  <2> DEFINE S == {x \in sweep[w].rows : x[2] = phone.live}
  <2>1. \A x, y \in S : x = y
    BY <1>6 DEF RowInv
  <2>2. S = {} \/ \E x : S = {x}
    BY <2>1
  <2> HIDE DEF S
  <2>3. Cardinality(S) \in {0, 1}
    BY <2>2, FS_EmptySet, FS_Singleton
  <2> QED
    BY <2>3 DEF S
<1> HIDE DEF n
<1>7. StableId => \A q \in Keys : shown'[q] <= handed'[q]
  <2> SUFFICES ASSUME StableId, NEW q \in Keys PROVE shown'[q] <= handed'[q]
    OBVIOUS
  <2>1. shown[q] <= handed[q] /\ shown[q] \in Nat /\ handed[q] \in Nat
    BY DEF RowInv, TypeOK
  <2>2. CASE q = k
    BY <2>1, <2>2, <1>1, <1>2, <1>4, <1>5, <1>6 DEF TypeOK
  <2>3. CASE q # k
    BY <2>1, <2>3, <1>1, <1>4, <1>5 DEF TypeOK
  <2> QED
    BY <2>2, <2>3
<1> QED
  BY <1>1, <1>4, <1>7

\* The hand-over, its refusal and the marks.
LEMMA PostStep ==
  ASSUME IInv, NEW w \in Sweeps,
         PostAccepted(w) \/ PostRefused(w) \/ PostThrew(w) \/ MarkSent(w)
  PROVE  MsgInv' /\ ClaimInv' /\ MomentInv' /\ (StableId => RowInv')
<1> DEFINE k == sweep[w].msg
<1> USE DEF IInv
<1> sweep[w] \in Run
  BY DEF TypeOK
<1>1. Running(w) /\ sweep[w].step \in {"post", "receipts"} /\ k \in Keys /\ Busy(w, k)
  BY DEF PostAccepted, PostRefused, PostThrew, MarkSent, At, Running, MsgInv, Busy
<1>2. \A v \in Sweeps : v # w => sweep'[v] = sweep[v]
  BY DEF TypeOK, PostAccepted, PostRefused, PostThrew, MarkSent
<1>3. UNCHANGED <<now, reminder, phone, tokenRow, hushed, unread>>
  BY DEF PostAccepted, PostRefused, PostThrew, MarkSent, outside, records
<1>4. delivery[k] = "claimed" /\ handed[k] = (IF sweep[w].step = "receipts" THEN 1 ELSE 0)
  BY <1>1 DEF ClaimInv
<1>5. CASE PostAccepted(w)
  <2>1. At(w, "post") /\ HandOver(w) /\ delivery' = delivery
    BY <1>5 DEF PostAccepted
  <2>2. PICK dead : sweep' = [sweep EXCEPT ![w].step = "receipts", ![w].dead = dead]
    BY <1>5 DEF PostAccepted
  <2>3. sweep'[w] = [sweep[w] EXCEPT !.step = "receipts", !.dead = dead]
    BY <2>2 DEF TypeOK
  <2>4. /\ sweep'[w].step = "receipts" /\ sweep'[w].msg = k /\ sweep'[w].now = sweep[w].now
        /\ sweep'[w].todo = sweep[w].todo /\ sweep'[w].rows = sweep[w].rows /\ sweep'[w].phase = sweep[w].phase
    BY <2>3 DEF Run
  <2>5. handed'[k] = 1 /\ (\A q \in Keys : q # k => handed'[q] = handed[q])
        /\ (StableId => \A q \in Keys : shown'[q] <= handed'[q])
    BY <2>1, HandOverOnce
  <2>6. ClaimInv'
    BY <1>1, <1>2, <1>4, <2>1, <2>4, <2>5, OwnStep DEF Busy
  <2>7. MsgInv'
    BY <1>1, <1>2, <2>4 DEF MsgInv, Running
  <2>8. \A r \in Reminders : Holds(w, r)' => Holds(w, r)
    BY <1>1, <2>4 DEF Holds, Running
  <2>9. MomentInv'
    BY <1>2, <1>3, <2>1, <2>4, <2>8, MomentKept DEF MomentInv, At, Answered
  <2>10. StableId => RowInv'
    BY <1>2, <1>3, <2>4, <2>5 DEF RowInv
  <2> QED
    BY <2>6, <2>7, <2>9, <2>10
<1>6. CASE ~PostAccepted(w)
  <2>1. sweep'[w] = After(sweep[w], k) \/ sweep'[w] = Idle
    BY <1>6, ThrewCases DEF PostRefused, PostThrew, MarkSent, TypeOK
  <2>2. /\ sweep'[w].now <= now
        /\ sweep'[w].rows = {}
        /\ sweep'[w].step # "next" => sweep'[w].msg \in Keys
        /\ \A q \in Keys : ~Busy(w, q)'
        /\ \A r \in Reminders : Holds(w, r)' => Holds(w, r)
        /\ At(w, "fire")' => sweep'[w].msg \in Reminders /\ sweep'[w].msg = k
    BY <1>1, <2>1, LeaveStep
  <2>3. /\ delivery'[k] \in {"claimed", "failed", "sent"} /\ handed'[k] \in {0, 1}
        /\ delivery'[k] = "failed" => handed'[k] = 0
        /\ delivery'[k] = "sent" => handed'[k] = 1
        /\ \A q \in Keys : q # k => delivery'[q] = delivery[q] /\ handed'[q] = handed[q]
        /\ StableId => \A q \in Keys : shown'[q] <= handed'[q]
    <3>1. CASE PostRefused(w)
      <4>1. sweep[w].step = "post" /\ UNCHANGED <<handed, shown>>
            /\ (delivery' = [delivery EXCEPT ![k] = "failed"] \/ delivery' = delivery)
        BY <3>1 DEF PostRefused, records, At
      <4> QED
        BY <4>1, <1>1, <1>4 DEF TypeOK, RowInv
    <3>2. CASE PostThrew(w) /\ HandOver(w)
      <4>1. delivery' = delivery /\ At(w, "post")
        BY <3>2 DEF PostThrew
      <4> QED
        BY <4>1, <3>2, <1>4, HandOverOnce
    <3>3. CASE PostThrew(w) /\ UNCHANGED <<handed, shown>>
      BY <3>3, <1>4 DEF PostThrew, RowInv
    <3>4. CASE MarkSent(w)
      <4>1. sweep[w].step = "receipts" /\ UNCHANGED <<handed, shown>>
            /\ (delivery' = [delivery EXCEPT ![k] = "sent"] \/ delivery' = delivery)
        BY <3>4 DEF MarkSent, At, records
      <4> QED
        BY <4>1, <1>1, <1>4 DEF TypeOK, RowInv
    <3> QED
      BY <1>6, <3>1, <3>2, <3>3, <3>4 DEF PostThrew
  <2>4. ClaimInv'
    BY <1>1, <1>2, <2>2, <2>3, OwnStep
  <2>5. MsgInv'
    BY <1>2, <2>2 DEF MsgInv, Running
  <2>6. \A q \in Keys : delivery[q] # "absent" => delivery'[q] # "absent"
    BY <2>3
  <2>7. delivery'[k] # "absent"
    BY <2>3
  <2>8. MomentInv'
    BY <1>2, <1>3, <2>2, <2>6, <2>7, MomentKept
  <2>9. StableId => RowInv'
    BY <1>2, <1>3, <2>2, <2>3 DEF RowInv
  <2> QED
    BY <2>4, <2>5, <2>8, <2>9
<1> QED
  BY <1>5, <1>6

\* The mark of a reminder.
LEMMA FireStep ==
  ASSUME IInv, NEW w \in Sweeps, Fire(w)
  PROVE  MsgInv' /\ ClaimInv' /\ MomentInv' /\ (StableId => RowInv')
<1> DEFINE k == sweep[w].msg
<1> USE DEF IInv
<1> sweep[w] \in Run
  BY DEF TypeOK
<1>1. At(w, "fire") /\ Running(w) /\ k \in Reminders /\ Holds(w, k)
  BY DEF Fire, At, Running, Holds, MomentInv
<1>2. \A v \in Sweeps : v # w => sweep'[v] = sweep[v]
  BY DEF Fire, TypeOK
<1>3. UNCHANGED <<now, phone, tokenRow, delivery, handed, shown, hushed, unread>>
  BY DEF Fire, outside, records
<1>4. sweep'[w] = [sweep[w] EXCEPT !.step = "next", !.msg = NoKey]
  BY DEF Fire, TypeOK
<1>5. /\ sweep'[w].step = "next" /\ sweep'[w].now = sweep[w].now /\ sweep'[w].rows = sweep[w].rows
      /\ sweep'[w].todo = sweep[w].todo /\ sweep'[w].phase = sweep[w].phase
  BY <1>4 DEF Run
<1>6. \A r \in Reminders : reminder'[r].at = reminder[r].at /\
        (reminder'[r].status = reminder[r].status \/ (r = k /\ reminder'[r].status = "fired"))
  BY DEF Fire, TypeOK
<1>7. MsgInv'
  BY <1>2, <1>5 DEF MsgInv, Running
<1>8. ClaimInv'
  BY <1>2, <1>3, <1>5, ClaimKept DEF Busy
<1>9. \A v \in Sweeps, r \in Reminders : Holds(v, r)' => Holds(v, r)
  BY <1>2, <1>5 DEF Holds, Running
<1>10. (\A v \in Sweeps : sweep[v].now <= now)'
  BY <1>2, <1>3, <1>5 DEF MomentInv
<1>11. (\A v \in Sweeps, r \in Reminders : Holds(v, r) => reminder[r].status # "absent" /\ reminder[r].at <= now)'
  BY <1>3, <1>6, <1>9 DEF MomentInv
<1>12. (\A v \in Sweeps : At(v, "fire") =>
          sweep[v].msg \in Reminders /\ Answered(sweep[v].msg))'
  BY <1>2, <1>3, <1>5 DEF MomentInv, At, Answered
<1>13. FiredHadItsMoment'
  BY <1>1, <1>3, <1>6 DEF MomentInv, FiredHadItsMoment, Answered
<1>14. MomentInv'
  BY <1>10, <1>11, <1>12, <1>13 DEF MomentInv
<1>15. StableId => RowInv'
  BY <1>2, <1>3, <1>5, RowKept
<1> QED
  BY <1>7, <1>8, <1>14, <1>15

\* IInv is inductive.
LEMMA InvStep == IInv /\ [Next]_vars => IInv'
<1> SUFFICES ASSUME IInv, [Next]_vars PROVE IInv'
  OBVIOUS
<1>1. TypeOK'
  BY TypeStep DEF IInv
<1>2. CASE Environment
  BY <1>1, <1>2, EnvironmentStep DEF IInv
<1>3. ASSUME NEW w \in Sweeps, Start(w) \/ SweepStep(w) \/ ProfileUnread(w) \/ CallFails(w) \/ Die(w) PROVE IInv'
  BY <1>1, <1>3, QuietStep, ClaimStep, PostStep, FireStep DEF SweepStep, IInv
<1>4. CASE UNCHANGED vars
  <2>1. MsgInv' /\ ClaimInv'
    BY <1>4, SweepsKept DEF vars, IInv
  <2>2. MomentInv' /\ (StableId => RowInv')
    BY <1>4 DEF vars, IInv, MomentInv, Holds, Running, At, FiredHadItsMoment, Answered, RowInv
  <2> QED
    BY <1>1, <2>1, <2>2 DEF IInv
<1> QED
  BY <1>2, <1>3, <1>4 DEF Next

-----------------------------------------------------------------------------
(* Theorems *)

\* Every reachable state satisfies IInv.
THEOREM Invariance == Spec => []IInv
<1> QED
  BY InitInv, InvStep, PTL DEF Spec

\* A fired reminder was due, and sendPush answered for it: it was claimed, held back by
\* the settings, or its owner's profile could not be read.
THEOREM FiredHadItsMomentAlways == Spec => []FiredHadItsMoment
<1>1. IInv => FiredHadItsMoment
  BY DEF IInv, MomentInv
<1> QED
  BY <1>1, Invariance, PTL

\* The marks of a delivery tell whether the provider took it.
THEOREM MarksAreTrueAlways == Spec => []MarksAreTrue
<1>1. IInv => MarksAreTrue
  BY DEF IInv, ClaimInv
<1> QED
  BY <1>1, Invariance, PTL

\* A phone with a stable id shows every notification at most once.
THEOREM ShownOnceAlways == ASSUME StableId PROVE Spec => []ShownOnce
<1>1. IInv => ShownOnce
  <2> SUFFICES ASSUME IInv, NEW k \in Keys PROVE shown[k] <= 1
    BY DEF ShownOnce
  <2>1. shown[k] \in Nat /\ shown[k] <= handed[k] /\ handed[k] \in {0, 1}
    BY DEF IInv, TypeOK, RowInv, ClaimInv
  <2> QED
    BY <2>1
<1> QED
  BY <1>1, Invariance, PTL

\* What a sweep has in hand comes from a select, which a cancelled reminder is not in.
LEMMA NotPickedUp ==
  ASSUME TypeOK, NEW r \in Reminders, reminder[r].status = "cancelled", ~InHand(r),
         NEW w \in Sweeps, Start(w) \/ SweepStep(w) \/ ProfileUnread(w) \/ CallFails(w) \/ Die(w)
  PROVE  ~InHand(r)'
<1> SUFFICES r \notin sweep'[w].todo \cup {sweep'[w].msg} /\ \A v \in Sweeps \ {w} : sweep'[v] = sweep[v]
  BY DEF InHand
<1>1. \A v \in Sweeps \ {w} : sweep'[v] = sweep[v]
  BY DEF TypeOK, Start, SweepStep, SelectReminders, SelectMeetings, Finish, SkipBriefing, LoadSettings,
         Claim, LoadTokens, PostAccepted, PostRefused, PostThrew, DisableToken, MarkSent, Fire, ProfileUnread, CallFails, SettingsUnread, Die
<1>2. r \in Keys /\ r # NoKey /\ r \notin Kinds /\ r \notin Meetings /\ sweep[w] \in Run
  BY KeysAssumption, NoKeyAssumption DEF Keys, TypeOK
<1>3. r \notin sweep[w].todo /\ r # sweep[w].msg
  BY DEF InHand
<1>4. \A rows : \A page \in Page(rows) : page \subseteq rows
  BY DEF Page
<1>5. Idle.todo = {} /\ Idle.msg = NoKey
  BY DEF Idle
<1>6. \A k : /\ After(sweep[w], k).todo \subseteq sweep[w].todo
             /\ After(sweep[w], k).msg \in {k, NoKey}
  BY <1>2 DEF After, Run
<1>7. \A k : /\ Threw(sweep[w], k).todo \subseteq sweep[w].todo
             /\ Threw(sweep[w], k).msg \in {k, NoKey}
  BY <1>5, <1>6 DEF Threw
<1>8. CASE Start(w)
  <2>1. sweep'[w] = [Idle EXCEPT !.phase = "briefings", !.now = now, !.todo = {k \in Kinds : JustPassed(k)}]
    BY <1>8 DEF Start, TypeOK
  <2> QED
    BY <1>1, <1>2, <2>1 DEF Idle
<1>9. CASE SelectReminders(w)
  <2> PICK page \in Page({q \in Reminders : Due(q, sweep[w].now)}) :
        sweep' = [sweep EXCEPT ![w].phase = "reminders", ![w].todo = page]
    BY <1>9 DEF SelectReminders
  <2>1. r \notin page
    BY <1>4 DEF Due
  <2> QED
    BY <1>2, <1>3, <2>1 DEF TypeOK, Run
<1>10. CASE SelectMeetings(w)
  <2> PICK page \in Page({m \in Meetings : Soon(m, sweep[w].now)}) :
        sweep' = [sweep EXCEPT ![w].phase = "meetings", ![w].todo = page]
    BY <1>10 DEF SelectMeetings
  <2>1. r \notin page
    BY <1>2, <1>4
  <2> QED
    BY <1>2, <1>3, <2>1 DEF TypeOK, Run
<1>11. CASE Finish(w) \/ CallFails(w) \/ Die(w)
  BY <1>2, <1>3, <1>5, <1>7, <1>11 DEF Finish, CallFails, SettingsUnread, Die, TypeOK
<1>12. CASE SkipBriefing(w) \/ ProfileUnread(w)
  BY <1>2, <1>3, <1>6, <1>12 DEF SkipBriefing, ProfileUnread, TypeOK
<1>13. CASE LoadSettings(w)
  <2> PICK k \in sweep[w].todo : \/ sweep' = [sweep EXCEPT ![w] = After(@, k)]
                                 \/ sweep' = [sweep EXCEPT ![w].step = "claim", ![w].msg = k]
    BY <1>13 DEF LoadSettings
  <2>1. CASE sweep' = [sweep EXCEPT ![w] = After(@, k)]
    BY <1>2, <1>3, <1>6, <2>1 DEF TypeOK
  <2>2. CASE sweep' = [sweep EXCEPT ![w].step = "claim", ![w].msg = k]
    BY <1>2, <1>3, <2>2 DEF TypeOK, Run
  <2> QED
    BY <2>1, <2>2
<1>14. CASE Claim(w)
  <2>1. CASE sweep' = [sweep EXCEPT ![w] = After(@, sweep[w].msg)]
    BY <1>2, <1>3, <1>6, <2>1 DEF TypeOK
  <2>2. CASE sweep' = [sweep EXCEPT ![w].step = "tokens"]
    BY <1>2, <1>3, <2>2 DEF TypeOK, Run
  <2> QED
    BY <1>14, <2>1, <2>2 DEF Claim
<1>15. CASE LoadTokens(w)
  <2>1. CASE sweep' = [sweep EXCEPT ![w] = After(@, sweep[w].msg)]
    BY <1>2, <1>3, <1>6, <2>1 DEF TypeOK
  <2>2. ASSUME NEW rows, sweep' = [sweep EXCEPT ![w] = [@ EXCEPT !.step = "post", !.rows = rows]]
        PROVE  r \notin sweep'[w].todo \cup {sweep'[w].msg}
    BY <1>2, <1>3, <2>2 DEF TypeOK, Run
  <2> DEFINE found == {<<d, tokenRow[d].token>> : d \in {e \in DeviceIds : Enabled(e)}}
  <2>3. \/ sweep' = [sweep EXCEPT ![w] = After(@, sweep[w].msg)]
        \/ sweep' = [sweep EXCEPT ![w] = [@ EXCEPT !.step = "post", !.rows = found]]
    BY <1>15 DEF LoadTokens
  <2> QED
    BY <1>1, <2>1, <2>2, <2>3
<1>16. CASE PostAccepted(w) \/ DisableToken(w) \/ Fire(w)
  BY <1>2, <1>3, <1>16 DEF PostAccepted, DisableToken, Fire, TypeOK, Run
<1>17. CASE PostRefused(w) \/ MarkSent(w)
  BY <1>2, <1>3, <1>6, <1>17 DEF PostRefused, MarkSent, TypeOK
<1>18. CASE PostThrew(w)
  BY <1>2, <1>3, <1>7, <1>18 DEF PostThrew, TypeOK
<1> QED
  BY <1>1, <1>8, <1>9, <1>10, <1>11, <1>12, <1>13, <1>14, <1>15, <1>16, <1>17, <1>18 DEF SweepStep

\* A reminder its owner cancelled before a sweep picked it up is left alone for good.
THEOREM CancelledStaysAlways == Spec => CancelledStays
<1> DEFINE Kept == \A r \in Reminders :
       reminder[r].status = "cancelled" /\ ~InHand(r)
         => reminder'[r].status = "cancelled" /\ handed'[r] = handed[r] /\ ~InHand(r)'
<1>1. IInv /\ [Next]_vars => [Kept]_vars
  <2> SUFFICES ASSUME IInv, Next, NEW r \in Reminders, reminder[r].status = "cancelled",
                      ~InHand(r)
      PROVE  reminder'[r].status = "cancelled" /\ handed'[r] = handed[r] /\ ~InHand(r)'
    OBVIOUS
  <2>0. \A w \in Sweeps : r \notin sweep[w].todo \cup {sweep[w].msg}
    BY DEF InHand
  <2> USE DEF IInv
  <2>1. ASSUME NEW w \in Sweeps, Start(w) \/ SweepStep(w) \/ ProfileUnread(w) \/ CallFails(w) \/ Die(w)
        PROVE  reminder'[r].status = "cancelled" /\ handed'[r] = handed[r]
    <3>1. CASE PostAccepted(w) \/ PostThrew(w)
      <4>1. reminder' = reminder
        BY <3>1 DEF PostAccepted, PostThrew
      <4>2. handed' = handed \/ (At(w, "post") /\ HandOver(w))
        BY <3>1 DEF PostAccepted, PostThrew
      <4>3. r \in Keys /\ r # sweep[w].msg
        BY <2>0 DEF Keys
      <4>4. ASSUME At(w, "post"), HandOver(w) PROVE handed'[r] = handed[r]
        BY <4>3, <4>4, HandOverOnce
      <4> QED
        BY <4>1, <4>2, <4>4
    <3>2. CASE Fire(w)
      BY <2>0, <3>2 DEF Fire, records, TypeOK
    <3>3. CASE ~(PostAccepted(w) \/ PostThrew(w) \/ Fire(w))
      BY <2>1, <3>3 DEF SweepStep, Start, SelectReminders, SelectMeetings, Finish, SkipBriefing, LoadSettings,
         ProfileUnread, Claim, LoadTokens, PostRefused, DisableToken, MarkSent, CallFails, Die, records
    <3> QED
      BY <3>1, <3>2, <3>3
  <2>2. ASSUME Environment PROVE reminder'[r].status = "cancelled" /\ handed'[r] = handed[r]
    <3>1. handed' = handed
      BY <2>2 DEF Environment, Tick, ChangeSettings, IssueToken, Register, SignOut, CancelReminder, SetReminder,
         SyncMeeting, records
    <3>2. ASSUME NEW q \in Reminders, CancelReminder(q) \/ \E at \in now .. Horizon : SetReminder(q, at)
          PROVE  reminder'[r].status = "cancelled"
      BY <3>2 DEF CancelReminder, SetReminder, TypeOK
    <3>3. CASE reminder' = reminder
      BY <3>1, <3>3
    <3> QED
      BY <2>2, <3>1, <3>2, <3>3 DEF Environment, Tick, ChangeSettings, IssueToken, Register, SignOut, SyncMeeting
  <2>3. ASSUME NEW w \in Sweeps, Start(w) \/ SweepStep(w) \/ ProfileUnread(w) \/ CallFails(w) \/ Die(w)
        PROVE  ~InHand(r)'
    BY <2>3, NotPickedUp
  <2>4. ASSUME Environment PROVE ~InHand(r)'
    <3>1. sweep' = sweep
      BY <2>4 DEF Environment, Tick, ChangeSettings, IssueToken, Register, SignOut, CancelReminder, SetReminder,
         SyncMeeting
    <3> QED
      BY <3>1 DEF InHand
  <2> QED
    BY <2>1, <2>2, <2>3, <2>4 DEF Next
<1>2. Spec => [][Kept]_vars
  BY <1>1, Invariance, PTL DEF Spec
<1> QED
  BY <1>2 DEF CancelledStays

-----------------------------------------------------------------------------
(* The sender implements the outbox *)

Uses(w, k) == (At(w, "tokens") \/ At(w, "post")) /\ sweep[w].msg = k

BoxStep == [Box!Next]_(Box!vars)

\* What one sweep's step does to the claims that are open.
LEMMA OpenChanges ==
  ASSUME IInv, NEW w \in Sweeps, \A v \in Sweeps : v # w => sweep'[v] = sweep[v]
  PROVE  /\ (\A k \in Keys : Uses(w, k)' <=> Uses(w, k)) => Open' = Open
         /\ \A k \in Keys : Uses(w, k) /\ (\A q \in Keys : ~Uses(w, q)')
              => k \in Open /\ Open' = Open \ {k}
         /\ \A k \in Keys : (\A q \in Keys : ~Uses(w, q)) /\ (\A q \in Keys : Uses(w, q)' <=> q = k)
              => Open' = Open \cup {k}
<1>1. Open = {k \in Keys : \E v \in Sweeps : Uses(v, k)}
  BY DEF Open, Uses
<1>2. Open' = {k \in Keys : \E v \in Sweeps : Uses(v, k)'}
  BY DEF Open, Uses
<1>3. \A v \in Sweeps, k \in Keys : v # w => (Uses(v, k)' <=> Uses(v, k))
  BY DEF Uses, At
<1>4. \A v \in Sweeps, k \in Keys : Uses(v, k) /\ Uses(w, k) => v = w
  BY DEF IInv, ClaimInv, Uses, At, Busy, Running
<1>5. \A k, q : Uses(w, k) /\ Uses(w, q) => k = q
  BY DEF Uses
<1> QED BY <1>1, <1>2, <1>3, <1>4, <1>5

\* A step that writes no delivery and hands nothing over uses up a claim at most.
LEMMA ClaimLetGo ==
  ASSUME IInv, NEW w \in Sweeps, \A v \in Sweeps : v # w => sweep'[v] = sweep[v],
         UNCHANGED <<delivery, handed>>,
         \A k \in Keys : Uses(w, k)' => Uses(w, k)
  PROVE  BoxStep
<1>1. CASE \A k \in Keys : Uses(w, k)' <=> Uses(w, k)
  BY <1>1, OpenChanges DEF BoxStep, Box!vars
<1>2. ASSUME NEW k \in Keys, Uses(w, k), ~Uses(w, k)' PROVE BoxStep
  <2>1. \A q \in Keys : ~Uses(w, q)'
    BY <1>2 DEF Uses
  <2>2. k \in Open /\ Open' = Open \ {k}
    BY <1>2, <2>1, OpenChanges
  <2>3. Box!LetGo(k)
    BY <2>2 DEF Box!LetGo
  <2> QED BY <2>3 DEF BoxStep, Box!Next
<1> QED BY <1>1, <1>2

\* A sweep that leaves its message uses no claim.
LEMMA LeftIsUnused ==
  ASSUME IInv, NEW w \in Sweeps, NEW k \in Keys \cup {NoKey},
         sweep'[w] = After(sweep[w], k) \/ sweep'[w] = Idle
  PROVE  \A q \in Keys : ~Uses(w, q)'
<1>1. sweep[w] \in Run
  BY DEF IInv, TypeOK
<1>2. CASE sweep'[w] = After(sweep[w], k)
  BY <1>1, <1>2, AfterFields DEF Uses, At
<1>3. CASE sweep'[w] = Idle
  BY <1>3 DEF Idle, Uses, At
<1> QED BY <1>2, <1>3

LEMMA QuietBox ==
  ASSUME IInv, NEW w \in Sweeps,
         \/ Start(w) \/ SelectReminders(w) \/ SelectMeetings(w) \/ Finish(w) \/ SkipBriefing(w)
         \/ LoadSettings(w) \/ ProfileUnread(w) \/ LoadTokens(w) \/ DisableToken(w)
         \/ CallFails(w) \/ Die(w) \/ Fire(w)
  PROVE  BoxStep
<1> USE DEF IInv
<1>0. sweep \in [Sweeps -> Run] /\ sweep[w] \in Run
  BY DEF TypeOK
<1>1. \A v \in Sweeps : v # w => sweep'[v] = sweep[v]
  BY <1>0 DEF Start, SelectReminders, SelectMeetings, Finish, SkipBriefing, LoadSettings,
     LoadTokens, DisableToken, ProfileUnread, CallFails, SettingsUnread, Die, Fire
<1>2. UNCHANGED <<delivery, handed>>
  BY DEF Start, SelectReminders, SelectMeetings, Finish, SkipBriefing, LoadSettings,
     LoadTokens, DisableToken, ProfileUnread, CallFails, SettingsUnread, Die, Fire, outside, records
<1>3. sweep[w].msg \in Keys \cup {NoKey} /\ sweep[w].todo \subseteq Keys
  BY <1>0 DEF Run
<1>4. \A k \in Keys : Uses(w, k)' => Uses(w, k)
  <2>1. CASE Start(w)
    <3>1. sweep'[w] = [Idle EXCEPT !.phase = "briefings", !.now = now, !.todo = {k \in Kinds : JustPassed(k)}]
      BY <1>0, <2>1 DEF Start
    <3> QED BY <3>1 DEF Idle, Uses, At
  <2>2. CASE SelectReminders(w)
    <3>1. PICK page : sweep' = [sweep EXCEPT ![w].phase = "reminders", ![w].todo = page]
      BY <2>2 DEF SelectReminders
    <3>2. sweep'[w].step = "next"
      BY <1>0, <2>2, <3>1 DEF SelectReminders, Exhausted, Run
    <3> QED BY <3>2 DEF Uses, At
  <2>3. CASE SelectMeetings(w)
    <3>1. PICK page : sweep' = [sweep EXCEPT ![w].phase = "meetings", ![w].todo = page]
      BY <2>3 DEF SelectMeetings
    <3>2. sweep'[w].step = "next"
      BY <1>0, <2>3, <3>1 DEF SelectMeetings, Exhausted, Run
    <3> QED BY <3>2 DEF Uses, At
  <2>4. CASE Finish(w) \/ Die(w)
    <3>1. sweep'[w] = Idle
      BY <1>0, <2>4 DEF Finish, Die
    <3> QED BY <1>3, <3>1, LeftIsUnused
  <2>5. CASE SkipBriefing(w) \/ ProfileUnread(w)
    <3>1. PICK k \in sweep[w].todo : sweep' = [sweep EXCEPT ![w] = After(@, k)]
      BY <2>5 DEF SkipBriefing, ProfileUnread
    <3>2. sweep'[w] = After(sweep[w], k) /\ k \in Keys
      BY <1>0, <1>3, <3>1
    <3> QED BY <3>2, LeftIsUnused
  <2>6. CASE LoadSettings(w)
    <3>1. PICK k \in sweep[w].todo :
            \/ sweep' = [sweep EXCEPT ![w] = After(@, k)]
            \/ sweep' = [sweep EXCEPT ![w].step = "claim", ![w].msg = k]
      BY <2>6 DEF LoadSettings
    <3>2. CASE sweep' = [sweep EXCEPT ![w] = After(@, k)]
      <4>1. sweep'[w] = After(sweep[w], k) /\ k \in Keys
        BY <1>0, <1>3, <3>2
      <4> QED BY <4>1, LeftIsUnused
    <3>3. CASE sweep' = [sweep EXCEPT ![w].step = "claim", ![w].msg = k]
      <4>1. sweep'[w].step = "claim"
        BY <1>0, <3>3 DEF Run
      <4> QED BY <4>1 DEF Uses, At
    <3> QED BY <3>1, <3>2, <3>3
  <2>7. CASE LoadTokens(w)
    <3>1. PICK rows :
            sweep' = [sweep EXCEPT ![w] =
              IF rows = {} THEN After(@, @.msg) ELSE [@ EXCEPT !.step = "post", !.rows = rows]]
      BY <2>7 DEF LoadTokens
    <3>2. CASE rows = {}
      <4>1. sweep'[w] = After(sweep[w], sweep[w].msg)
        BY <1>0, <3>1, <3>2
      <4> QED BY <1>3, <4>1, LeftIsUnused
    <3>3. CASE rows # {}
      <4>1. sweep'[w] = [sweep[w] EXCEPT !.step = "post", !.rows = rows]
        BY <1>0, <3>1, <3>3
      <4>2. sweep'[w].msg = sweep[w].msg
        BY <1>0, <4>1 DEF Run
      <4> QED BY <2>7, <4>2 DEF LoadTokens, Uses, At
    <3> QED BY <3>2, <3>3
  <2>8. CASE DisableToken(w)
    <3>1. PICK d : sweep' = [sweep EXCEPT ![w].dead = @ \ {d}]
      BY <2>8 DEF DisableToken
    <3>2. sweep'[w].step = "receipts"
      BY <1>0, <2>8, <3>1 DEF DisableToken, At, Run
    <3> QED BY <3>2 DEF Uses, At
  <2>9. CASE CallFails(w)
    <3>1. PICK k \in Keys \cup {NoKey} : sweep' = [sweep EXCEPT ![w] = Threw(@, k)]
      BY <1>3, <2>9 DEF CallFails, SettingsUnread
    <3>2. sweep'[w] = After(sweep[w], k) \/ sweep'[w] = Idle
      BY <1>0, <3>1, ThrewCases
    <3> QED BY <3>2, LeftIsUnused
  <2>10. CASE Fire(w)
    <3>1. sweep'[w].step = "next"
      BY <1>0, <2>10 DEF Fire, Run
    <3> QED BY <3>1 DEF Uses, At
  <2> QED BY <2>1, <2>2, <2>3, <2>4, <2>5, <2>6, <2>7, <2>8, <2>9, <2>10
<1> QED BY <1>1, <1>2, <1>4, ClaimLetGo

LEMMA ClaimBox == ASSUME IInv, NEW w \in Sweeps, Claim(w) PROVE BoxStep
<1> USE DEF IInv
<1> DEFINE k == sweep[w].msg
<1>0. sweep \in [Sweeps -> Run] /\ sweep[w] \in Run
  BY DEF TypeOK
<1>1. k \in Keys /\ handed' = handed /\ sweep[w].step = "claim" /\ sweep[w].phase # "idle"
  BY DEF Claim, At, Running, MsgInv, records
<1>2. \A v \in Sweeps : v # w => sweep'[v] = sweep[v]
  BY <1>0 DEF Claim
<1>3. CASE delivery[k] = "absent"
  <2>1. sweep' = [sweep EXCEPT ![w].step = "tokens"] /\ delivery' = [delivery EXCEPT ![k] = "claimed"]
    BY <1>3 DEF Claim
  <2>2. sweep'[w].step = "tokens" /\ sweep'[w].msg = k /\ sweep'[w].phase # "idle"
    BY <1>0, <1>1, <2>1 DEF Run
  <2>3. (\A q \in Keys : ~Uses(w, q)) /\ (\A q \in Keys : Uses(w, q)' <=> q = k)
    BY <1>1, <2>2 DEF Uses, At
  <2>4. Open' = Open \cup {k}
    BY <1>1, <1>2, <2>3, OpenChanges
  <2>5. Box!Claim(k)
    BY <1>1, <1>3, <2>1, <2>4 DEF Box!Claim
  <2> QED BY <1>1, <2>5 DEF BoxStep, Box!Next
<1>4. CASE delivery[k] # "absent"
  <2>1. sweep'[w] = After(sweep[w], k) /\ delivery' = delivery
    BY <1>0, <1>4 DEF Claim
  <2>2. \A q \in Keys : ~Uses(w, q)'
    BY <1>1, <2>1, LeftIsUnused
  <2> QED BY <1>1, <1>2, <2>1, <2>2, ClaimLetGo
<1> QED BY <1>3, <1>4

LEMMA PostBox ==
  ASSUME IInv, NEW w \in Sweeps, PostAccepted(w) \/ PostRefused(w) \/ PostThrew(w)
  PROVE  BoxStep
<1> USE DEF IInv
<1> DEFINE k == sweep[w].msg
<1>0. sweep \in [Sweeps -> Run] /\ sweep[w] \in Run
  BY DEF TypeOK
<1>1. k \in Keys /\ At(w, "post") /\ Uses(w, k)
  BY DEF PostAccepted, PostRefused, PostThrew, At, Running, MsgInv, Uses
<1>2. \A v \in Sweeps : v # w => sweep'[v] = sweep[v]
  BY <1>0 DEF PostAccepted, PostRefused, PostThrew
<1>3. \A q \in Keys : ~Uses(w, q)'
  <2>1. CASE PostAccepted(w)
    <3>1. PICK dead : sweep' = [sweep EXCEPT ![w].step = "receipts", ![w].dead = dead]
      BY <2>1 DEF PostAccepted
    <3>2. sweep'[w].step = "receipts"
      BY <1>0, <3>1 DEF Run
    <3> QED BY <3>2 DEF Uses, At
  <2>2. CASE PostRefused(w) \/ PostThrew(w)
    <3>1. sweep'[w] = After(sweep[w], k) \/ sweep'[w] = Idle
      BY <1>0, <2>2, ThrewCases DEF PostRefused, PostThrew
    <3> QED BY <1>1, <3>1, LeftIsUnused
  <2> QED BY <2>1, <2>2
<1>4. k \in Open /\ Open' = Open \ {k}
  BY <1>1, <1>2, <1>3, OpenChanges
<1>5. CASE UNCHANGED <<delivery, handed>>
  BY <1>2, <1>3, <1>5, ClaimLetGo
<1>6. CASE HandOver(w) /\ delivery' = delivery
  <2>1. handed' = [handed EXCEPT ![k] = @ + 1]
    BY <1>6, Zenon DEF HandOver
  <2>2. Box!Hand(k)
    BY <1>4, <1>6, <2>1 DEF Box!Hand
  <2> QED BY <1>1, <2>2 DEF BoxStep, Box!Next
<1>7. CASE delivery' = [delivery EXCEPT ![k] = "failed"] /\ handed' = handed
  <2>1. Box!Refuse(k)
    BY <1>4, <1>7 DEF Box!Refuse
  <2> QED BY <1>1, <2>1 DEF BoxStep, Box!Next
<1> QED BY <1>5, <1>6, <1>7 DEF PostAccepted, PostRefused, PostThrew, records

LEMMA MarkBox == ASSUME IInv, NEW w \in Sweeps, MarkSent(w) PROVE BoxStep
<1> USE DEF IInv
<1> DEFINE k == sweep[w].msg
<1>0. sweep \in [Sweeps -> Run] /\ sweep[w] \in Run
  BY DEF TypeOK
<1>1. k \in Keys /\ Busy(w, k) /\ sweep[w].step = "receipts" /\ handed' = handed
  BY DEF MarkSent, At, Running, MsgInv, Busy, records
<1>2. delivery[k] = "claimed" /\ handed[k] = 1
  BY <1>1 DEF ClaimInv
<1>3. \A v \in Sweeps : v # w => sweep'[v] = sweep[v]
  BY <1>0 DEF MarkSent
<1>4. sweep'[w] = After(sweep[w], k)
  BY <1>0 DEF MarkSent
<1>5. (\A q \in Keys : ~Uses(w, q)') /\ (\A q \in Keys : ~Uses(w, q))
  BY <1>1, <1>4, LeftIsUnused DEF Uses, At
<1>6. Open' = Open
  BY <1>3, <1>5, OpenChanges
<1>7. CASE delivery' = delivery
  BY <1>1, <1>6, <1>7 DEF BoxStep, Box!vars
<1>8. CASE delivery' = [delivery EXCEPT ![k] = "sent"]
  <2>1. Box!MarkSent(k)
    BY <1>1, <1>2, <1>6, <1>8 DEF Box!MarkSent
  <2> QED BY <1>1, <2>1 DEF BoxStep, Box!Next
<1> QED BY <1>7, <1>8 DEF MarkSent

LEMMA NextBox == IInv /\ [Next]_vars => BoxStep
<1> SUFFICES ASSUME IInv, [Next]_vars PROVE BoxStep
  OBVIOUS
<1>1. CASE Environment \/ UNCHANGED vars
  <2>1. UNCHANGED <<sweep, delivery, handed>>
    BY <1>1 DEF Environment, Tick, ChangeSettings, IssueToken, Register, SignOut, CancelReminder,
       SetReminder, SyncMeeting, outside, records, vars
  <2>2. Open' = Open
    BY <2>1 DEF Open, At
  <2> QED BY <2>1, <2>2 DEF BoxStep, Box!vars
<1>2. ASSUME NEW w \in Sweeps, Start(w) \/ SweepStep(w) \/ ProfileUnread(w) \/ CallFails(w) \/ Die(w) PROVE BoxStep
  BY <1>2, QuietBox, ClaimBox, PostBox, MarkBox DEF SweepStep
<1> QED BY <1>1, <1>2 DEF Next

\* Every step of the sweeps is a step of the outbox or leaves it alone: a message is
\* handed over by the sweep that claimed it or by nobody, and its mark tells the truth.
THEOREM Refinement == Spec => ImplementsOutbox
<1>1. Init => Box!Init
  BY DEF Init, Box!Init, Open, At, Idle
<1>2. IInv /\ [Next]_vars => [Box!Next]_(Box!vars)
  BY NextBox DEF BoxStep
<1> QED BY <1>1, <1>2, Invariance, PTL DEF Spec, ImplementsOutbox, Box!Spec
=============================================================================
