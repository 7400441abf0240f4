--------------------------- MODULE Notifications ---------------------------
(***************************************************************************)
(* Push: the scheduler that cron starts every five minutes                 *)
(* (notification-scheduler), the sender it goes through (_shared/push.ts), *)
(* the reminders and device rows they read, and the phone that registers   *)
(* itself.  One user: every query is filtered by user or by a row's id.    *)
(*                                                                         *)
(* A sweep is a process and every call it makes to the database or to the  *)
(* push provider is a step of its own, because a run may outlast the five  *)
(* minutes and then two of them share the tables.  A tick of the clock is  *)
(* five minutes.                                                           *)
(*                                                                         *)
(* Abstracted: the wording of a message and what a locked screen shows of  *)
(* it, how a briefing is written (here it is written or skipped), quiet    *)
(* days, the calendar date in a briefing's key, and audit rows.            *)
(***************************************************************************)
EXTENDS Integers, FiniteSets

CONSTANTS
  Kinds,      \* briefings of the day
  Reminders,  \* ids of reminders rows, absent until inserted
  Meetings,   \* ids of calendar_events rows
  Sweeps,     \* runs of the scheduler that may overlap
  DeviceIds,  \* ids a phone can give itself
  StableId,   \* whether the platform gives the phone an id that survives sign-out
  BriefingAt, \* user_preferences: when each briefing is due
  Choices,    \* bound: the notification settings the user may choose
  Horizon,    \* bound: the clock stops here
  MaxTokens,  \* bound: push tokens the provider issues to the phone
  MaxFaults,  \* bound: database errors and dead sweeps
  Limit       \* 200: how many rows one select returns

Keys == Kinds \cup Reminders \cup Meetings
Times == 0 .. Horizon
Categories == {"briefing", "deadline", "meeting"}

\* only_if_important drops the briefings, as switching them off does
\* (ALWAYS_IMPORTANT): `off` stands for both.
Settings == [off : SUBSET Categories, quiet : SUBSET Times]

ASSUME BoundsAssumption ==
  Horizon \in Nat /\ MaxTokens \in Nat /\ MaxFaults \in Nat /\ Limit \in Nat \ {0}
ASSUME KeysAssumption ==
  Kinds \cap Reminders = {} /\ Kinds \cap Meetings = {} /\ Reminders \cap Meetings = {}
ASSUME PreferencesAssumption ==
  BriefingAt \in [Kinds -> Times] /\ Choices \in SUBSET Settings
ASSUME PhoneAssumption ==
  StableId \in BOOLEAN /\ IsFiniteSet(DeviceIds) /\ DeviceIds # {}

VARIABLES
  now,       \* the clock
  settings,  \* notification_preferences
  reminder,  \* reminders: [status, at]
  meeting,   \* calendar_events: when each starts, or Never
  tokenRow,  \* push_tokens, by device id
  phone,     \* the phone: its live token, its id and the token it registered
  delivery,  \* notification_deliveries, by dedupe key
  sweep,     \* what each run of the scheduler holds
  handed,    \* how often the provider accepted each message
  shown,     \* how often the phone showed each message
  hushed,    \* the reminders a sweep held back because the settings say so
  unread,    \* those it passed over because it could not read the profile
  faults     \* how many faults the bound has let happen

vars == <<now, settings, reminder, meeting, tokenRow, phone, delivery, sweep, handed, shown, hushed, unread, faults>>
\* What a step of a sweep leaves alone unless it says otherwise.
outside == <<now, settings, meeting, phone>>
records == <<handed, shown, hushed, unread>>

Never == Horizon + 100
NoToken == 0
NoId == "no id"
NoKey == "no key"

ASSUME NoKeyAssumption == NoKey \notin Keys

\* "completed" is admitted by the table and written by nobody.
ReminderStatus == {"absent", "scheduled", "fired", "cancelled", "completed"}
DeliveryStatus == {"absent", "claimed", "failed", "sent"}
Phases == {"idle", "briefings", "reminders", "meetings"}
Steps == {"next", "claim", "tokens", "post", "receipts", "fire"}

Idle == [phase |-> "idle", step |-> "next", now |-> 0, todo |-> {}, msg |-> NoKey, rows |-> {}, dead |-> {}]

Run ==
  [phase : Phases, step : Steps, now : Times, todo : SUBSET Keys, msg : Keys \cup {NoKey},
   rows : SUBSET (DeviceIds \X (1 .. MaxTokens)), dead : SUBSET DeviceIds]

TypeOK ==
  /\ now \in Times
  /\ settings \in Settings
  /\ reminder \in [Reminders -> [status : ReminderStatus, at : Times]]
  /\ meeting \in [Meetings -> Times \cup {Never}]
  /\ tokenRow \in [DeviceIds -> [token : 0 .. MaxTokens, disabled : BOOLEAN]]
  /\ phone \in [live : 0 .. MaxTokens, id : DeviceIds \cup {NoId}, registered : 0 .. MaxTokens]
  /\ delivery \in [Keys -> DeliveryStatus]
  /\ sweep \in [Sweeps -> Run]
  /\ handed \in [Keys -> Nat]
  /\ shown \in [Keys -> Nat]
  /\ hushed \in SUBSET Reminders
  /\ unread \in SUBSET Reminders
  /\ faults \in 0 .. MaxFaults

Init ==
  /\ now = 0
  /\ settings \in Choices
  /\ reminder = [r \in Reminders |-> [status |-> "absent", at |-> 0]]
  /\ meeting = [m \in Meetings |-> Never]
  /\ tokenRow = [d \in DeviceIds |-> [token |-> NoToken, disabled |-> FALSE]]
  /\ phone = [live |-> NoToken, id |-> NoId, registered |-> NoToken]
  /\ delivery = [k \in Keys |-> "absent"]
  /\ sweep = [w \in Sweeps |-> Idle]
  /\ handed = [k \in Keys |-> 0]
  /\ shown = [k \in Keys |-> 0]
  /\ hushed = {}
  /\ unread = {}
  /\ faults = 0

-----------------------------------------------------------------------------
(* The user, the calendar sync and the clock *)

Tick ==
  /\ now < Horizon
  /\ now' = now + 1
  /\ UNCHANGED <<settings, reminder, meeting, tokenRow, phone, delivery, sweep, records, faults>>

ChangeSettings ==
  /\ settings' \in Choices
  /\ UNCHANGED <<now, reminder, meeting, tokenRow, phone, delivery, sweep, records, faults>>

\* The presets avoid the quiet hours of the moment, a custom time does not.
SetReminder(r, at) ==
  /\ reminder[r].status = "absent"
  /\ reminder' = [reminder EXCEPT ![r] = [status |-> "scheduled", at |-> at]]
  /\ UNCHANGED <<outside, tokenRow, delivery, sweep, records, faults>>

\* By id: the list on the screen may be older than the row.
CancelReminder(r) ==
  /\ reminder[r].status # "absent"
  /\ reminder' = [reminder EXCEPT ![r].status = "cancelled"]
  /\ UNCHANGED <<outside, tokenRow, delivery, sweep, records, faults>>

\* A meeting is created, moved or cancelled by the calendar sync.
SyncMeeting(m, at) ==
  /\ meeting' = [meeting EXCEPT ![m] = at]
  /\ UNCHANGED <<now, settings, reminder, tokenRow, phone, delivery, sweep, records, faults>>

-----------------------------------------------------------------------------
(* The phone *)

IssueToken ==
  /\ phone.live < MaxTokens
  /\ phone' = [phone EXCEPT !.live = @ + 1]
  /\ UNCHANGED <<now, settings, reminder, meeting, tokenRow, delivery, sweep, records, faults>>

PlatformId == CHOOSE d \in DeviceIds : TRUE

\* The id the platform gives, or a random one.
NewId ==
  IF StableId THEN {PlatformId}
              ELSE {d \in DeviceIds : tokenRow[d].token = NoToken}

\* Once per token, as far as the phone remembers; the answer may be lost.
Register ==
  /\ phone.live \notin {NoToken, phone.registered}
  /\ \E d \in IF phone.id = NoId THEN NewId ELSE {phone.id}, heard \in BOOLEAN :
       /\ tokenRow' = [tokenRow EXCEPT ![d] = [token |-> phone.live, disabled |-> FALSE]]
       /\ phone' = [phone EXCEPT !.id = d, !.registered = IF heard THEN phone.live ELSE @]
  /\ UNCHANGED <<now, settings, reminder, meeting, delivery, sweep, records, faults>>

\* Everything the phone remembers is wiped; the server hears nothing.
SignOut ==
  /\ phone' = [phone EXCEPT !.id = NoId, !.registered = NoToken]
  /\ UNCHANGED <<now, settings, reminder, meeting, tokenRow, delivery, sweep, records, faults>>

-----------------------------------------------------------------------------
(* A sweep chooses what is due *)

JustPassed(k) == BriefingAt[k] <= now /\ now < BriefingAt[k] + 2
\* Mutant: the select has lost its status filter.
DueAnyStatus(r, t) == reminder[r].status # "absent" /\ reminder[r].at <= t

Due(r, t) == reminder[r].status = "scheduled" /\ reminder[r].at <= t
Soon(m, t) == t <= meeting[m] /\ meeting[m] <= t + 3

\* What a select of at most Limit rows may answer; no order is asked for.
Page(rows) ==
  IF Cardinality(rows) <= Limit THEN {rows} ELSE {p \in SUBSET rows : Cardinality(p) = Limit}

Start(w) ==
  /\ sweep[w].phase = "idle"
  /\ sweep' = [sweep EXCEPT ![w] = [Idle EXCEPT
       !.phase = "briefings", !.now = now, !.todo = {k \in Kinds : JustPassed(k)}]]
  /\ UNCHANGED <<outside, reminder, tokenRow, delivery, records, faults>>

Exhausted(w, phase) == sweep[w].phase = phase /\ sweep[w].step = "next" /\ sweep[w].todo = {}

SelectReminders(w) ==
  /\ Exhausted(w, "briefings")
  /\ \E page \in Page({r \in Reminders : Due(r, sweep[w].now)}) :
       sweep' = [sweep EXCEPT ![w].phase = "reminders", ![w].todo = page]
  /\ UNCHANGED <<outside, reminder, tokenRow, delivery, records, faults>>

SelectMeetings(w) ==
  /\ Exhausted(w, "reminders")
  /\ \E page \in Page({m \in Meetings : Soon(m, sweep[w].now)}) :
       sweep' = [sweep EXCEPT ![w].phase = "meetings", ![w].todo = page]
  /\ UNCHANGED <<outside, reminder, tokenRow, delivery, records, faults>>

Finish(w) ==
  /\ Exhausted(w, "meetings")
  /\ sweep' = [sweep EXCEPT ![w] = Idle]
  /\ UNCHANGED <<outside, reminder, tokenRow, delivery, records, faults>>

-----------------------------------------------------------------------------
(* The sender: what it does of one message, statement by statement *)

At(w, step) == sweep[w].phase # "idle" /\ sweep[w].step = step

Category(k) ==
  IF k \in Kinds THEN "briefing" ELSE IF k \in Reminders THEN "deadline" ELSE "meeting"

Suppressed(k, t) == Category(k) \in settings.off \/ t \in settings.quiet

\* The sweep is done with a message: it marks a reminder, or takes the next message.
After(s, k) ==
  IF k \in Reminders
    THEN [s EXCEPT !.step = "fire", !.todo = @ \ {k}, !.msg = k, !.rows = {}, !.dead = {}]
    ELSE [s EXCEPT !.step = "next", !.todo = @ \ {k}, !.msg = NoKey, !.rows = {}, !.dead = {}]

\* Mutant: every throw is caught, and a reminder goes on to its mark.
ThrewCaught(s, k) == After(s, k)

\* Only the briefings are wrapped: anywhere else a throw ends the sweep.
Threw(s, k) == IF k \in Kinds THEN After(s, k) ELSE Idle

\* Nothing changed since the morning, or the briefing could not be written.
SkipBriefing(w) ==
  /\ At(w, "next")
  /\ \E k \in sweep[w].todo \cap Kinds : sweep' = [sweep EXCEPT ![w] = After(@, k)]
  /\ UNCHANGED <<outside, reminder, tokenRow, delivery, records, faults>>

LoadSettings(w) ==
  /\ At(w, "next")
  /\ \E k \in sweep[w].todo :
       IF Suppressed(k, sweep[w].now)
         THEN /\ sweep' = [sweep EXCEPT ![w] = After(@, k)]
              /\ hushed' = hushed \cup ({k} \cap Reminders)
         ELSE /\ sweep' = [sweep EXCEPT ![w].step = "claim", ![w].msg = k]
              /\ UNCHANGED hushed
  /\ UNCHANGED <<outside, reminder, tokenRow, delivery, handed, shown, unread, faults>>

\* An UPDATE whose error nobody looks at.
Attempted == faults' = faults
Missed == faults < MaxFaults /\ faults' = faults + 1

\* Nobody looks at the error of the profile either: without one the user is taken
\* for somebody without devices, and the sweep is done with the message.
ProfileUnread(w) ==
  /\ At(w, "next")
  /\ Missed
  /\ \E k \in sweep[w].todo :
       /\ sweep' = [sweep EXCEPT ![w] = After(@, k)]
       /\ unread' = unread \cup ({k} \cap Reminders)
  /\ UNCHANGED <<outside, reminder, tokenRow, delivery, handed, shown, hushed>>

\* Mutant: the claim does not mind a row of the same key.
ClaimAlways(w) ==
  /\ At(w, "claim")
  /\ delivery' = [delivery EXCEPT ![sweep[w].msg] = "claimed"]
  /\ sweep' = [sweep EXCEPT ![w].step = "tokens"]
  /\ UNCHANGED <<outside, reminder, tokenRow, records, faults>>

\* Mutant: a claimed key is an error like any other.
ClaimStrict(w) ==
  /\ At(w, "claim")
  /\ LET k == sweep[w].msg IN
       IF delivery[k] = "absent"
         THEN /\ delivery' = [delivery EXCEPT ![k] = "claimed"]
              /\ sweep' = [sweep EXCEPT ![w].step = "tokens"]
         ELSE /\ sweep' = [sweep EXCEPT ![w] = Threw(@, k)]
              /\ UNCHANGED delivery
  /\ UNCHANGED <<outside, reminder, tokenRow, records, faults>>

\* unique (user_id, dedupe_key)
Claim(w) ==
  /\ At(w, "claim")
  /\ LET k == sweep[w].msg IN
       IF delivery[k] = "absent"
         THEN /\ delivery' = [delivery EXCEPT ![k] = "claimed"]
              /\ sweep' = [sweep EXCEPT ![w].step = "tokens"]
         ELSE /\ sweep' = [sweep EXCEPT ![w] = After(@, k)]
              /\ UNCHANGED delivery
  /\ UNCHANGED <<outside, reminder, tokenRow, records, faults>>

Enabled(d) == tokenRow[d].token # NoToken /\ ~tokenRow[d].disabled

LoadTokens(w) ==
  /\ At(w, "tokens")
  /\ LET rows == {<<d, tokenRow[d].token>> : d \in {e \in DeviceIds : Enabled(e)}} IN
       sweep' = [sweep EXCEPT ![w] =
         IF rows = {} THEN After(@, @.msg) ELSE [@ EXCEPT !.step = "post", !.rows = rows]]
  /\ UNCHANGED <<outside, reminder, tokenRow, delivery, records, faults>>

\* The provider takes the message: the phone shows it once for every row that
\* holds its live token.
HandOver(w) ==
  LET k == sweep[w].msg IN
  /\ handed' = [handed EXCEPT ![k] = @ + 1]
  /\ shown' = [shown EXCEPT ![k] = @ + Cardinality({x \in sweep[w].rows : x[2] = phone.live})]

\* The receipts name tokens the phone no longer has, as far as the provider knows.
PostAccepted(w) ==
  /\ At(w, "post")
  /\ HandOver(w)
  /\ \E dead \in SUBSET {x[1] : x \in {y \in sweep[w].rows : y[2] # phone.live}} :
       sweep' = [sweep EXCEPT ![w].step = "receipts", ![w].dead = dead]
  /\ UNCHANGED <<outside, reminder, tokenRow, delivery, hushed, unread, faults>>

\* Mutant: nobody looks at the status of the response.
PostRefusedUnchecked(w) ==
  /\ At(w, "post")
  /\ sweep' = [sweep EXCEPT ![w].step = "receipts"]
  /\ UNCHANGED <<outside, reminder, tokenRow, delivery, records, faults>>

PostRefused(w) ==
  /\ At(w, "post")
  /\ \/ Attempted /\ delivery' = [delivery EXCEPT ![sweep[w].msg] = "failed"]
     \/ Missed /\ UNCHANGED delivery
  /\ sweep' = [sweep EXCEPT ![w] = After(@, @.msg)]
  /\ UNCHANGED <<outside, reminder, tokenRow, records>>

\* Mutant: a send that threw gives its claim back, to be tried again.
PostThrewReleasing(w) ==
  /\ At(w, "post")
  /\ HandOver(w) \/ UNCHANGED <<handed, shown>>
  /\ delivery' = [delivery EXCEPT ![sweep[w].msg] = "absent"]
  /\ sweep' = [sweep EXCEPT ![w] = Threw(@, @.msg)]
  /\ UNCHANGED <<outside, reminder, tokenRow, hushed, unread, faults>>

\* A timeout or a lost connection, before or after the provider took it.
PostThrew(w) ==
  /\ At(w, "post")
  /\ HandOver(w) \/ UNCHANGED <<handed, shown>>
  /\ sweep' = [sweep EXCEPT ![w] = Threw(@, @.msg)]
  /\ UNCHANGED <<outside, reminder, tokenRow, delivery, hushed, unread, faults>>

\* By the row's id, whatever token it holds by now.
DisableToken(w) ==
  /\ At(w, "receipts")
  /\ \E d \in sweep[w].dead :
       /\ \/ Attempted /\ tokenRow' = [tokenRow EXCEPT ![d].disabled = TRUE]
          \/ Missed /\ UNCHANGED tokenRow
       /\ sweep' = [sweep EXCEPT ![w].dead = @ \ {d}]
  /\ UNCHANGED <<outside, reminder, delivery, records>>

MarkSent(w) ==
  /\ At(w, "receipts")
  /\ sweep[w].dead = {}
  /\ \/ Attempted /\ delivery' = [delivery EXCEPT ![sweep[w].msg] = "sent"]
     \/ Missed /\ UNCHANGED delivery
  /\ sweep' = [sweep EXCEPT ![w] = After(@, @.msg)]
  /\ UNCHANGED <<outside, reminder, tokenRow, records>>

\* Mutant: the mark is the word of the deliveries, which this table does not know.
FireSent(w) ==
  /\ At(w, "fire")
  /\ reminder' = [reminder EXCEPT ![sweep[w].msg].status = "sent"]
  /\ sweep' = [sweep EXCEPT ![w].step = "next", ![w].msg = NoKey]
  /\ UNCHANGED <<outside, tokenRow, delivery, records, faults>>

\* By id, sent or not, whatever the row says by now.
Fire(w) ==
  /\ At(w, "fire")
  /\ \/ Attempted /\ reminder' = [reminder EXCEPT ![sweep[w].msg].status = "fired"]
     \/ Missed /\ UNCHANGED reminder
  /\ sweep' = [sweep EXCEPT ![w].step = "next", ![w].msg = NoKey]
  /\ UNCHANGED <<outside, tokenRow, delivery, records>>

-----------------------------------------------------------------------------
(* Faults *)

\* The read of the settings fails: of its two errors loadSettings looks at this one.
SettingsUnread(w) ==
  At(w, "next") /\ \E k \in sweep[w].todo : sweep' = [sweep EXCEPT ![w] = Threw(@, k)]

\* Or the claim does, or the read of the tokens.
CallFails(w) ==
  /\ Missed
  /\ \/ SettingsUnread(w)
     \/ \E step \in {"claim", "tokens"} :
          At(w, step) /\ sweep' = [sweep EXCEPT ![w] = Threw(@, @.msg)]
  /\ UNCHANGED <<outside, reminder, tokenRow, delivery, records>>

\* The process is killed, or a select fails.
Die(w) ==
  /\ Missed
  /\ sweep[w].phase # "idle"
  /\ sweep' = [sweep EXCEPT ![w] = Idle]
  /\ UNCHANGED <<outside, reminder, tokenRow, delivery, records>>

SweepStep(w) ==
  \/ SelectReminders(w) \/ SelectMeetings(w) \/ Finish(w)
  \/ SkipBriefing(w) \/ LoadSettings(w) \/ Claim(w) \/ LoadTokens(w)
  \/ PostAccepted(w) \/ PostRefused(w) \/ PostThrew(w)
  \/ DisableToken(w) \/ MarkSent(w) \/ Fire(w)

Environment ==
  \/ Tick \/ ChangeSettings \/ IssueToken \/ Register \/ SignOut
  \/ \E r \in Reminders : CancelReminder(r) \/ \E at \in now .. Horizon : SetReminder(r, at)
  \/ \E m \in Meetings, at \in (now .. Horizon) \cup {Never} : SyncMeeting(m, at)

Next ==
  \/ Environment
  \/ \E w \in Sweeps : Start(w) \/ SweepStep(w) \/ ProfileUnread(w) \/ CallFails(w) \/ Die(w)

Spec == Init /\ [][Next]_vars

\* Cron starts runs and a run goes on; nothing is assumed of the user, the
\* phone, the clock or the provider.
FairSpec == Spec /\ \A w \in Sweeps : WF_vars(Start(w)) /\ WF_vars(SweepStep(w))

-----------------------------------------------------------------------------
(* Properties *)

\* Somebody answered for the reminder: its delivery was claimed, the settings held it
\* back, or its owner's profile could not be read.
Answered(r) == delivery[r] # "absent" \/ r \in hushed \cup unread

\* A reminder that says fired was due, and sendPush answered for it: it was claimed, held
\* back or taken for one without devices. A send that threw ends the sweep before the mark
\* (scheduler 237-261), so a later one marks only what it answered for or found claimed.
FiredHadItsMoment ==
  \A r \in Reminders : reminder[r].status = "fired" => reminder[r].at <= now /\ Answered(r)

\* A delivery marked sent was handed to the provider, and one marked failed was
\* not, whichever sweep wrote the mark (push.ts 203-238).
MarksAreTrue ==
  \A k \in Keys : (delivery[k] = "sent" => handed[k] = 1) /\ (delivery[k] = "failed" => handed[k] = 0)

\* One notification appears once on the phone, whatever tokens it went through
\* and however many sweeps ran ("once, ever", push.ts 15).
ShownOnce == \A k \in Keys : shown[k] <= 1

\* The claims a sweep has yet to use.
Open ==
  {k \in Keys : \E w \in Sweeps : (At(w, "tokens") \/ At(w, "post")) /\ sweep[w].msg = k}

Box == INSTANCE Outbox WITH open <- Open

\* Two sweeps, a dead one and a retried one hand over each message at most once: only
\* the sweep that claimed it may, the claim of one that died or threw is nobody's, and
\* the mark says what became of it (push.ts 140-164, 188-238).
ImplementsOutbox == Box!Spec

InHand(r) == \E w \in Sweeps : r \in sweep[w].todo \cup {sweep[w].msg}

\* A reminder its owner cancelled before any sweep picked it up is never picked
\* up, sent or overwritten from then on (scheduler 228-233).
CancelledStays ==
  [][\A r \in Reminders :
       reminder[r].status = "cancelled" /\ ~InHand(r)
         => reminder'[r].status = "cancelled" /\ handed'[r] = handed[r] /\ ~InHand(r)']_vars

\* A due reminder does not stay in the way of the sweeps for ever, even if the
\* provider never answers: its claim makes the next sweep pass over it.
RemindersLeave ==
  \A r \in Reminders :
    reminder[r].status = "scheduled" /\ reminder[r].at <= now ~> reminder[r].status # "scheduled"
=============================================================================
