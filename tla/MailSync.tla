------------------------------ MODULE MailSync ------------------------------
(***************************************************************************)
(* One Gmail account being read (_shared/sync.ts, syncMail) and what is    *)
(* read being stored and analysed (_shared/ingest.ts, ingestMessages).     *)
(*                                                                         *)
(* A run is a process; nothing keeps two of them from one account, and     *)
(* every call to the provider or the database is a step of its own.        *)
(* Message i is the i-th to arrive, which is also the mailbox's history id *)
(* from then on.                                                           *)
(*                                                                         *)
(* Abstracted: the OAuth token (a failure is a run that gives up), what a  *)
(* message says (no two have one content hash), the user's own mail, which *)
(* is not analysed, deleted mail, the pages of a history answer, and the   *)
(* bookkeeping only screens read: status, failures, next_run_at.           *)
(***************************************************************************)
EXTENDS Integers, FiniteSets

CONSTANTS
  N,          \* bound: how many messages arrive
  Runs,       \* runs of syncMail that may overlap
  Limit,      \* MESSAGE_PAGE_LIMIT
  Windows,    \* bound: how many of the oldest messages the time window may leave out
  MaxFaults   \* bound: runs that give up or die, and writes that fail

ASSUME BoundsAssumption ==
  N \in Nat /\ Limit \in Nat \ {0} /\ MaxFaults \in Nat /\ Windows \subseteq Nat /\ Windows # {}

Messages == 1 .. N
NoCursor == -1
HistoryIds == 0 .. N

VARIABLES
  arrived,   \* the provider: how many messages it has
  cursor,    \* sync_states.cursor
  stored,    \* email_messages
  analysed,  \* how often each message's thread was analysed for it
  run,       \* what each run holds
  listed,    \* the latest history id a full list was saved with
  given,     \* the messages a run gave up: cut off a page, or failed alone
  faults     \* how many faults the bound has let happen

vars == <<arrived, cursor, stored, analysed, run, listed, given, faults>>

Idle == [step |-> "idle", cursor |-> NoCursor, full |-> FALSE, next |-> NoCursor, ids |-> {}, todo |-> {}]

Run ==
  [step : {"idle", "fetch", "profile", "get", "ingest", "analyse"}, cursor : HistoryIds \cup {NoCursor},
   full : BOOLEAN, next : HistoryIds \cup {NoCursor}, ids : SUBSET Messages, todo : SUBSET Messages]

TypeOK ==
  /\ arrived \in HistoryIds
  /\ cursor \in HistoryIds \cup {NoCursor}
  /\ stored \in SUBSET Messages
  /\ analysed \in [Messages -> Nat]
  /\ run \in [Runs -> Run]
  /\ listed \in HistoryIds
  /\ given \in SUBSET Messages
  /\ faults \in 0 .. MaxFaults

Init ==
  /\ arrived = 0
  /\ cursor = NoCursor
  /\ stored = {}
  /\ analysed = [m \in Messages |-> 0]
  /\ run = [r \in Runs |-> Idle]
  /\ listed = 0
  /\ given = {}
  /\ faults = 0

At(r, step) == run[r].step = step
Fault == faults < MaxFaults /\ faults' = faults + 1

Arrive ==
  /\ arrived < N
  /\ arrived' = arrived + 1
  /\ UNCHANGED <<cursor, stored, analysed, run, listed, given, faults>>

\* The oldest and the newest of a set of messages, at most Limit of them.
Oldest(ms) == {m \in ms : Cardinality({k \in ms : k < m}) < Limit}
Newest(ms) == {m \in ms : Cardinality({k \in ms : k > m}) < Limit}

-----------------------------------------------------------------------------
(* A run asks the provider what is new *)

\* readSyncState
Begin(r) ==
  /\ At(r, "idle")
  /\ run' = [run EXCEPT ![r] = [Idle EXCEPT !.step = "fetch", !.cursor = cursor]]
  /\ UNCHANGED <<arrived, cursor, stored, analysed, listed, given, faults>>

Since(r) == {m \in Messages : run[r].cursor < m /\ m <= arrived}

\* Mutant: the cursor is written as soon as the history is known.
FetchHistoryEager(r) ==
  /\ At(r, "fetch")
  /\ run[r].cursor # NoCursor
  /\ run' = [run EXCEPT ![r].step = "get", ![r].ids = Oldest(Since(r)), ![r].next = arrived]
  /\ given' = given \cup (Since(r) \ Oldest(Since(r)))
  /\ cursor' = arrived
  /\ UNCHANGED <<arrived, stored, analysed, listed, faults>>

\* Mutant: the cursor stays where it was when the answer was cut.
FetchHistoryStuck(r) ==
  /\ At(r, "fetch")
  /\ run[r].cursor # NoCursor
  /\ run' = [run EXCEPT ![r].step = "get", ![r].ids = Oldest(Since(r)),
                        ![r].next = IF Since(r) = Oldest(Since(r)) THEN arrived ELSE run[r].cursor]
  /\ UNCHANGED <<arrived, cursor, stored, analysed, listed, given, faults>>

\* The cursor moves past everything in the answer, read or cut off.
FetchHistory(r) ==
  /\ At(r, "fetch")
  /\ run[r].cursor # NoCursor
  /\ run' = [run EXCEPT ![r].step = "get", ![r].ids = Oldest(Since(r)), ![r].next = arrived]
  /\ given' = given \cup (Since(r) \ Oldest(Since(r)))
  /\ UNCHANGED <<arrived, cursor, stored, analysed, listed, faults>>

\* There is no cursor, or the provider no longer knows it: the newest messages
\* of a window, the first page only.
ListMessages(r) ==
  /\ At(r, "fetch")
  /\ \E out \in Windows :
       run' = [run EXCEPT ![r].step = "profile", ![r].full = TRUE,
                          ![r].ids = Newest({m \in Messages : out < m /\ m <= arrived})]
  /\ UNCHANGED <<arrived, cursor, stored, analysed, listed, given, faults>>

\* The history id is asked for after the list.
GetProfile(r) ==
  /\ At(r, "profile")
  /\ run' = [run EXCEPT ![r].step = "get", ![r].next = arrived]
  /\ UNCHANGED <<arrived, cursor, stored, analysed, listed, given, faults>>

\* One unreadable message does not stop the rest.
GetMessages(r) ==
  /\ At(r, "get")
  /\ \E read \in SUBSET run[r].ids :
       /\ run' = [run EXCEPT ![r].step = "ingest", ![r].ids = read]
       /\ given' = given \cup (run[r].ids \ read)
  /\ UNCHANGED <<arrived, cursor, stored, analysed, listed, faults>>

-----------------------------------------------------------------------------
(* Each message is stored, then the ones this run stored are analysed *)

\* Mutant: the row is upserted, and a message stored before is analysed again.
StoreUpserting(r) ==
  /\ At(r, "ingest")
  /\ \E m \in run[r].ids :
       /\ stored' = stored \cup {m}
       /\ run' = [run EXCEPT ![r].ids = @ \ {m}, ![r].todo = @ \cup {m}]
  /\ UNCHANGED <<arrived, cursor, analysed, listed, given, faults>>

\* A message another run stored first is skipped, by its hash or by the index.
Store(r) ==
  /\ At(r, "ingest")
  /\ \E m \in run[r].ids :
       /\ stored' = stored \cup {m}
       /\ run' = [run EXCEPT ![r].ids = @ \ {m}, ![r].todo = @ \cup ({m} \ stored)]
  /\ UNCHANGED <<arrived, cursor, analysed, listed, given, faults>>

\* A message that fails is counted and left.
StoreFails(r) ==
  /\ At(r, "ingest")
  /\ \E m \in run[r].ids :
       /\ run' = [run EXCEPT ![r].ids = @ \ {m}]
       /\ given' = given \cup {m}
  /\ UNCHANGED <<arrived, cursor, stored, analysed, listed, faults>>

StartAnalysis(r) ==
  /\ At(r, "ingest") /\ run[r].ids = {}
  /\ run' = [run EXCEPT ![r].step = "analyse"]
  /\ UNCHANGED <<arrived, cursor, stored, analysed, listed, given, faults>>

\* The triage or the model settles it, or the model fails and it is counted.
Analyse(r) ==
  /\ At(r, "analyse")
  /\ \E m \in run[r].todo :
       /\ run' = [run EXCEPT ![r].todo = @ \ {m}]
       /\ analysed' = [analysed EXCEPT ![m] = @ + 1] \/ UNCHANGED analysed
  /\ UNCHANGED <<arrived, cursor, stored, listed, given, faults>>

Larger(a, b) == IF a > b THEN a ELSE b

\* An upsert whose error nobody looks at, over whatever another run wrote.
Save(r) ==
  /\ At(r, "analyse") /\ run[r].todo = {}
  /\ \/ /\ cursor' = run[r].next
        /\ listed' = IF run[r].full THEN Larger(listed, run[r].next) ELSE listed
        /\ UNCHANGED faults
     \/ Fault /\ UNCHANGED <<cursor, listed>>
  /\ run' = [run EXCEPT ![r] = Idle]
  /\ UNCHANGED <<arrived, stored, analysed, given>>

\* An exception, or the end of the invocation: the cursor stays.
GiveUp(r) ==
  /\ ~At(r, "idle")
  /\ Fault
  /\ run' = [run EXCEPT ![r] = Idle]
  /\ UNCHANGED <<arrived, cursor, stored, analysed, listed, given>>

Proceed(r) ==
  \/ FetchHistory(r) \/ ListMessages(r) \/ GetProfile(r) \/ GetMessages(r)
  \/ Store(r) \/ StoreFails(r) \/ StartAnalysis(r) \/ Analyse(r) \/ Save(r)

Next == Arrive \/ \E r \in Runs : Begin(r) \/ Proceed(r) \/ GiveUp(r)

Spec == Init /\ [][Next]_vars

\* A run that was started goes on; nobody has to start one.
FairSpec == Spec /\ \A r \in Runs : WF_vars(Proceed(r))

\* The messages whose analysis some run has yet to come to.
Waiting == UNION {run[r].todo : r \in Runs}

Received == INSTANCE Inbox WITH waiting <- Waiting

-----------------------------------------------------------------------------
(* Properties *)

\* Nothing is lost between two runs, however they overlap or die: a message the
\* cursor has passed is stored, or was in the mailbox when it was last listed in
\* full, or was given up by a run that read of it (sync.ts 133-220).
CursorCovers ==
  \A m \in Messages : listed < m /\ m <= cursor => m \in stored \cup given

\* "An identical message is never processed twice" (ingest.ts 32): two runs that
\* read it together analyse it once.
AnalysedOnce == \A m \in Messages : analysed[m] <= 1

\* However runs overlap, every step of one is a step of Inbox or changes nothing it
\* speaks of: a message gets its turn to be analysed from the run that stored it, once
\* and never again, and no save moves the cursor over what nobody dealt with (sync.ts
\* 133-220, ingest.ts 200-360).
ImplementsInbox == Received!Spec

\* As long as syncs are asked for, a message that arrives after the first list
\* does not wait for ever, unless a run gave it up or a later list took its
\* place: no run, however it ends, keeps the next one from it (sync.ts 8-14).
NewMailGetsIn ==
  \A m \in Messages :
    []<>(\E r \in Runs : ~At(r, "idle"))
      => (cursor # NoCursor /\ m <= arrived ~> m \in stored \cup given \/ m <= listed)
=============================================================================
