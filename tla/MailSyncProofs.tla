--------------------------- MODULE MailSyncProofs ---------------------------
(***************************************************************************)
(* Proofs about MailSync, for every mailbox, page limit and set of runs.   *)
(* IInv is inductive: what a run that will save a cursor has dealt with    *)
(* (ReadInv), and whose turn a message's analysis is (TodoInv).  SeenInv,  *)
(* that runs only know of what has arrived, comes on top of it, and with   *)
(* both every step of MailSync is a step of Inbox.                         *)
(***************************************************************************)
EXTENDS MailSync, FiniteSetTheorems, WellFoundedInduction, TLAPS

Dealt(m) == m \in stored \cup given

ReadInv(r) ==
  /\ run[r].step = "fetch" =>
       \A m \in Messages : listed < m /\ m <= run[r].cursor => Dealt(m)
  /\ run[r].step = "profile" => run[r].full
  /\ run[r].step \in {"get", "ingest", "analyse"} =>
       /\ run[r].next \in HistoryIds
       /\ run[r].full \/ \A m \in Messages :
                           listed < m /\ m <= run[r].next => Dealt(m) \/ m \in run[r].ids
  /\ run[r].step = "analyse" => run[r].ids = {}

TodoInv ==
  /\ \A r \in Runs : \A m \in run[r].todo : m \in stored /\ analysed[m] = 0
  /\ \A r, q \in Runs : r # q => run[r].todo \cap run[q].todo = {}
  /\ \A m \in Messages : analysed[m] > 0 => m \in stored

IInv ==
  /\ TypeOK
  /\ \A r \in Runs : ReadInv(r)
  /\ CursorCovers
  /\ TodoInv
  /\ AnalysedOnce

-----------------------------------------------------------------------------
(* Lemmas about one step *)

LEMMA IdleTyped == Idle \in Run /\ Idle.step = "idle" /\ Idle.todo = {}
  BY DEF Idle, Run, NoCursor

LEMMA InitInv == Init => IInv
<1> SUFFICES ASSUME Init PROVE IInv
  OBVIOUS
<1>1. TypeOK
  BY IdleTyped, BoundsAssumption DEF Init, TypeOK, HistoryIds, NoCursor
<1>2. CursorCovers /\ TodoInv /\ AnalysedOnce
  BY IdleTyped DEF Init, CursorCovers, TodoInv, AnalysedOnce, NoCursor, Messages
<1>3. \A r \in Runs : ReadInv(r)
  BY IdleTyped DEF Init, ReadInv
<1> QED BY <1>1, <1>2, <1>3 DEF IInv

\* A run takes a step that stores and analyses nothing and saves no cursor.
LEMMA RunStep ==
  ASSUME IInv, NEW r \in Runs, NEW held \in Run, run' = [run EXCEPT ![r] = held],
         held.todo \subseteq run[r].todo, ReadInv(r)',
         UNCHANGED <<arrived, cursor, stored, analysed, listed>>,
         given' \in SUBSET Messages, given \subseteq given', faults' \in 0 .. MaxFaults
  PROVE  IInv'
<1>1. run'[r] = held /\ \A q \in Runs \ {r} : run'[q] = run[q]
  BY DEF IInv, TypeOK
<1>2. TypeOK'
  BY DEF IInv, TypeOK
<1>3. ASSUME NEW q \in Runs PROVE ReadInv(q)'
  <2>1. CASE q = r
    BY <2>1
  <2>2. CASE q # r
    BY <2>2, <1>1 DEF IInv, ReadInv, Dealt
  <2> QED BY <2>1, <2>2
<1>4. CursorCovers'
  BY DEF IInv, CursorCovers
<1>5. TodoInv'
  <2>1. \A q \in Runs : run'[q].todo \subseteq run[q].todo
    BY <1>1
  <2> QED BY <2>1 DEF IInv, TodoInv
<1>6. AnalysedOnce'
  BY DEF IInv, AnalysedOnce
<1> QED BY <1>2, <1>3, <1>4, <1>5, <1>6 DEF IInv

LEMMA ArriveInv == IInv /\ Arrive => IInv'
<1> SUFFICES ASSUME IInv, Arrive PROVE IInv'
  OBVIOUS
<1>1. TypeOK'
  BY BoundsAssumption DEF IInv, TypeOK, Arrive, HistoryIds
<1>2. \A r \in Runs : ReadInv(r)'
  BY DEF IInv, Arrive, ReadInv, Dealt
<1>3. CursorCovers' /\ TodoInv' /\ AnalysedOnce'
  BY DEF IInv, Arrive, CursorCovers, TodoInv, AnalysedOnce
<1> QED BY <1>1, <1>2, <1>3 DEF IInv

LEMMA BeginInv == ASSUME IInv, NEW r \in Runs, Begin(r) PROVE IInv'
<1> DEFINE held == [Idle EXCEPT !.step = "fetch", !.cursor = cursor]
<1>1. held \in Run /\ held.step = "fetch" /\ held.cursor = cursor /\ held.todo = {}
  BY DEF IInv, TypeOK, Idle, Run, NoCursor
<1>2. run' = [run EXCEPT ![r] = held]
  BY DEF Begin
<1>3. run'[r] = held
  BY <1>2 DEF IInv, TypeOK
<1> HIDE DEF held
<1>4. ReadInv(r)'
  BY <1>1, <1>3 DEF IInv, Begin, ReadInv, Dealt, CursorCovers
<1> QED BY <1>1, <1>2, <1>4, RunStep DEF IInv, TypeOK, Begin

LEMMA FetchHistoryInv == ASSUME IInv, NEW r \in Runs, FetchHistory(r) PROVE IInv'
<1> DEFINE held == [run[r] EXCEPT !.step = "get", !.ids = Oldest(Since(r)), !.next = arrived]
<1>1. run[r] \in Run /\ Oldest(Since(r)) \subseteq Since(r) /\ Since(r) \subseteq Messages
  BY DEF IInv, TypeOK, Oldest, Since
<1>2. held \in Run /\ held.step = "get" /\ held.ids = Oldest(Since(r)) /\ held.next = arrived
      /\ held.todo = run[r].todo /\ held.full = run[r].full
  BY <1>1 DEF IInv, TypeOK, Run
<1>3. run' = [run EXCEPT ![r] = held]
  BY DEF FetchHistory
<1>4. run'[r] = held
  BY <1>3 DEF IInv, TypeOK
<1> HIDE DEF held
<1>5. ASSUME NEW m \in Messages, listed < m, m <= arrived
      PROVE  m \in stored \cup given' \/ m \in held.ids
  <2>1. CASE m <= run[r].cursor
    BY <2>1, <1>5 DEF IInv, ReadInv, Dealt, FetchHistory, At
  <2>2. CASE ~(m <= run[r].cursor)
    <3>1. run[r].cursor < m
      BY <2>2, <1>1 DEF Run, HistoryIds, NoCursor, Messages
    <3> QED BY <3>1, <1>5, <1>2 DEF Since, FetchHistory
  <2> QED BY <2>1, <2>2
<1>6. ReadInv(r)'
  BY <1>2, <1>4, <1>5 DEF IInv, TypeOK, FetchHistory, ReadInv, Dealt
<1>7. given' \in SUBSET Messages /\ given \subseteq given'
  BY <1>1 DEF IInv, TypeOK, FetchHistory
<1> QED BY <1>2, <1>3, <1>6, <1>7, RunStep DEF IInv, TypeOK, FetchHistory

LEMMA ListMessagesInv == ASSUME IInv, NEW r \in Runs, ListMessages(r) PROVE IInv'
<1> PICK out \in Windows :
      run' = [run EXCEPT ![r].step = "profile", ![r].full = TRUE,
                         ![r].ids = Newest({m \in Messages : out < m /\ m <= arrived})]
  BY DEF ListMessages
<1> DEFINE page == Newest({m \in Messages : out < m /\ m <= arrived})
           held == [run[r] EXCEPT !.step = "profile", !.full = TRUE, !.ids = page]
<1>1. page \subseteq Messages
  BY DEF Newest
<1> HIDE DEF page
<1>2. held \in Run /\ held.step = "profile" /\ held.full /\ held.todo = run[r].todo
  BY <1>1 DEF IInv, TypeOK, Run
<1>3. run' = [run EXCEPT ![r] = held]
  BY DEF page
<1>4. run'[r] = held
  BY <1>3 DEF IInv, TypeOK
<1> HIDE DEF held
<1>5. ReadInv(r)'
  BY <1>2, <1>4 DEF ReadInv
<1> QED BY <1>2, <1>3, <1>5, RunStep DEF IInv, TypeOK, ListMessages

LEMMA GetProfileInv == ASSUME IInv, NEW r \in Runs, GetProfile(r) PROVE IInv'
<1> DEFINE held == [run[r] EXCEPT !.step = "get", !.next = arrived]
<1>1. held \in Run /\ held.step = "get" /\ held.next = arrived /\ held.full = run[r].full
      /\ held.todo = run[r].todo
  BY DEF IInv, TypeOK, Run
<1>2. run' = [run EXCEPT ![r] = held]
  BY DEF GetProfile
<1>3. run'[r] = held
  BY <1>2 DEF IInv, TypeOK
<1> HIDE DEF held
<1>4. ReadInv(r)'
  BY <1>1, <1>3 DEF IInv, TypeOK, GetProfile, At, ReadInv
<1> QED BY <1>1, <1>2, <1>4, RunStep DEF IInv, TypeOK, GetProfile

LEMMA GetMessagesInv == ASSUME IInv, NEW r \in Runs, GetMessages(r) PROVE IInv'
<1> PICK read \in SUBSET run[r].ids :
      /\ run' = [run EXCEPT ![r].step = "ingest", ![r].ids = read]
      /\ given' = given \cup (run[r].ids \ read)
  BY DEF GetMessages
<1> DEFINE held == [run[r] EXCEPT !.step = "ingest", !.ids = read]
<1>1. run[r] \in Run /\ run[r].ids \subseteq Messages
  BY DEF IInv, TypeOK, Run
<1>2. held \in Run /\ held.step = "ingest" /\ held.ids = read /\ held.next = run[r].next
      /\ held.full = run[r].full /\ held.todo = run[r].todo
  BY <1>1 DEF Run
<1>3. run' = [run EXCEPT ![r] = held]
  OBVIOUS
<1>4. run'[r] = held
  BY <1>3 DEF IInv, TypeOK
<1> HIDE DEF held
<1>5. ReadInv(r)'
  BY <1>2, <1>4 DEF IInv, GetMessages, At, ReadInv, Dealt
<1> QED BY <1>1, <1>2, <1>3, <1>5, RunStep DEF IInv, TypeOK, GetMessages

LEMMA StoreFailsInv == ASSUME IInv, NEW r \in Runs, StoreFails(r) PROVE IInv'
<1> PICK m \in run[r].ids : run' = [run EXCEPT ![r].ids = @ \ {m}] /\ given' = given \cup {m}
  BY DEF StoreFails
<1> DEFINE held == [run[r] EXCEPT !.ids = @ \ {m}]
<1>1. run[r] \in Run /\ run[r].ids \subseteq Messages
  BY DEF IInv, TypeOK, Run
<1>2. held \in Run /\ held.step = run[r].step /\ held.ids = run[r].ids \ {m} /\ held.next = run[r].next
      /\ held.full = run[r].full /\ held.todo = run[r].todo
  BY <1>1 DEF Run
<1>3. run' = [run EXCEPT ![r] = held]
  OBVIOUS
<1>4. run'[r] = held
  BY <1>3 DEF IInv, TypeOK
<1> HIDE DEF held
<1>5. ReadInv(r)'
  BY <1>2, <1>4 DEF IInv, StoreFails, At, ReadInv, Dealt
<1> QED BY <1>1, <1>2, <1>3, <1>5, RunStep DEF IInv, TypeOK, StoreFails

LEMMA StartAnalysisInv == ASSUME IInv, NEW r \in Runs, StartAnalysis(r) PROVE IInv'
<1> DEFINE held == [run[r] EXCEPT !.step = "analyse"]
<1>1. held \in Run /\ held.step = "analyse" /\ held.ids = run[r].ids /\ held.next = run[r].next
      /\ held.full = run[r].full /\ held.todo = run[r].todo
  BY DEF IInv, TypeOK, Run
<1>2. run' = [run EXCEPT ![r] = held]
  BY DEF StartAnalysis
<1>3. run'[r] = held
  BY <1>2 DEF IInv, TypeOK
<1> HIDE DEF held
<1>4. ReadInv(r)'
  BY <1>1, <1>3 DEF IInv, StartAnalysis, At, ReadInv, Dealt
<1> QED BY <1>1, <1>2, <1>4, RunStep DEF IInv, TypeOK, StartAnalysis

LEMMA GiveUpInv == ASSUME IInv, NEW r \in Runs, GiveUp(r) PROVE IInv'
<1>1. run'[r] = Idle
  BY DEF IInv, TypeOK, GiveUp
<1>2. ReadInv(r)'
  BY <1>1, IdleTyped DEF ReadInv
<1>3. faults' \in 0 .. MaxFaults
  BY BoundsAssumption DEF IInv, TypeOK, GiveUp, Fault
<1> QED BY <1>2, <1>3, IdleTyped, RunStep DEF IInv, TypeOK, GiveUp

LEMMA StoreInv == ASSUME IInv, NEW r \in Runs, Store(r) PROVE IInv'
<1> PICK m \in run[r].ids :
      /\ stored' = stored \cup {m}
      /\ run' = [run EXCEPT ![r].ids = @ \ {m}, ![r].todo = @ \cup ({m} \ stored)]
  BY DEF Store
<1> DEFINE held == [run[r] EXCEPT !.ids = @ \ {m}, !.todo = @ \cup ({m} \ stored)]
<1>1. run[r] \in Run /\ m \in Messages
  BY DEF IInv, TypeOK, Run
<1>2. held \in Run /\ held.step = "ingest" /\ held.ids = run[r].ids \ {m} /\ held.next = run[r].next
      /\ held.full = run[r].full /\ held.todo = run[r].todo \cup ({m} \ stored)
  BY <1>1 DEF Run, Store, At
<1>3. run'[r] = held /\ \A q \in Runs \ {r} : run'[q] = run[q]
  BY DEF IInv, TypeOK
<1>4. TypeOK'
  BY <1>1, <1>2 DEF IInv, TypeOK, Store
<1> HIDE DEF held
<1>5. ASSUME NEW q \in Runs PROVE ReadInv(q)'
  <2>1. CASE q = r
    BY <2>1, <1>2, <1>3 DEF IInv, Store, At, ReadInv, Dealt
  <2>2. CASE q # r
    BY <2>2, <1>3 DEF IInv, Store, ReadInv, Dealt
  <2> QED BY <2>1, <2>2
<1>6. CursorCovers' /\ AnalysedOnce'
  BY DEF IInv, Store, CursorCovers, AnalysedOnce
<1>7. TodoInv'
  <2>1. \A q \in Runs : \A k \in run'[q].todo : k \in run[q].todo \/ (q = r /\ k = m /\ m \notin stored)
    BY <1>2, <1>3
  <2>2. m \notin stored => analysed[m] = 0 /\ \A q \in Runs : m \notin run[q].todo
    BY <1>1 DEF IInv, TodoInv, TypeOK
  <2>3. \A q \in Runs : \A k \in run'[q].todo : k \in stored' /\ analysed'[k] = 0
    BY <2>1, <2>2 DEF IInv, TodoInv, Store
  <2>4. ASSUME NEW q \in Runs, NEW s \in Runs, q # s, NEW k \in run'[q].todo, k \in run'[s].todo
        PROVE  FALSE
    <3>1. ~(k \in run[q].todo /\ k \in run[s].todo)
      BY <2>4 DEF IInv, TodoInv
    <3> QED BY <3>1, <2>1, <2>2, <2>4
  <2>5. \A k \in Messages : analysed'[k] > 0 => k \in stored'
    BY DEF IInv, TodoInv, Store
  <2> QED BY <2>3, <2>4, <2>5 DEF TodoInv
<1> QED BY <1>4, <1>5, <1>6, <1>7 DEF IInv

LEMMA AnalyseInv == ASSUME IInv, NEW r \in Runs, Analyse(r) PROVE IInv'
<1> PICK m \in run[r].todo :
      /\ run' = [run EXCEPT ![r].todo = @ \ {m}]
      /\ analysed' = [analysed EXCEPT ![m] = @ + 1] \/ UNCHANGED analysed
  BY DEF Analyse
<1> DEFINE held == [run[r] EXCEPT !.todo = @ \ {m}]
<1>1. run[r] \in Run /\ m \in Messages /\ m \in stored /\ analysed[m] = 0
  BY DEF IInv, TypeOK, Run, TodoInv
<1>2. held \in Run /\ held.step = run[r].step /\ held.ids = run[r].ids /\ held.next = run[r].next
      /\ held.full = run[r].full /\ held.todo = run[r].todo \ {m}
  BY <1>1 DEF Run
<1>3. run'[r] = held /\ \A q \in Runs \ {r} : run'[q] = run[q]
  BY DEF IInv, TypeOK
<1>4. analysed' \in [Messages -> Nat] /\ analysed'[m] \in {0, 1}
      /\ \A k \in Messages \ {m} : analysed'[k] = analysed[k]
  BY <1>1 DEF IInv, TypeOK
<1>5. TypeOK'
  BY <1>2, <1>4 DEF IInv, TypeOK, Analyse
<1> HIDE DEF held
<1>6. ASSUME NEW q \in Runs PROVE ReadInv(q)'
  <2>1. CASE q = r
    BY <2>1, <1>2, <1>3 DEF IInv, Analyse, At, ReadInv, Dealt
  <2>2. CASE q # r
    BY <2>2, <1>3 DEF IInv, Analyse, ReadInv, Dealt
  <2> QED BY <2>1, <2>2
<1>7. CursorCovers' /\ AnalysedOnce'
  BY <1>4 DEF IInv, Analyse, CursorCovers, AnalysedOnce
<1>8. TodoInv'
  <2>1. \A q \in Runs : run'[q].todo \subseteq run[q].todo \ {m}
    BY <1>2, <1>3 DEF IInv, TodoInv
  <2>2. \A q \in Runs : run[q].todo \subseteq Messages
    BY DEF IInv, TypeOK, Run
  <2>3. \A q \in Runs : \A k \in run'[q].todo : k \in stored' /\ analysed'[k] = 0
    BY <2>1, <2>2, <1>4 DEF IInv, TodoInv, Analyse
  <2>4. \A q, s \in Runs : q # s => run'[q].todo \cap run'[s].todo = {}
    BY <2>1 DEF IInv, TodoInv
  <2>5. \A k \in Messages : analysed'[k] > 0 => k \in stored'
    BY <1>1, <1>4 DEF IInv, TodoInv, Analyse
  <2> QED BY <2>3, <2>4, <2>5 DEF TodoInv
<1> QED BY <1>5, <1>6, <1>7, <1>8 DEF IInv

LEMMA SaveInv == ASSUME IInv, NEW r \in Runs, Save(r) PROVE IInv'
<1>1. run'[r] = Idle /\ \A q \in Runs \ {r} : run'[q] = run[q]
  BY DEF IInv, TypeOK, Save
<1>2. run[r].next \in HistoryIds /\ run[r].ids = {}
  BY DEF IInv, ReadInv, Save, At
<1>3. listed' \in HistoryIds /\ listed <= listed'
  BY <1>2 DEF IInv, TypeOK, Save, Larger, HistoryIds
<1>4. TypeOK'
  <2>1. run' \in [Runs -> Run]
    BY IdleTyped DEF IInv, TypeOK, Save
  <2>2. cursor' \in HistoryIds \cup {NoCursor} /\ faults' \in 0 .. MaxFaults
    BY <1>2, BoundsAssumption DEF IInv, TypeOK, Save, Fault
  <2> QED BY <2>1, <2>2, <1>3 DEF IInv, TypeOK, Save
<1>5. ASSUME NEW m \in Messages, listed' < m PROVE listed < m
  BY <1>3, <1>5 DEF IInv, TypeOK, HistoryIds, Messages
<1>6. ASSUME NEW q \in Runs PROVE ReadInv(q)'
  <2>1. CASE q = r
    BY <2>1, <1>1, IdleTyped DEF ReadInv
  <2>2. CASE q # r
    BY <2>2, <1>1, <1>5 DEF IInv, Save, ReadInv, Dealt
  <2> QED BY <2>1, <2>2
<1>7. CursorCovers'
  <2> SUFFICES ASSUME NEW m \in Messages, listed' < m, m <= cursor' PROVE Dealt(m)'
    BY DEF CursorCovers, Dealt
  <2>1. listed < m
    BY <1>5
  <2>2. CASE UNCHANGED cursor
    BY <2>1, <2>2 DEF IInv, CursorCovers, Save, Dealt
  <2>3. CASE cursor' = run[r].next /\ run[r].full /\ listed' = Larger(listed, run[r].next)
    BY <2>3, <1>2 DEF IInv, TypeOK, Larger, HistoryIds, Messages
  <2>4. CASE cursor' = run[r].next /\ ~run[r].full
    BY <2>1, <2>4, <1>2 DEF IInv, ReadInv, Save, At, Dealt
  <2> QED BY <2>2, <2>3, <2>4 DEF Save
<1>8. TodoInv'
  <2>1. \A q \in Runs : run'[q].todo \subseteq run[q].todo
    BY <1>1, IdleTyped
  <2> QED BY <2>1 DEF IInv, TodoInv, Save
<1>9. AnalysedOnce'
  BY DEF IInv, AnalysedOnce, Save
<1> QED BY <1>4, <1>6, <1>7, <1>8, <1>9 DEF IInv

LEMMA NextInv == IInv /\ [Next]_vars => IInv'
<1> SUFFICES ASSUME IInv, [Next]_vars PROVE IInv'
  OBVIOUS
<1>1. CASE UNCHANGED vars
  BY <1>1 DEF vars, IInv, TypeOK, ReadInv, Dealt, CursorCovers, TodoInv, AnalysedOnce
<1>2. CASE Arrive
  BY <1>2, ArriveInv
<1>3. ASSUME NEW r \in Runs, Begin(r) \/ Proceed(r) \/ GiveUp(r) PROVE IInv'
  BY <1>3, BeginInv, FetchHistoryInv, ListMessagesInv, GetProfileInv, GetMessagesInv, StoreInv,
     StoreFailsInv, StartAnalysisInv, AnalyseInv, SaveInv, GiveUpInv DEF Proceed
<1> QED BY <1>1, <1>2, <1>3 DEF Next

LEMMA Inductive == Spec => []IInv
  BY InitInv, NextInv, PTL DEF Spec

-----------------------------------------------------------------------------
(* Runs only know of what has arrived *)

Arrived == 1 .. arrived

SeenInv ==
  \A r \in Runs :
    /\ run[r].ids \cup run[r].todo \subseteq Arrived
    /\ run[r].step \in {"get", "ingest", "analyse"} => run[r].next \in 0 .. arrived

\* A page is cut from either end, never added to.
LEMMA PagesAreCut ==
  ASSUME NEW ms PROVE Oldest(ms) \subseteq ms /\ Newest(ms) \subseteq ms
  BY DEF Oldest, Newest

LEMMA InitSeen == Init => SeenInv
  BY DEF Init, SeenInv, Idle

LEMMA NextSeen == IInv /\ SeenInv /\ [Next]_vars => SeenInv'
<1> SUFFICES ASSUME IInv, SeenInv, [Next]_vars PROVE SeenInv'
  OBVIOUS
<1>0. run \in [Runs -> Run] /\ arrived \in 0 .. N /\ N \in Nat
  BY BoundsAssumption DEF IInv, TypeOK, HistoryIds
<1>1. CASE UNCHANGED vars
  BY <1>1 DEF vars, SeenInv, Arrived
<1>2. CASE Arrive
  <2>1. Arrived \subseteq Arrived' /\ 0 .. arrived \subseteq 0 .. arrived'
    BY <1>0, <1>2 DEF Arrive, Arrived
  <2> QED BY <1>2, <2>1 DEF Arrive, SeenInv
<1>3. ASSUME NEW r \in Runs, Begin(r) \/ Proceed(r) \/ GiveUp(r) PROVE SeenInv'
  <2>1. run[r] \in Run /\ arrived' = arrived /\ arrived \in 0 .. arrived
    BY <1>0, <1>3 DEF Begin, Proceed, GiveUp, FetchHistory, ListMessages, GetProfile, GetMessages,
                      Store, StoreFails, StartAnalysis, Analyse, Save
  <2>2. \A q \in Runs \ {r} : run'[q] = run[q]
    BY <1>0, <1>3 DEF Begin, Proceed, GiveUp, FetchHistory, ListMessages, GetProfile, GetMessages,
                      Store, StoreFails, StartAnalysis, Analyse, Save
  <2> SUFFICES /\ run'[r].ids \cup run'[r].todo \subseteq Arrived
               /\ run'[r].step \in {"get", "ingest", "analyse"} => run'[r].next \in 0 .. arrived
    BY <2>1, <2>2 DEF SeenInv, Arrived
  <2>3. CASE Begin(r)
    <3>1. run'[r] = [Idle EXCEPT !.step = "fetch", !.cursor = cursor]
      BY <1>0, <2>3 DEF Begin
    <3>2. run'[r].ids = {} /\ run'[r].todo = {} /\ run'[r].step = "fetch"
      BY <3>1 DEF Idle
    <3> QED BY <3>2
  <2>10. CASE Save(r) \/ GiveUp(r)
    <3>1. run'[r] = Idle
      BY <1>0, <2>10 DEF Save, GiveUp
    <3>2. run'[r].ids = {} /\ run'[r].todo = {} /\ run'[r].step = "idle"
      BY <3>1 DEF Idle
    <3> QED BY <3>2
  <2>4. CASE FetchHistory(r)
    <3>1. Since(r) \subseteq Arrived
      BY <1>0 DEF Since, Messages, Arrived
    <3>2. run'[r].ids = Oldest(Since(r)) /\ run'[r].todo = run[r].todo /\ run'[r].next = arrived
      BY <1>0, <2>1, <2>4 DEF FetchHistory, Run
    <3> QED BY <2>1, <3>1, <3>2, PagesAreCut DEF SeenInv
  <2>5. CASE ListMessages(r)
    <3>1. PICK out \in Windows :
            run' = [run EXCEPT ![r].step = "profile", ![r].full = TRUE,
                               ![r].ids = Newest({m \in Messages : out < m /\ m <= arrived})]
      BY <2>5 DEF ListMessages
    <3> DEFINE window == {m \in Messages : out < m /\ m <= arrived}
    <3>2. window \subseteq Arrived
      BY <1>0 DEF Messages, Arrived
    <3>3. run'[r].ids = Newest(window) /\ run'[r].todo = run[r].todo /\ run'[r].step = "profile"
      BY <1>0, <2>1, <3>1 DEF Run
    <3> QED BY <3>2, <3>3, PagesAreCut DEF SeenInv
  <2>6. CASE GetProfile(r)
    <3>1. run'[r].ids = run[r].ids /\ run'[r].todo = run[r].todo /\ run'[r].next = arrived
      BY <1>0, <2>1, <2>6 DEF GetProfile, Run
    <3> QED BY <2>1, <3>1 DEF SeenInv
  <2>7. CASE GetMessages(r)
    <3>1. /\ run'[r].ids \subseteq run[r].ids /\ run'[r].todo = run[r].todo
          /\ run'[r].next = run[r].next
      BY <1>0, <2>1, <2>7 DEF GetMessages, Run
    <3> QED BY <2>7, <3>1 DEF SeenInv, GetMessages, At
  <2>8. CASE Store(r) \/ StoreFails(r)
    <3>1. /\ run'[r].ids \cup run'[r].todo \subseteq run[r].ids \cup run[r].todo
          /\ run'[r].next = run[r].next
      <4>1. CASE Store(r)
        BY <1>0, <2>1, <4>1 DEF Store, Run
      <4>2. CASE StoreFails(r)
        BY <1>0, <2>1, <4>2 DEF StoreFails, Run
      <4> QED BY <2>8, <4>1, <4>2
    <3> QED BY <2>8, <3>1 DEF SeenInv, Store, StoreFails, At
  <2>9. CASE StartAnalysis(r) \/ Analyse(r)
    <3>1. /\ run'[r].ids \cup run'[r].todo \subseteq run[r].ids \cup run[r].todo
          /\ run'[r].next = run[r].next
      BY <1>0, <2>1, <2>9 DEF StartAnalysis, Analyse, Run
    <3> QED BY <2>9, <3>1 DEF SeenInv, StartAnalysis, Analyse, At
  <2> QED BY <1>3, <2>3, <2>4, <2>5, <2>6, <2>7, <2>8, <2>9, <2>10 DEF Proceed
<1> QED BY <1>1, <1>2, <1>3 DEF Next

-----------------------------------------------------------------------------
(* Every step is a step of Inbox or changes nothing it speaks of *)

\* One run's share of what is waiting changes, the others' stay.
LEMMA WaitingWithout ==
  ASSUME IInv, NEW r \in Runs, \A q \in Runs \ {r} : run'[q] = run[q]
  PROVE  /\ run'[r].todo = run[r].todo => Waiting' = Waiting
         /\ run'[r].todo \subseteq run[r].todo => Waiting' \in SUBSET Waiting
         /\ \A m \in run[r].todo : run'[r].todo = run[r].todo \ {m} => Waiting' = Waiting \ {m}
         /\ \A m : run'[r].todo = run[r].todo \cup {m} => Waiting' = Waiting \cup {m}
<1>1. \A q, s \in Runs : q # s => run[q].todo \cap run[s].todo = {}
  BY DEF IInv, TodoInv
<1>2. Waiting' = UNION {run'[q].todo : q \in Runs}
  BY DEF Waiting
<1> QED BY <1>1, <1>2 DEF Waiting

\* A step that changes no more than what waits only loses turns.
LEMMA TurnsLost ==
  ASSUME Waiting' \in SUBSET Waiting,
         UNCHANGED <<arrived, stored, given, analysed, cursor, listed>>
  PROVE  Received!Next
  BY DEF Received!Next, Received!LoseTurns

LEMMA SomePassedOver ==
  ASSUME SeenInv, NEW ms \in SUBSET Arrived, given' = given \cup ms, Waiting' = Waiting,
         UNCHANGED <<arrived, stored, analysed, cursor, listed>>
  PROVE  Received!Next
  BY DEF Received!Next, Received!PassOver, Received!Present, Arrived

LEMMA InitReceived == Init => Received!Init
<1> SUFFICES ASSUME Init PROVE Received!Init
  OBVIOUS
<1>1. Waiting = {}
  BY DEF Init, Waiting, Idle
<1> QED BY <1>1 DEF Init, Received!Init, NoCursor, Messages, Received!Messages

LEMMA StoreReceived ==
  ASSUME IInv, SeenInv, NEW r \in Runs, Store(r)
  PROVE  Received!Next
<1>0. run \in [Runs -> Run] /\ run[r] \in Run
  BY DEF IInv, TypeOK
<1> PICK m \in run[r].ids :
      /\ stored' = stored \cup {m}
      /\ run' = [run EXCEPT ![r].ids = @ \ {m}, ![r].todo = @ \cup ({m} \ stored)]
  BY DEF Store
<1>1. run'[r].todo = run[r].todo \cup ({m} \ stored) /\ \A q \in Runs \ {r} : run'[q] = run[q]
  BY <1>0 DEF Run
<1>2. CASE m \in stored
  <2>1. run'[r].todo = run[r].todo /\ stored' = stored
    BY <1>1, <1>2
  <2>2. Waiting' \in SUBSET Waiting
    BY <1>1, <2>1, WaitingWithout
  <2> QED BY <2>1, <2>2, TurnsLost DEF Store
<1>3. CASE m \notin stored
  <2>1. run'[r].todo = run[r].todo \cup {m}
    BY <1>1, <1>3
  <2>2. Waiting' = Waiting \cup {m}
    BY <1>1, <2>1, WaitingWithout
  <2>3. m \in Received!Present
    BY DEF SeenInv, Arrived, Received!Present
  <2>4. Received!Store(m)
    BY <1>3, <2>2 DEF Received!Store, Store
  <2> QED BY <2>3, <2>4 DEF Received!Next
<1> QED BY <1>2, <1>3

LEMMA AnalyseReceived ==
  ASSUME IInv, SeenInv, NEW r \in Runs, Analyse(r)
  PROVE  Received!Next
<1>0. run \in [Runs -> Run] /\ run[r] \in Run
  BY DEF IInv, TypeOK
<1> PICK m \in run[r].todo :
      /\ run' = [run EXCEPT ![r].todo = @ \ {m}]
      /\ analysed' = [analysed EXCEPT ![m] = @ + 1] \/ UNCHANGED analysed
  BY DEF Analyse
<1>1. run'[r].todo = run[r].todo \ {m} /\ \A q \in Runs \ {r} : run'[q] = run[q]
  BY <1>0 DEF Run
<1>2. Waiting' = Waiting \ {m} /\ m \in Waiting
  BY <1>1, WaitingWithout DEF Waiting
<1>3. CASE UNCHANGED analysed
  BY <1>2, <1>3, TurnsLost DEF Analyse
<1>4. CASE analysed' = [analysed EXCEPT ![m] = @ + 1]
  <2>1. m \in Received!Present
    BY DEF SeenInv, Arrived, Received!Present
  <2>2. Received!Analyse(m)
    BY <1>2, <1>4 DEF Received!Analyse, Analyse
  <2> QED BY <2>1, <2>2 DEF Received!Next
<1> QED BY <1>3, <1>4

LEMMA SaveReceived ==
  ASSUME IInv, SeenInv, NEW r \in Runs, Save(r)
  PROVE  Received!Next
<1>0. run \in [Runs -> Run] /\ listed \in 0 .. N /\ N \in Nat /\ arrived \in 0 .. N
  BY BoundsAssumption DEF IInv, TypeOK, HistoryIds
<1>1. run'[r].todo = run[r].todo /\ \A q \in Runs \ {r} : run'[q] = run[q]
  BY <1>0 DEF Save, Idle
<1>2. Waiting' = Waiting
  BY <1>1, WaitingWithout
<1>3. run[r].next \in 0 .. arrived /\ run[r].ids = {} /\ ReadInv(r)
  BY DEF SeenInv, IInv, ReadInv, Save, At
<1>4. CASE UNCHANGED <<cursor, listed>>
  BY <1>2, <1>4, TurnsLost DEF Save
<1>5. CASE cursor' = run[r].next /\ run[r].full /\ listed' = Larger(listed, run[r].next)
  <2>1. Received!Relist
    BY <1>2, <1>3, <1>5 DEF Received!Relist, Save, Larger
  <2> QED BY <2>1 DEF Received!Next
<1>6. CASE cursor' = run[r].next /\ ~run[r].full /\ listed' = listed
  <2>1. \A m \in Messages : listed < m /\ m <= run[r].next => m \in stored \cup given
    BY <1>3, <1>6 DEF ReadInv, Dealt, Save, At
  <2>2. Received!Advance
    BY <1>2, <1>3, <1>6, <2>1 DEF Received!Advance, Save, Messages, Received!Messages
  <2> QED BY <2>2 DEF Received!Next
<1> QED BY <1>4, <1>5, <1>6 DEF Save

\* What a run does before it stores, and a message that fails alone.
LEMMA ReadReceived ==
  ASSUME IInv, SeenInv, NEW r \in Runs, FetchHistory(r) \/ GetMessages(r) \/ StoreFails(r)
  PROVE  Received!Next
<1>0. run \in [Runs -> Run] /\ run[r] \in Run /\ arrived \in 0 .. N /\ N \in Nat
  BY BoundsAssumption DEF IInv, TypeOK, HistoryIds
<1>1. run'[r].todo = run[r].todo /\ \A q \in Runs \ {r} : run'[q] = run[q]
  BY <1>0 DEF FetchHistory, GetMessages, StoreFails, Run
<1>2. Waiting' = Waiting
  BY <1>1, WaitingWithout
<1>3. Since(r) \subseteq Arrived /\ run[r].ids \subseteq Arrived
  BY <1>0 DEF Since, Messages, Arrived, SeenInv
<1>4. CASE FetchHistory(r)
  <2> DEFINE cut == Since(r) \ Oldest(Since(r))
  <2>1. cut \in SUBSET Arrived /\ given' = given \cup cut
    BY <1>3, <1>4 DEF FetchHistory
  <2> HIDE DEF cut
  <2> QED BY <1>2, <1>4, <2>1, SomePassedOver DEF FetchHistory
<1>5. CASE GetMessages(r)
  <2>1. PICK read \in SUBSET run[r].ids : given' = given \cup (run[r].ids \ read)
    BY <1>5 DEF GetMessages
  <2> DEFINE unread == run[r].ids \ read
  <2>2. unread \in SUBSET Arrived /\ given' = given \cup unread
    BY <1>3, <2>1
  <2> HIDE DEF unread
  <2> QED BY <1>2, <1>5, <2>2, SomePassedOver DEF GetMessages
<1>6. CASE StoreFails(r)
  <2>1. PICK m \in run[r].ids : given' = given \cup {m}
    BY <1>6 DEF StoreFails
  <2>2. {m} \in SUBSET Arrived
    BY <1>3
  <2> QED BY <1>2, <1>6, <2>1, <2>2, SomePassedOver DEF StoreFails
<1> QED BY <1>4, <1>5, <1>6

LEMMA QuietReceived ==
  ASSUME IInv, NEW r \in Runs,
         Begin(r) \/ ListMessages(r) \/ GetProfile(r) \/ StartAnalysis(r) \/ GiveUp(r)
  PROVE  Received!Next
<1>0. run \in [Runs -> Run] /\ run[r] \in Run
  BY DEF IInv, TypeOK
<1>1. run'[r].todo \subseteq run[r].todo /\ \A q \in Runs \ {r} : run'[q] = run[q]
  <2>1. CASE Begin(r) \/ GiveUp(r)
    <3>1. run'[r] = Idle \/ run'[r] = [Idle EXCEPT !.step = "fetch", !.cursor = cursor]
      BY <1>0, <2>1 DEF Begin, GiveUp
    <3>2. run'[r].todo = Idle.todo
      BY <3>1 DEF Idle
    <3> QED BY <1>0, <2>1, <3>2, IdleTyped DEF Begin, GiveUp
  <2>2. CASE ListMessages(r)
    <3>1. PICK page : run' = [run EXCEPT ![r].step = "profile", ![r].full = TRUE, ![r].ids = page]
      BY <2>2 DEF ListMessages
    <3>2. run'[r].todo = run[r].todo /\ \A q \in Runs \ {r} : run'[q] = run[q]
      BY <1>0, <3>1 DEF Run
    <3> QED BY <3>2
  <2>3. CASE GetProfile(r) \/ StartAnalysis(r)
    <3>1. CASE GetProfile(r)
      BY <1>0, <3>1 DEF GetProfile, Run
    <3>2. CASE StartAnalysis(r)
      BY <1>0, <3>2 DEF StartAnalysis, Run
    <3> QED BY <2>3, <3>1, <3>2
  <2> QED BY <2>1, <2>2, <2>3
<1>2. Waiting' \in SUBSET Waiting
  BY <1>1, WaitingWithout
<1> QED BY <1>2, TurnsLost DEF Begin, ListMessages, GetProfile, StartAnalysis, GiveUp

LEMMA NextReceived == IInv /\ SeenInv /\ [Next]_vars => [Received!Next]_(Received!vars)
<1> SUFFICES ASSUME IInv, SeenInv, [Next]_vars PROVE [Received!Next]_(Received!vars)
  OBVIOUS
<1>1. CASE UNCHANGED vars
  <2>1. Waiting' = Waiting
    BY <1>1 DEF vars, Waiting
  <2> QED BY <1>1, <2>1 DEF vars, Received!vars
<1>2. CASE Arrive
  <2>1. Waiting' = Waiting
    BY <1>2 DEF Arrive, Waiting
  <2> QED BY <1>2, <2>1 DEF Arrive, Received!Next, Received!Arrive
<1>3. ASSUME NEW r \in Runs, Begin(r) \/ Proceed(r) \/ GiveUp(r) PROVE Received!Next
  BY <1>3, StoreReceived, AnalyseReceived, SaveReceived, ReadReceived, QuietReceived DEF Proceed
<1> QED BY <1>1, <1>2, <1>3 DEF Next

-----------------------------------------------------------------------------
(* Theorems *)

\* The mailbox, the rows and every run keep their types.
THEOREM TypeCorrect == Spec => []TypeOK
<1>1. IInv => TypeOK
  BY DEF IInv
<1> QED BY <1>1, Inductive, PTL

\* Whatever runs overlap, die or write over each other's cursor, what the cursor
\* has passed was stored or given up by a run that read of it, or listed.
THEOREM CursorAlwaysCovers == Spec => []CursorCovers
<1>1. IInv => CursorCovers
  BY DEF IInv
<1> QED BY <1>1, Inductive, PTL

\* However many runs read a message together, its thread is analysed once for it.
THEOREM AnalysedOnceAlways == Spec => []AnalysedOnce
<1>1. IInv => AnalysedOnce
  BY DEF IInv
<1> QED BY <1>1, Inductive, PTL

\* Every step of every run, overlapping and dying ones included, is a step of Inbox
\* or a stutter: a message's turn to be analysed comes once, from the run that stored
\* it, and no save moves the cursor over what nobody dealt with.
THEOREM InboxIsKept == Spec => ImplementsInbox
<1>1. Spec => []SeenInv
  BY InitSeen, NextSeen, Inductive, PTL DEF Spec
<1> QED BY <1>1, Inductive, InitReceived, NextReceived, PTL DEF Spec, ImplementsInbox, Received!Spec

-----------------------------------------------------------------------------
(* What a page holds *)

LEMMA HasLast ==
  ASSUME NEW S \in SUBSET Int, IsFiniteSet(S), S # {}
  PROVE  \E m \in S : \A k \in S : k <= m
<1> DEFINE Above(m) == {k \in S : k > m}
           R == StrictSubsetOrdering(S)
           T == {Above(m) : m \in S}
<1>0. \A k \in S : k \in Int
  OBVIOUS
<1>1. IsWellFoundedOn(R, FiniteSubsetsOf(S))
  BY FS_StrictSubsetOrderingWellFounded
<1>2. T \subseteq FiniteSubsetsOf(S) /\ T # {}
  <2>1. ASSUME NEW m \in S PROVE Above(m) \in FiniteSubsetsOf(S)
    <3>1. Above(m) \in SUBSET S
      OBVIOUS
    <3>2. IsFiniteSet(Above(m))
      BY <3>1, FS_Subset
    <3> QED BY <3>1, <3>2 DEF FiniteSubsetsOf
  <2>2. T # {}
    OBVIOUS
  <2> QED BY <2>1, <2>2
<1> HIDE DEF R
<1>3. \E t \in T : \A u \in T : ~(<<u, t>> \in R)
  BY <1>1, <1>2, WFMin
<1>4. PICK m \in S : \A k \in S : <<Above(k), Above(m)>> \notin R
  BY <1>3
<1>5. ASSUME NEW k \in S, k > m PROVE FALSE
  <2>0. \A j \in S : j > k => j > m
    BY <1>0, <1>5
  <2>1. Above(k) \subseteq Above(m)
    BY <2>0
  <2>2. k \in Above(m) /\ k \notin Above(k)
    BY <1>5
  <2> QED BY <1>4, <2>1, <2>2 DEF R, StrictSubsetOrdering
<1> QED BY <1>5

LEMMA HasFirst ==
  ASSUME NEW S \in SUBSET Int, IsFiniteSet(S), S # {}
  PROVE  \E m \in S : \A k \in S : m <= k
<1> DEFINE Below(m) == {k \in S : k < m}
           R == StrictSubsetOrdering(S)
           T == {Below(m) : m \in S}
<1>0. \A k \in S : k \in Int
  OBVIOUS
<1>1. IsWellFoundedOn(R, FiniteSubsetsOf(S))
  BY FS_StrictSubsetOrderingWellFounded
<1>2. T \subseteq FiniteSubsetsOf(S) /\ T # {}
  <2>1. ASSUME NEW m \in S PROVE Below(m) \in FiniteSubsetsOf(S)
    <3>1. Below(m) \in SUBSET S
      OBVIOUS
    <3>2. IsFiniteSet(Below(m))
      BY <3>1, FS_Subset
    <3> QED BY <3>1, <3>2 DEF FiniteSubsetsOf
  <2>2. T # {}
    OBVIOUS
  <2> QED BY <2>1, <2>2
<1> HIDE DEF R
<1>3. \E t \in T : \A u \in T : ~(<<u, t>> \in R)
  BY <1>1, <1>2, WFMin
<1>4. PICK m \in S : \A k \in S : <<Below(k), Below(m)>> \notin R
  BY <1>3
<1>5. ASSUME NEW k \in S, k < m PROVE FALSE
  <2>0. \A j \in S : j < k => j < m
    BY <1>0, <1>5
  <2>1. Below(k) \subseteq Below(m)
    BY <2>0
  <2>2. k \in Below(m) /\ k \notin Below(k)
    BY <1>5
  <2> QED BY <1>4, <2>1, <2>2 DEF R, StrictSubsetOrdering
<1> QED BY <1>5

\* The oldest of a history answer are its first ones, Limit of them, or all if they fit.
LEMMA OldestIsAPage ==
  ASSUME NEW ms \in SUBSET Messages
  PROVE  /\ \A m \in Oldest(ms), k \in ms \ Oldest(ms) : m < k
         /\ Cardinality(Oldest(ms)) <= Limit
         /\ Oldest(ms) # ms => Cardinality(Oldest(ms)) = Limit
<1> DEFINE Before(m) == {k \in ms : k < m}
<1>1. ms \in SUBSET Int /\ Oldest(ms) \in SUBSET ms /\ Limit \in Nat \ {0} /\ N \in Nat
  BY BoundsAssumption DEF Messages, Oldest
<1>0. (\A m \in ms : m \in Int) /\ \A m \in Oldest(ms) : m \in ms
  BY <1>1
<1>2. IsFiniteSet(ms)
  <2>1. IsFiniteSet(1 .. N)
    <3>1. 1 \in Int /\ N \in Int
      BY <1>1
    <3> QED BY <3>1, FS_Interval
  <2>2. ms \in SUBSET (1 .. N)
    BY DEF Messages
  <2> QED BY <2>1, <2>2, FS_Subset
<1>3. \A t \in SUBSET ms : IsFiniteSet(t) /\ Cardinality(t) \in Nat
  <2> SUFFICES ASSUME NEW t \in SUBSET ms PROVE IsFiniteSet(t) /\ Cardinality(t) \in Nat
    OBVIOUS
  <2>1. IsFiniteSet(t)
    BY <1>2, FS_Subset
  <2> QED BY <2>1, FS_CardinalityType
<1>4. \A t \in SUBSET ms : \A u \in SUBSET t : Cardinality(u) <= Cardinality(t)
  <2> SUFFICES ASSUME NEW t \in SUBSET ms, NEW u \in SUBSET t
      PROVE Cardinality(u) <= Cardinality(t)
    OBVIOUS
  <2>1. IsFiniteSet(t)
    BY <1>3
  <2> QED BY <2>1, FS_Subset
<1>5. \A m \in ms : m \in Oldest(ms) <=> Cardinality(Before(m)) < Limit
  BY DEF Oldest
<1>6. \A m \in ms : Before(m) \in SUBSET ms
  OBVIOUS
<1> HIDE DEF Before
<1>7. ASSUME NEW m \in Oldest(ms), NEW k \in ms, k <= m PROVE k \in Oldest(ms)
  <2>4. \A j \in ms : j < k => j < m
    BY <1>7, <1>0
  <2>1. Before(k) \in SUBSET Before(m)
    BY <2>4 DEF Before
  <2>2. Cardinality(Before(k)) <= Cardinality(Before(m))
    BY <1>4, <1>6, <1>0, <2>1
  <2>3. Cardinality(Before(k)) \in Nat /\ Cardinality(Before(m)) \in Nat
    BY <1>3, <1>6, <1>0
  <2>5. Cardinality(Before(m)) < Limit
    BY <1>5, <1>0
  <2>6. Cardinality(Before(k)) < Limit
    BY <1>1, <2>2, <2>3, <2>5
  <2> QED BY <1>5, <2>6
<1>8. \A m \in Oldest(ms), k \in ms \ Oldest(ms) : m < k
  <2> SUFFICES ASSUME NEW m \in Oldest(ms), NEW k \in ms \ Oldest(ms) PROVE m < k
    OBVIOUS
  <2>1. ~(k <= m)
    BY <1>7
  <2> QED BY <1>0, <2>1
<1>9. Cardinality(Oldest(ms)) <= Limit
  <2>1. CASE Oldest(ms) = {}
    BY <1>1, <2>1, FS_EmptySet
  <2>2. CASE Oldest(ms) # {}
    <3>1. PICK m \in Oldest(ms) : \A k \in Oldest(ms) : k <= m
      <4>1. Oldest(ms) \in SUBSET Int /\ IsFiniteSet(Oldest(ms))
        BY <1>1, <1>3
      <4> QED BY <2>2, <4>1, HasLast
    <3>2. Oldest(ms) = Before(m) \cup {m} /\ m \notin Before(m)
      <4>1. Before(m) \cup {m} \subseteq Oldest(ms)
        <5>1. \A k \in Before(m) : k \in ms /\ k <= m
          BY <1>0 DEF Before
        <5> QED BY <1>7, <5>1
      <4>2. Oldest(ms) \subseteq Before(m) \cup {m}
        <5>1. \A k \in Oldest(ms) : k = m \/ k < m
          BY <1>0, <3>1
        <5> QED BY <1>0, <5>1 DEF Before
      <4>3. m \notin Before(m)
        BY <1>0 DEF Before
      <4> QED BY <4>1, <4>2, <4>3
    <3>3. Cardinality(Before(m) \cup {m}) = Cardinality(Before(m)) + 1
      BY <1>1, <1>3, <1>6, <3>2, FS_AddElement
    <3>4. Cardinality(Before(m)) < Limit /\ Cardinality(Before(m)) \in Nat
      BY <1>1, <1>3, <1>5, <1>6
    <3> QED BY <1>1, <3>2, <3>3, <3>4
  <2> QED BY <2>1, <2>2
<1>10. ASSUME Oldest(ms) # ms PROVE Cardinality(Oldest(ms)) >= Limit
  <2>1. PICK m \in ms \ Oldest(ms) : \A k \in ms \ Oldest(ms) : m <= k
    <3>1. /\ ms \ Oldest(ms) \in SUBSET Int /\ IsFiniteSet(ms \ Oldest(ms))
          /\ ms \ Oldest(ms) # {}
      BY <1>1, <1>3, <1>10
    <3> QED BY <3>1, HasFirst
  <2>2. Before(m) \in SUBSET Oldest(ms)
    <3>1. ASSUME NEW k \in Before(m), k \notin Oldest(ms) PROVE FALSE
      BY <1>0, <2>1, <3>1 DEF Before
    <3> QED BY <3>1
  <2>3. Cardinality(Before(m)) <= Cardinality(Oldest(ms))
    BY <1>1, <1>4, <2>2
  <2>4. Cardinality(Before(m)) \in Nat /\ Cardinality(Oldest(ms)) \in Nat
    BY <1>1, <1>3, <1>6
  <2>5. ~(Cardinality(Before(m)) < Limit)
    BY <1>5, <2>1
  <2> QED BY <1>1, <2>3, <2>4, <2>5
<1>11. Cardinality(Oldest(ms)) \in Nat
  BY <1>1, <1>3
<1> QED BY <1>1, <1>8, <1>9, <1>10, <1>11

\* A history answer is only cut when its page is full, and from its young end: what a
\* run passes over unread is younger than all it takes (sync.ts 133-149).
CutsOnlyFullPages ==
  [][\A r \in Runs :
       FetchHistory(r) =>
         /\ Cardinality(run'[r].ids) <= Limit
         /\ given' # given => Cardinality(run'[r].ids) = Limit
         /\ \A m \in given' \ given, k \in run'[r].ids : k < m]_vars

\* However many messages arrived since the cursor was read, and whoever moved it since.
THEOREM CutsAreOfFullPages == Spec => CutsOnlyFullPages
<1> DEFINE Fair(r) ==
      /\ Cardinality(run'[r].ids) <= Limit
      /\ given' # given => Cardinality(run'[r].ids) = Limit
      /\ \A m \in given' \ given, k \in run'[r].ids : k < m
<1>1. ASSUME IInv, NEW r \in Runs, FetchHistory(r) PROVE Fair(r)
  <2>1. Since(r) \in SUBSET Messages
    BY DEF Since
  <2>2. /\ run'[r].ids = Oldest(Since(r))
        /\ given' = given \cup (Since(r) \ Oldest(Since(r)))
    BY <1>1 DEF FetchHistory, IInv, TypeOK, Run
  <2>3. /\ \A m \in Oldest(Since(r)), k \in Since(r) \ Oldest(Since(r)) : m < k
        /\ Cardinality(Oldest(Since(r))) <= Limit
        /\ Oldest(Since(r)) # Since(r) => Cardinality(Oldest(Since(r))) = Limit
    BY <2>1, OldestIsAPage
  <2> QED BY <2>2, <2>3
<1>2. IInv /\ [Next]_vars => [\A r \in Runs : FetchHistory(r) => Fair(r)]_vars
  BY <1>1
<1> QED BY <1>2, Inductive, PTL DEF Spec, CutsOnlyFullPages
=============================================================================
