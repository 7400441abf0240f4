--------------------------- MODULE PromisesProofs ---------------------------
(***************************************************************************)
(* What the abstract specifications give by themselves.  The part of the   *)
(* system that implements one is shown to in that part's own proofs; what  *)
(* is proved here is proved of the promise, from its few actions, and so   *)
(* holds of every implementation, whatever its calls, faults and races.    *)
(* The names of the abstract variables are shared where promises use the   *)
(* same word; no theorem is about two of them.                             *)
(***************************************************************************)
EXTENDS ApprovalRules, TLAPS

CONSTANTS
  Keys,                                          \* Outbox
  N,                                             \* Inbox
  Accounts, Mailboxes, Consents, Status, None,   \* Links, and None for Shelf
  Features, Versions, Bodies,                    \* Shelf
  Admins, Roles,                                 \* Roster, and Admins for GrantLedger
  Subjects, Scopes, Grants, Ceiling, Null,       \* GrantLedger, and Null for ApprovalMachine
  Rows                                           \* ApprovalMachine

VARIABLES
  delivery, open, handed,
  arrived, stored, given, waiting, analysed, cursor, listed,
  picked, account, used, spent, held,
  shelf, bare,
  role,
  now, grant, reveals, trail, seen,
  status, payload, sent

Sending == INSTANCE Outbox
Reading == INSTANCE Inbox
Linking == INSTANCE Links
Serving == INSTANCE Shelf
Standing == INSTANCE Roster
Granting == INSTANCE GrantLedger
Gate == INSTANCE ApprovalMachine

-----------------------------------------------------------------------------
(* The outbox: push.ts. *)

OutboxInv ==
  /\ delivery \in [Keys -> {"absent", "claimed", "sent", "failed"}]
  /\ handed \in [Keys -> {0, 1}]
  /\ \A k \in Keys :
       /\ k \in open => delivery[k] = "claimed" /\ handed[k] = 0
       /\ delivery[k] \in {"absent", "failed"} => handed[k] = 0
       /\ delivery[k] = "sent" => handed[k] = 1

LEMMA OutboxStep == OutboxInv /\ [Sending!Next]_(Sending!vars) => OutboxInv'
<1> SUFFICES ASSUME OutboxInv, [Sending!Next]_(Sending!vars) PROVE OutboxInv'
  OBVIOUS
<1> USE DEF OutboxInv
<1>1. ASSUME NEW k \in Keys, Sending!Claim(k) PROVE OutboxInv'
  BY <1>1 DEF Sending!Claim
<1>2. ASSUME NEW k \in Keys, Sending!Hand(k) PROVE OutboxInv'
  BY <1>2 DEF Sending!Hand
<1>3. ASSUME NEW k \in Keys, Sending!Refuse(k) PROVE OutboxInv'
  BY <1>3 DEF Sending!Refuse
<1>4. ASSUME NEW k \in Keys, Sending!MarkSent(k) PROVE OutboxInv'
  BY <1>4 DEF Sending!MarkSent
<1>5. ASSUME NEW k \in Keys, Sending!LetGo(k) PROVE OutboxInv'
  BY <1>5 DEF Sending!LetGo
<1>6. CASE UNCHANGED Sending!vars
  BY <1>6 DEF Sending!vars
<1> QED BY <1>1, <1>2, <1>3, <1>4, <1>5, <1>6 DEF Sending!Next

\* A message is handed over at most once; one marked sent was, one marked failed was
\* not (push.ts 140-248).
SentAsMarked ==
  \A k \in Keys :
    /\ handed[k] <= 1
    /\ delivery[k] = "sent" => handed[k] = 1
    /\ delivery[k] = "failed" => handed[k] = 0

\* Whatever implements the outbox hands a message over at most once and marks it truly.
THEOREM OutboxSendsOnce == Sending!Spec => []SentAsMarked
<1>1. Sending!Init => OutboxInv
  BY DEF Sending!Init, OutboxInv
<1>2. OutboxInv => SentAsMarked
  BY DEF OutboxInv, SentAsMarked
<1> QED BY <1>1, <1>2, OutboxStep, PTL DEF Sending!Spec

-----------------------------------------------------------------------------
(* The roster: admins.ts and the floor trigger of 0019. *)

\* The console always has a super_admin (0019, admin_users_protect_last_super_admin).
SuperAdminRemains ==
  /\ role \in [Admins -> Roles]
  /\ \E a \in Admins : role[a] = "super_admin"

\* Whatever implements the roster never leaves it without a super_admin; SupportAccess
\* is built on that.
THEOREM RosterKeepsItsLast == Standing!Spec => []SuperAdminRemains
<1>1. Standing!Init => SuperAdminRemains
  BY DEF Standing!Init, SuperAdminRemains
<1>2. SuperAdminRemains /\ [Standing!Next]_role => SuperAdminRemains'
  BY DEF SuperAdminRemains, Standing!Next, Standing!Change
<1> QED BY <1>1, <1>2, PTL DEF Standing!Spec

-----------------------------------------------------------------------------
(* The inbox: sync.ts and ingest.ts. *)

InboxInv ==
  /\ arrived \in 0 .. N
  /\ stored \subseteq Reading!Messages
  /\ waiting \subseteq stored
  /\ analysed \in [Reading!Messages -> {0, 1}]
  /\ \A m \in Reading!Messages : m \in waiting \/ m \notin stored => analysed[m] = 0
  /\ \A m \in Reading!Messages : listed < m /\ m <= cursor => m \in stored \cup given
  /\ cursor \in Int /\ listed \in Int

LEMMA InboxStep == ASSUME N \in Nat, InboxInv, [Reading!Next]_(Reading!vars) PROVE InboxInv'
<1> USE DEF InboxInv, Reading!Messages, Reading!Present
<1>1. CASE Reading!Arrive
  BY <1>1 DEF Reading!Arrive
<1>2. CASE Reading!PassOver
  BY <1>2 DEF Reading!PassOver
<1>3. CASE Reading!LoseTurns
  BY <1>3 DEF Reading!LoseTurns
<1>4. CASE Reading!Advance
  BY <1>4 DEF Reading!Advance
<1>5. CASE Reading!Relist
  BY <1>5 DEF Reading!Relist
<1>6. ASSUME NEW m \in Reading!Present, Reading!Store(m) PROVE InboxInv'
  BY <1>6 DEF Reading!Store
<1>7. ASSUME NEW m \in Reading!Present, Reading!Analyse(m) PROVE InboxInv'
  BY <1>7 DEF Reading!Analyse
<1>8. CASE UNCHANGED Reading!vars
  BY <1>8 DEF Reading!vars
<1> QED BY <1>1, <1>2, <1>3, <1>4, <1>5, <1>6, <1>7, <1>8 DEF Reading!Next

\* No message is analysed twice or unstored, and one the cursor has passed was stored,
\* passed over, or in the mailbox at a full list (sync.ts 133-220, ingest.ts 200-360).
ReadOnce ==
  /\ \A m \in Reading!Messages : analysed[m] <= 1 /\ (m \notin stored => analysed[m] = 0)
  /\ \A m \in Reading!Messages : listed < m /\ m <= cursor => m \in stored \cup given

\* Whatever implements the inbox loses no message silently and analyses none twice.
THEOREM InboxReadsOnce == ASSUME N \in Nat PROVE Reading!Spec => []ReadOnce
<1>1. Reading!Init => InboxInv
  BY DEF Reading!Init, InboxInv, Reading!Messages
<1>2. InboxInv => ReadOnce
  BY DEF InboxInv, ReadOnce
<1>3. InboxInv /\ [Reading!Next]_(Reading!vars) => InboxInv'
  BY InboxStep
<1> QED BY <1>1, <1>2, <1>3, PTL DEF Reading!Spec

-----------------------------------------------------------------------------
(* The links: oauth-complete, accounts-disconnect and oauth.ts. *)

LinkRow == [mailbox : Mailboxes, status : Status, primary : BOOLEAN]

MailboxesApart ==
  \A a, b \in Accounts :
    Linking!Exists(a) /\ Linking!Exists(b) /\ account[a].mailbox = account[b].mailbox => a = b

OnePrimary ==
  \A a, b \in Accounts :
    /\ Linking!Exists(a) /\ Linking!Exists(b)
    /\ account[a].primary /\ account[b].primary
    => a = b

GrantsOfTheirOwn ==
  \A a \in Accounts : \A s \in held[a] :
    /\ Linking!Exists(a)
    /\ s \in spent /\ picked[s] = account[a].mailbox

LinksInv ==
  /\ account \in [Accounts -> LinkRow \cup {None}]
  /\ picked \in [Consents -> Mailboxes \cup {None}]
  /\ held \in [Accounts -> SUBSET Consents]
  /\ \A a \in Accounts : Linking!Exists(a) => a \in used
  /\ spent \subseteq Consents
  /\ \A s \in spent : picked[s] # None
  /\ MailboxesApart
  /\ OnePrimary
  /\ GrantsOfTheirOwn

LEMMA LinkKeepsLinks ==
  ASSUME "connected" \in Status, None \notin LinkRow, LinksInv,
         NEW s \in Consents, NEW a \in Accounts, Linking!Link(s, a)
  PROVE  LinksInv'
<1> USE DEF LinksInv, Linking!Exists
<1>1. PICK primary \in BOOLEAN :
        /\ primary => \A b \in Accounts \ {a} : Linking!Exists(b) => ~account[b].primary
        /\ account' = [account EXCEPT ![a] =
             [mailbox |-> picked[s], status |-> "connected", primary |-> primary]]
  BY DEF Linking!Link
<1> DEFINE row == [mailbox |-> picked[s], status |-> "connected", primary |-> primary]
<1>2. picked[s] \in Mailboxes /\ row \in LinkRow /\ row # None
  BY DEF Linking!Link, LinkRow
<1>3. row.mailbox = picked[s] /\ row.primary = primary
  OBVIOUS
<1>4. \A b \in Accounts : account'[b] = IF b = a THEN row ELSE account[b]
  BY <1>1
<1>5. account' \in [Accounts -> LinkRow \cup {None}]
  BY <1>1, <1>2
<1>6. held' = held /\ picked' = picked /\ used' = used \cup {a} /\ spent' = spent \cup {s}
  BY DEF Linking!Link
<1>7. \A b \in Accounts \ {a} : Linking!Exists(b) => account[b].mailbox # picked[s]
  BY DEF Linking!Link, MailboxesApart
<1> HIDE DEF row
<1>8. MailboxesApart'
  BY <1>2, <1>3, <1>4, <1>7 DEF MailboxesApart
<1>9. OnePrimary'
  BY <1>1, <1>2, <1>3, <1>4 DEF OnePrimary
<1>10. GrantsOfTheirOwn'
  <2> SUFFICES ASSUME NEW b \in Accounts, NEW t \in held[b]
      PROVE /\ Linking!Exists(b)'
            /\ t \in spent' /\ picked'[t] = account'[b].mailbox
    BY <1>6 DEF GrantsOfTheirOwn
  <2>1. Linking!Exists(b) /\ t \in spent /\ picked[t] = account[b].mailbox
    BY DEF GrantsOfTheirOwn
  <2>2. b = a => account[a].mailbox = picked[s]
    BY <2>1 DEF Linking!Link
  <2> QED BY <1>2, <1>3, <1>4, <1>6, <2>1, <2>2
<1>11. /\ \A b \in Accounts : Linking!Exists(b)' => b \in used'
       /\ spent' \subseteq Consents /\ \A t \in spent' : picked'[t] # None
  BY <1>4, <1>6 DEF Linking!Link
<1> QED BY <1>5, <1>6, <1>8, <1>9, <1>10, <1>11

LEMMA MarkKeepsLinks ==
  ASSUME None \notin LinkRow, LinksInv,
         NEW a \in Accounts, NEW state \in Status, Linking!Mark(a, state)
  PROVE  LinksInv'
<1> USE DEF LinksInv, Linking!Exists
<1> DEFINE row == [account[a] EXCEPT !.status = state]
<1>1. account[a] \in LinkRow
  BY DEF Linking!Mark
<1>2. /\ row \in LinkRow /\ row # None
      /\ row.mailbox = account[a].mailbox /\ row.primary = account[a].primary
  BY <1>1 DEF LinkRow
<1>3. account' = [account EXCEPT ![a] = row] /\ UNCHANGED <<picked, used, spent, held>>
  BY DEF Linking!Mark
<1>4. \A b \in Accounts : account'[b] = IF b = a THEN row ELSE account[b]
  BY <1>3
<1> HIDE DEF row
<1>5. \A b \in Accounts :
        /\ Linking!Exists(b)' <=> Linking!Exists(b)
        /\ Linking!Exists(b) => /\ account'[b].mailbox = account[b].mailbox
                                /\ account'[b].primary = account[b].primary
  BY <1>1, <1>2, <1>4
<1>6. account' \in [Accounts -> LinkRow \cup {None}]
  BY <1>2, <1>3
<1>7. MailboxesApart' /\ OnePrimary'
  BY <1>5 DEF MailboxesApart, OnePrimary
<1>8. GrantsOfTheirOwn'
  BY <1>3, <1>5 DEF GrantsOfTheirOwn
<1> QED BY <1>3, <1>5, <1>6, <1>7, <1>8

LEMMA LinksStep ==
  ASSUME "connected" \in Status, None \notin LinkRow,
         LinksInv, [Linking!Next]_(Linking!vars)
  PROVE  LinksInv'
<1>1. ASSUME NEW s \in Consents, NEW m \in Mailboxes, Linking!SignIn(s, m) PROVE LinksInv'
  BY <1>1 DEF LinksInv, Linking!SignIn, Linking!Exists, MailboxesApart, OnePrimary, GrantsOfTheirOwn
<1>2. ASSUME NEW s \in Consents, NEW a \in Accounts, Linking!Hold(s, a) PROVE LinksInv'
  BY <1>2 DEF LinksInv, Linking!Hold, Linking!Exists, MailboxesApart, OnePrimary, GrantsOfTheirOwn
<1>3. ASSUME NEW a \in Accounts, Linking!Forget(a) \/ Linking!Drop(a) PROVE LinksInv'
  BY <1>3 DEF LinksInv, Linking!Forget, Linking!Drop, Linking!Exists,
              MailboxesApart, OnePrimary, GrantsOfTheirOwn
<1>4. CASE UNCHANGED Linking!vars
  BY <1>4 DEF LinksInv, Linking!vars, Linking!Exists, MailboxesApart, OnePrimary, GrantsOfTheirOwn
<1> QED BY <1>1, <1>2, <1>3, <1>4, LinkKeepsLinks, MarkKeepsLinks DEF Linking!Next

\* No two accounts are of one mailbox, at most one is primary, and the grants an account
\* holds were given for its own mailbox by consents that are spent (oauth-complete).
LinksApart == MailboxesApart /\ OnePrimary /\ GrantsOfTheirOwn

\* Whatever implements the links keeps accounts and mailboxes one to one and no account
\* ever holds another mailbox's grant.
THEOREM LinksStayApart ==
  ASSUME "connected" \in Status, None \notin LinkRow
  PROVE  Linking!Spec => []LinksApart
<1>1. Linking!Init => LinksInv
  BY DEF Linking!Init, LinksInv, Linking!Exists, MailboxesApart, OnePrimary, GrantsOfTheirOwn
<1>2. LinksInv => LinksApart
  BY DEF LinksInv, LinksApart
<1>3. LinksInv /\ [Linking!Next]_(Linking!vars) => LinksInv'
  BY LinksStep
<1> QED BY <1>1, <1>2, <1>3, PTL DEF Linking!Spec

-----------------------------------------------------------------------------
(* The shelf: lib/actions/prompts.ts and the indexes of prompt_versions. *)

ShelfRow ==
  [feature : Features, number : Nat, status : {"draft", "active", "down", "archived"}, body : Bodies]

OneServed ==
  \A v, w \in Versions :
    /\ Serving!Is(v, "active") /\ Serving!Is(w, "active")
    /\ shelf[v].feature = shelf[w].feature
    => v = w

NumbersApart ==
  \A v, w \in Versions :
    /\ shelf[v] # None /\ shelf[w] # None
    /\ shelf[v].feature = shelf[w].feature /\ shelf[v].number = shelf[w].number
    => v = w

NumbersFollow ==
  \A v \in Versions : shelf[v] # None =>
    shelf[v].number = 1 \/ \E w \in Serving!Of(shelf[v].feature) : shelf[w].number + 1 = shelf[v].number

\* A feature not known to be bare is served, or waits for the version taken down.
ServedOrDown ==
  \A f \in Features \ bare :
    \E v \in Serving!Of(f) : shelf[v].status \in {"active", "down"}

ShelfInv ==
  /\ shelf \in [Versions -> ShelfRow \cup {None}]
  /\ bare \subseteq Features
  /\ OneServed
  /\ NumbersApart
  /\ NumbersFollow
  /\ ServedOrDown

\* A step that moves versions from status to status, seen through the fields it keeps.
LEMMA MovesKeepShelf ==
  ASSUME ShelfInv, shelf' \in [Versions -> ShelfRow \cup {None}], bare' \subseteq Features,
         \A v \in Versions :
           /\ shelf'[v] # None <=> shelf[v] # None
           /\ shelf[v] # None => /\ shelf'[v].feature = shelf[v].feature
                                 /\ shelf'[v].number = shelf[v].number,
         OneServed', ServedOrDown'
  PROVE  ShelfInv'
<1>1. NumbersApart'
  BY DEF ShelfInv, NumbersApart
<1>2. NumbersFollow'
  <2> SUFFICES ASSUME NEW v \in Versions, shelf'[v] # None, shelf'[v].number # 1
      PROVE \E w \in Versions : /\ shelf'[w] # None /\ shelf'[w].feature = shelf'[v].feature
                                /\ shelf'[w].number + 1 = shelf'[v].number
    BY DEF NumbersFollow, Serving!Of
  <2>1. PICK w \in Serving!Of(shelf[v].feature) : shelf[w].number + 1 = shelf[v].number
    BY DEF ShelfInv, NumbersFollow
  <2> QED BY <2>1 DEF Serving!Of
<1> QED BY <1>1, <1>2 DEF ShelfInv

LEMMA DraftKeepsShelf ==
  ASSUME None \notin ShelfRow, ShelfInv, NEW v \in Versions, Serving!Draft(v)
  PROVE  ShelfInv'
<1> USE DEF ShelfInv, Serving!Of, Serving!Is
<1>1. PICK f \in Features, b \in Bodies : \E n \in Serving!Numbers(f) :
        shelf' = [shelf EXCEPT ![v] = [feature |-> f, number |-> n, status |-> "draft", body |-> b]]
  BY DEF Serving!Draft
<1>2. PICK n \in Serving!Numbers(f) :
        shelf' = [shelf EXCEPT ![v] = [feature |-> f, number |-> n, status |-> "draft", body |-> b]]
  BY <1>1
<1> DEFINE row == [feature |-> f, number |-> n, status |-> "draft", body |-> b]
<1>3. \A w \in Versions : shelf[w] # None => shelf[w] \in ShelfRow
  OBVIOUS
<1>4. n \in Nat /\ \A w \in Serving!Of(f) : shelf[w].number # n
  BY <1>3 DEF Serving!Numbers, ShelfRow
<1>5. row \in ShelfRow /\ row # None
  BY <1>4 DEF ShelfRow
<1>6. row.feature = f /\ row.number = n /\ row.status = "draft"
  OBVIOUS
<1>7. shelf[v] = None /\ bare' = bare
  BY DEF Serving!Draft
<1>8. shelf' \in [Versions -> ShelfRow \cup {None}]
  BY <1>2, <1>5
<1>9. \A w \in Versions : shelf'[w] = IF w = v THEN row ELSE shelf[w]
  BY <1>2
<1> HIDE DEF row
<1>10. OneServed'
  BY <1>6, <1>9 DEF OneServed
<1>11. NumbersApart'
  BY <1>4, <1>6, <1>9 DEF NumbersApart
<1>12. ServedOrDown'
  BY <1>7, <1>9 DEF ServedOrDown
<1>13. n = 1 \/ \E w \in Serving!Of(f) : shelf[w].number + 1 = n
  BY DEF Serving!Numbers
<1>14. NumbersFollow'
  <2> SUFFICES ASSUME NEW u \in Versions, shelf'[u] # None, shelf'[u].number # 1
      PROVE \E w \in Versions : /\ shelf'[w] # None /\ shelf'[w].feature = shelf'[u].feature
                                /\ shelf'[w].number + 1 = shelf'[u].number
    BY DEF NumbersFollow
  <2>1. CASE u = v
    BY <1>6, <1>7, <1>9, <1>13, <2>1
  <2>2. CASE u # v
    <3>1. PICK w \in Serving!Of(shelf[u].feature) : shelf[w].number + 1 = shelf[u].number
      BY <1>9, <2>2 DEF NumbersFollow
    <3>2. w # v /\ shelf'[w] = shelf[w] /\ shelf'[u] = shelf[u]
      BY <1>7, <1>9, <2>2, <3>1
    <3> QED BY <3>1, <3>2
  <2> QED BY <2>1, <2>2
<1> QED BY <1>7, <1>8, <1>10, <1>11, <1>12, <1>14

LEMMA EditKeepsShelf ==
  ASSUME None \notin ShelfRow, ShelfInv, NEW v \in Versions, Serving!Edit(v)
  PROVE  ShelfInv'
<1> USE DEF Serving!Of, Serving!Is
<1>1. PICK b \in Bodies : shelf' = [shelf EXCEPT ![v].body = b]
  BY DEF Serving!Edit
<1> DEFINE row == [shelf[v] EXCEPT !.body = b]
<1>2. shelf[v] \in ShelfRow
  BY DEF Serving!Edit, ShelfInv
<1>3. /\ row \in ShelfRow /\ row # None
      /\ row.feature = shelf[v].feature /\ row.number = shelf[v].number
      /\ row.status = shelf[v].status
  BY <1>2 DEF ShelfRow
<1>4. shelf' = [shelf EXCEPT ![v] = row]
  BY <1>1
<1>5. shelf' \in [Versions -> ShelfRow \cup {None}] /\ bare' = bare
  BY <1>3, <1>4 DEF ShelfInv, Serving!Edit
<1>6. \A w \in Versions : shelf'[w] = IF w = v THEN row ELSE shelf[w]
  BY <1>4 DEF ShelfInv
<1> HIDE DEF row
<1>7. \A w \in Versions :
        /\ shelf'[w] # None <=> shelf[w] # None
        /\ shelf[w] # None => /\ shelf'[w].feature = shelf[w].feature
                              /\ shelf'[w].number = shelf[w].number
                              /\ shelf'[w].status = shelf[w].status
  BY <1>2, <1>3, <1>6
<1>8. OneServed' /\ ServedOrDown'
  BY <1>5, <1>7 DEF ShelfInv, OneServed, ServedOrDown
<1> QED BY <1>5, <1>7, <1>8, MovesKeepShelf DEF ShelfInv

\* What moving one version does to the shelf.
LEMMA Moved ==
  ASSUME None \notin ShelfRow, ShelfInv, NEW v \in Versions, shelf[v] # None,
         NEW to \in {"draft", "active", "down", "archived"},
         shelf' = [shelf EXCEPT ![v].status = to]
  PROVE  /\ shelf' \in [Versions -> ShelfRow \cup {None}]
         /\ \A w \in Versions :
              /\ shelf'[w] # None <=> shelf[w] # None
              /\ shelf[w] # None => /\ shelf'[w].feature = shelf[w].feature
                                    /\ shelf'[w].number = shelf[w].number
                                    /\ shelf'[w].status = IF w = v THEN to ELSE shelf[w].status
<1> DEFINE row == [shelf[v] EXCEPT !.status = to]
<1>1. shelf[v] \in ShelfRow
  BY DEF ShelfInv
<1>2. /\ row \in ShelfRow /\ row # None
      /\ row.feature = shelf[v].feature /\ row.number = shelf[v].number /\ row.status = to
  BY <1>1 DEF ShelfRow
<1>3. shelf' = [shelf EXCEPT ![v] = row]
  OBVIOUS
<1>4. \A w \in Versions : shelf'[w] = IF w = v THEN row ELSE shelf[w]
  BY <1>3 DEF ShelfInv
<1>5. shelf' \in [Versions -> ShelfRow \cup {None}]
  BY <1>2, <1>3 DEF ShelfInv
<1> HIDE DEF row
<1> QED BY <1>1, <1>2, <1>4, <1>5

\* A version goes live where none is: promoted, or put back.
LEMMA LiftKeepsShelf ==
  ASSUME None \notin ShelfRow, ShelfInv, NEW v \in Versions, shelf[v] # None,
         ~Serving!HasLive(shelf[v].feature),
         shelf' = [shelf EXCEPT ![v].status = "active"],
         bare' = bare \ {shelf[v].feature}
  PROVE  ShelfInv'
<1> USE DEF Serving!Of, Serving!Is
<1>1. /\ shelf' \in [Versions -> ShelfRow \cup {None}]
      /\ \A w \in Versions :
           /\ shelf'[w] # None <=> shelf[w] # None
           /\ shelf[w] # None => /\ shelf'[w].feature = shelf[w].feature
                                 /\ shelf'[w].number = shelf[w].number
                                 /\ shelf'[w].status = IF w = v THEN "active" ELSE shelf[w].status
  BY Moved
<1>2. OneServed'
  BY <1>1 DEF ShelfInv, OneServed, Serving!HasLive
<1>3. ServedOrDown'
  <2> SUFFICES ASSUME NEW f \in Features \ bare'
      PROVE \E w \in Versions : /\ shelf'[w] # None /\ shelf'[w].feature = f
                                /\ shelf'[w].status \in {"active", "down"}
    BY DEF ServedOrDown
  <2>1. CASE f = shelf[v].feature
    BY <1>1, <2>1
  <2>2. CASE f # shelf[v].feature
    <3>1. PICK w \in Serving!Of(f) : shelf[w].status \in {"active", "down"}
      BY <2>2 DEF ShelfInv, ServedOrDown
    <3> QED BY <1>1, <3>1
  <2> QED BY <2>1, <2>2
<1>4. bare' \subseteq Features
  BY DEF ShelfInv
<1> QED BY <1>1, <1>2, <1>3, <1>4, MovesKeepShelf

\* A version that was not live is archived, or its feature is marked bare.
LEMMA LowerKeepsShelf ==
  ASSUME None \notin ShelfRow, ShelfInv, NEW v \in Versions, shelf[v] # None,
         NEW to \in {"down", "archived"},
         shelf' = [shelf EXCEPT ![v].status = to],
         \/ bare' = bare /\ to = "down"
         \/ bare' = bare /\ shelf[v].status = "draft"
         \/ bare' = bare /\ shelf[v].status = "down" /\ Serving!HasLive(shelf[v].feature)
         \/ bare' = bare \cup {shelf[v].feature}
  PROVE  ShelfInv'
<1> USE DEF Serving!Of, Serving!Is
<1>1. /\ shelf' \in [Versions -> ShelfRow \cup {None}]
      /\ \A w \in Versions :
           /\ shelf'[w] # None <=> shelf[w] # None
           /\ shelf[w] # None => /\ shelf'[w].feature = shelf[w].feature
                                 /\ shelf'[w].number = shelf[w].number
                                 /\ shelf'[w].status = IF w = v THEN to ELSE shelf[w].status
  <2>1. to \in {"draft", "active", "down", "archived"}
    OBVIOUS
  <2> QED BY <2>1, Moved
<1>2. OneServed'
  BY <1>1 DEF ShelfInv, OneServed
<1>3. ServedOrDown'
  <2> SUFFICES ASSUME NEW f \in Features \ bare'
      PROVE \E w \in Versions : /\ shelf'[w] # None /\ shelf'[w].feature = f
                                /\ shelf'[w].status \in {"active", "down"}
    BY DEF ServedOrDown
  <2>1. PICK w \in Serving!Of(f) : shelf[w].status \in {"active", "down"}
    BY DEF ShelfInv, ServedOrDown
  <2>2. CASE w # v \/ to = "down"
    BY <1>1, <2>1, <2>2
  <2>3. CASE w = v /\ to = "archived"
    <3>1. f = shelf[v].feature /\ shelf[v].status = "down" /\ Serving!HasLive(f)
      BY <2>1, <2>3
    <3>2. PICK u \in Serving!Of(f) : shelf[u].status = "active"
      BY <3>1 DEF Serving!HasLive
    <3> QED BY <1>1, <3>1, <3>2
  <2> QED BY <2>2, <2>3
<1>4. bare' \subseteq Features
  BY DEF ShelfInv, ShelfRow
<1> QED BY <1>1, <1>2, <1>3, <1>4, MovesKeepShelf

\* A draft goes live and the version taken down for it is archived in the same step.
LEMMA SwapKeepsShelf ==
  ASSUME None \notin ShelfRow, ShelfInv, NEW v \in Versions, NEW w \in Versions,
         Serving!Is(v, "draft"), Serving!Is(w, "down"), shelf[w].feature = shelf[v].feature,
         ~Serving!HasLive(shelf[v].feature),
         shelf' = [shelf EXCEPT ![v].status = "active", ![w].status = "archived"],
         bare' = bare \ {shelf[v].feature}
  PROVE  ShelfInv'
<1> USE DEF Serving!Of, Serving!Is
<1> DEFINE row == [shelf[v] EXCEPT !.status = "active"]
           old == [shelf[w] EXCEPT !.status = "archived"]
<1>1. v # w /\ shelf[v] \in ShelfRow /\ shelf[w] \in ShelfRow
  BY DEF ShelfInv
<1>2. /\ row \in ShelfRow /\ row # None
      /\ row.feature = shelf[v].feature /\ row.number = shelf[v].number /\ row.status = "active"
  BY <1>1 DEF ShelfRow
<1>3. /\ old \in ShelfRow /\ old # None
      /\ old.feature = shelf[w].feature /\ old.number = shelf[w].number /\ old.status = "archived"
  BY <1>1 DEF ShelfRow
<1>4. \A u \in Versions : shelf'[u] = IF u = v THEN row ELSE IF u = w THEN old ELSE shelf[u]
  BY <1>1 DEF ShelfInv
<1>5. shelf' \in [Versions -> ShelfRow \cup {None}]
  BY <1>2, <1>3, <1>4 DEF ShelfInv
<1> HIDE DEF row, old
<1>6. \A u \in Versions :
        /\ shelf'[u] # None <=> shelf[u] # None
        /\ shelf[u] # None =>
             /\ shelf'[u].feature = shelf[u].feature
             /\ shelf'[u].number = shelf[u].number
             /\ shelf'[u].status = IF u = v THEN "active"
                                   ELSE IF u = w THEN "archived" ELSE shelf[u].status
  <2> SUFFICES ASSUME NEW u \in Versions
      PROVE /\ shelf'[u] # None <=> shelf[u] # None
            /\ shelf[u] # None =>
                 /\ shelf'[u].feature = shelf[u].feature
                 /\ shelf'[u].number = shelf[u].number
                 /\ shelf'[u].status = IF u = v THEN "active"
                                       ELSE IF u = w THEN "archived" ELSE shelf[u].status
    OBVIOUS
  <2>1. CASE u = v
    <3>1. shelf'[u] = row
      BY <1>4, <2>1
    <3> QED BY <1>2, <2>1, <3>1
  <2>2. CASE u # v /\ u = w
    <3>1. shelf'[u] = old
      BY <1>4, <2>2
    <3> QED BY <1>3, <2>2, <3>1
  <2>3. CASE u # v /\ u # w
    <3>1. shelf'[u] = shelf[u]
      BY <1>4, <2>3
    <3> QED BY <2>3, <3>1
  <2> QED BY <2>1, <2>2, <2>3
<1>7. OneServed'
  BY <1>6 DEF OneServed, ShelfInv, Serving!HasLive
<1>8. ServedOrDown'
  <2> SUFFICES ASSUME NEW f \in Features \ bare'
      PROVE \E u \in Versions : /\ shelf'[u] # None /\ shelf'[u].feature = f
                                /\ shelf'[u].status \in {"active", "down"}
    BY DEF ServedOrDown
  <2>1. CASE f = shelf[v].feature
    BY <1>6, <2>1
  <2>2. CASE f # shelf[v].feature
    <3>1. PICK u \in Serving!Of(f) : shelf[u].status \in {"active", "down"}
      BY <2>2 DEF ShelfInv, ServedOrDown
    <3> QED BY <1>6, <2>2, <3>1
  <2> QED BY <2>1, <2>2
<1>9. bare' \subseteq Features
  BY DEF ShelfInv
<1> QED BY <1>5, <1>6, <1>7, <1>8, <1>9, MovesKeepShelf

LEMMA ShelfStep ==
  ASSUME None \notin ShelfRow, ShelfInv, [Serving!Next]_(Serving!vars) PROVE ShelfInv'
<1> USE DEF Serving!Move, Serving!Is, Serving!Of
<1>1. ASSUME NEW v \in Versions, Serving!Promote(v) PROVE ShelfInv'
  <2>1. CASE Serving!Move(v, "active")
    BY <1>1, <2>1, LiftKeepsShelf DEF Serving!Promote
  <2>2. ASSUME NEW w \in Serving!Of(shelf[v].feature), Serving!Is(w, "down"),
               shelf' = [shelf EXCEPT ![v].status = "active", ![w].status = "archived"]
        PROVE ShelfInv'
    BY <1>1, <2>2, SwapKeepsShelf DEF Serving!Promote
  <2> QED BY <1>1, <2>1, <2>2 DEF Serving!Promote
<1>2. ASSUME NEW v \in Versions, Serving!PutBack(v) PROVE ShelfInv'
  BY <1>2, LiftKeepsShelf DEF Serving!PutBack
<1>3. ASSUME NEW v \in Versions, Serving!TakeDown(v) PROVE ShelfInv'
  BY <1>3, LowerKeepsShelf DEF Serving!TakeDown
<1>4. ASSUME NEW v \in Versions, Serving!Settle(v) PROVE ShelfInv'
  BY <1>4, LowerKeepsShelf DEF Serving!Settle
<1>5. ASSUME NEW v \in Versions, Serving!Abandon(v) PROVE ShelfInv'
  BY <1>5, LowerKeepsShelf DEF Serving!Abandon
<1>6. ASSUME NEW v \in Versions, Serving!Retire(v) PROVE ShelfInv'
  BY <1>6, LowerKeepsShelf DEF Serving!Retire
<1>7. CASE UNCHANGED Serving!vars
  BY <1>7 DEF Serving!vars, ShelfInv, OneServed, NumbersApart, NumbersFollow, ServedOrDown
<1> QED BY <1>1, <1>2, <1>3, <1>4, <1>5, <1>6, <1>7, DraftKeepsShelf, EditKeepsShelf
        DEF Serving!Next

\* A feature has at most one version live, and loses it only to a swap under way or to
\* be known as bare; its versions are numbered without a repetition or a gap (prompts.ts).
ShelfInOrder == OneServed /\ ServedOrDown /\ NumbersApart /\ NumbersFollow

\* Whatever implements the shelf keeps it in order.
THEOREM ShelfStaysInOrder ==
  ASSUME None \notin ShelfRow PROVE Serving!Spec => []ShelfInOrder
<1>1. Serving!Init => ShelfInv
  BY DEF Serving!Init, Serving!Of, Serving!Is, ShelfInv,
         OneServed, NumbersApart, NumbersFollow, ServedOrDown
<1>2. ShelfInv => ShelfInOrder
  BY DEF ShelfInv, ShelfInOrder
<1>3. ShelfInv /\ [Serving!Next]_(Serving!vars) => ShelfInv'
  BY ShelfStep
<1> QED BY <1>1, <1>2, <1>3, PTL DEF Serving!Spec
-----------------------------------------------------------------------------
(* The grant ledger: support-access.ts and 0019. *)

GrantRow ==
  [status : {"absent", "pending_approval", "active", "denied", "revoked", "expired"},
   holder : Admins \cup {Null}, subject : Subjects \cup {Null}, scopes : SUBSET Scopes,
   requested : Int, approver : Admins \cup {Null}, granted : Int, expires : Int]

OneGrantPerPair ==
  \A g, h \in Grants :
    /\ grant[g].status = "active" /\ grant[h].status = "active"
    /\ grant[g].holder = grant[h].holder /\ grant[g].subject = grant[h].subject
    => g = h

\* Approved by somebody else, to end no later than the ceiling after it was asked for.
ProperlyGranted(g) ==
  /\ grant[g].status \in {"absent", "pending_approval"} => grant[g].approver = Null
  /\ grant[g].status = "active" => grant[g].approver \notin {grant[g].holder, Null}
  /\ grant[g].status # "absent" => grant[g].expires <= grant[g].requested + Ceiling

\* Under a grant of the reader's own, for that scope, that somebody else approved.
ProperlyRead(e) ==
  /\ e[2] \in Grants
  /\ grant[e[2]].status \in {"active", "revoked", "expired"}
  /\ grant[e[2]].holder = e[1] /\ e[3] \in grant[e[2]].scopes
  /\ grant[e[2]].approver \notin {e[1], Null}

LedgerInv ==
  /\ now \in Nat
  /\ grant \in [Grants -> GrantRow]
  /\ OneGrantPerPair
  /\ \A g \in Grants : ProperlyGranted(g)
  /\ \A e \in open \cup reveals : ProperlyRead(e)
  /\ \A did \in Granting!Decided, g \in Grants :
       <<did, g>> \in trail => Granting!Happened(did, g)
  /\ \A e \in seen : e \in reveals /\ <<"revealed", e[2]>> \in trail

\* What a step keeps of every grant for the logs to stay true: a grant once asked for
\* keeps what was asked, one decided keeps how.
Follows(g) ==
  /\ grant[g].status # "absent" =>
       /\ grant'[g].status # "absent"
       /\ grant'[g].holder = grant[g].holder /\ grant'[g].scopes = grant[g].scopes
       /\ grant[g].approver # Null => grant'[g].approver # Null
  /\ grant[g].status \in {"denied", "revoked", "expired"} => grant'[g].status = grant[g].status
  /\ grant[g].status = "active" =>
       /\ grant'[g].status \in {"active", "revoked", "expired"}
       /\ grant'[g].approver = grant[g].approver
  /\ grant[g].status \in {"revoked", "expired"} => grant'[g].approver = grant[g].approver

LEMMA LogsStay ==
  ASSUME LedgerInv, \A g \in Grants : Follows(g),
         now' \in Nat, grant' \in [Grants -> GrantRow], OneGrantPerPair',
         \A g \in Grants : ProperlyGranted(g)',
         open' \subseteq open, UNCHANGED <<reveals, trail, seen>>
  PROVE  LedgerInv'
<1>1. \A e : ProperlyRead(e) => ProperlyRead(e)'
  BY DEF Follows, ProperlyRead
<1>2. \A e \in (open \cup reveals)' : ProperlyRead(e)'
  BY <1>1 DEF LedgerInv
<1>3. ASSUME NEW did, NEW g \in Grants, Granting!Happened(did, g)
      PROVE  Granting!Happened(did, g)'
  <2>1. Follows(g) /\ reveals' = reveals
    OBVIOUS
  <2>2. CASE did = "requested" /\ grant[g].status # "absent"
    BY <2>1, <2>2 DEF Follows, Granting!Happened
  <2>3. CASE did = "approved" /\ grant[g].approver # Null
    <3>1. grant[g].status # "absent"
      BY <2>3 DEF LedgerInv, ProperlyGranted
    <3> QED BY <2>1, <2>3, <3>1 DEF Follows, Granting!Happened
  <2>4. CASE did \in {"denied", "revoked"} /\ grant[g].status = did
    BY <2>1, <2>4 DEF Follows, Granting!Happened
  <2>5. CASE did = "revealed" /\ \E e \in reveals : e[2] = g
    BY <2>1, <2>5 DEF Granting!Happened
  <2> QED BY <1>3, <2>2, <2>3, <2>4, <2>5 DEF Granting!Happened
<1>4. \A did \in Granting!Decided, g \in Grants :
        <<did, g>> \in trail' => Granting!Happened(did, g)'
  BY <1>3 DEF LedgerInv
<1>5. \A e \in seen' : e \in reveals' /\ <<"revealed", e[2]>> \in trail'
  BY DEF LedgerInv
<1> QED BY <1>2, <1>4, <1>5 DEF LedgerInv

LEMMA AskKeepsLedger ==
  ASSUME Ceiling \in Nat, Null \notin Admins, LedgerInv, NEW g \in Grants, Granting!Ask(g)
  PROVE  LedgerInv'
<1>1. PICK a \in Admins, u \in Subjects, wanted \in SUBSET Scopes, since \in 0 .. now, window \in 1 .. Ceiling :
        grant' = [grant EXCEPT ![g] =
          [status |-> "pending_approval", holder |-> a, subject |-> u, scopes |-> wanted,
           requested |-> since, approver |-> Null, granted |-> 0, expires |-> since + window]]
  BY DEF Granting!Ask
<1> DEFINE row ==
      [status |-> "pending_approval", holder |-> a, subject |-> u, scopes |-> wanted,
       requested |-> since, approver |-> Null, granted |-> 0, expires |-> since + window]
<1>2. row \in GrantRow
  BY DEF GrantRow, LedgerInv
<1>3. /\ row.status = "pending_approval" /\ row.approver = Null
      /\ row.expires <= row.requested + Ceiling
  BY DEF LedgerInv
<1>4. \A h \in Grants : grant'[h] = IF h = g THEN row ELSE grant[h]
  BY <1>1 DEF LedgerInv
<1>5. grant' \in [Grants -> GrantRow]
  BY <1>1, <1>2 DEF LedgerInv
<1>6. grant[g].status = "absent" /\ open' \subseteq open /\ now' = now
      /\ UNCHANGED <<reveals, trail, seen>>
  BY DEF Granting!Ask, Granting!NoneOpened, Granting!logs
<1> HIDE DEF row
<1>7. OneGrantPerPair'
  BY <1>3, <1>4 DEF LedgerInv, OneGrantPerPair
<1>8. ASSUME NEW h \in Grants PROVE ProperlyGranted(h)'
  BY <1>3, <1>4 DEF LedgerInv, ProperlyGranted
<1>9. ASSUME NEW h \in Grants PROVE Follows(h)
  <2>1. grant[g].approver = Null
    BY <1>6 DEF LedgerInv, ProperlyGranted
  <2>2. grant'[h] = IF h = g THEN row ELSE grant[h]
    BY <1>4
  <2> QED BY <1>3, <1>6, <2>1, <2>2 DEF Follows
<1> QED BY <1>5, <1>6, <1>7, <1>8, <1>9, LogsStay DEF LedgerInv

LEMMA ApproveKeepsLedger ==
  ASSUME Ceiling \in Nat, Null \notin Admins, LedgerInv,
         NEW g \in Grants, NEW by \in Admins, NEW from \in 0 .. now, Granting!Approve(g, by, from)
  PROVE  LedgerInv'
<1>1. PICK until \in (from + 1) .. (grant[g].requested + Ceiling) :
        grant' = [grant EXCEPT ![g] =
          [@ EXCEPT !.status = "active", !.approver = by, !.granted = from, !.expires = until]]
  BY DEF Granting!Approve
<1> DEFINE row == [grant[g] EXCEPT !.status = "active", !.approver = by,
                                   !.granted = from, !.expires = until]
<1>2. grant[g] \in GrantRow /\ now \in Nat
  BY DEF LedgerInv
<1>3. /\ row.status = "active" /\ row.approver = by /\ row.granted = from /\ row.expires = until
      /\ row.holder = grant[g].holder /\ row.subject = grant[g].subject
      /\ row.scopes = grant[g].scopes /\ row.requested = grant[g].requested
  BY <1>2 DEF GrantRow
<1>4. row \in GrantRow
  <2>1. from \in Int /\ until \in Int
    BY <1>2 DEF GrantRow
  <2>2. [grant[g] EXCEPT !.status = "active"] \in GrantRow
    BY <1>2 DEF GrantRow
  <2>3. [grant[g] EXCEPT !.status = "active", !.approver = by] \in GrantRow
    BY <2>2 DEF GrantRow
  <2>4. [grant[g] EXCEPT !.status = "active", !.approver = by, !.granted = from] \in GrantRow
    BY <2>1, <2>3 DEF GrantRow
  <2> QED BY <2>1, <2>4 DEF GrantRow
<1>5. grant' = [grant EXCEPT ![g] = row]
  BY <1>1
<1>6. \A h \in Grants : grant'[h] = IF h = g THEN row ELSE grant[h]
  BY <1>5 DEF LedgerInv
<1>7. grant' \in [Grants -> GrantRow]
  BY <1>4, <1>5 DEF LedgerInv
<1>8. /\ grant[g].status = "pending_approval" /\ grant[g].holder # by
      /\ \A h \in Grants : grant[h].status = "active" =>
           grant[h].holder # grant[g].holder \/ grant[h].subject # grant[g].subject
      /\ open' \subseteq open /\ now' = now /\ UNCHANGED <<reveals, trail, seen>>
  BY DEF Granting!Approve, Granting!NoneOpened, Granting!logs
<1>9. row.expires <= row.requested + Ceiling
  BY <1>2, <1>3 DEF GrantRow
<1> HIDE DEF row
<1>10. OneGrantPerPair'
  BY <1>3, <1>6, <1>8 DEF LedgerInv, OneGrantPerPair
<1>11. ASSUME NEW h \in Grants PROVE ProperlyGranted(h)'
  BY <1>3, <1>6, <1>8, <1>9 DEF LedgerInv, ProperlyGranted
<1>12. ASSUME NEW h \in Grants PROVE Follows(h)
  <2>1. grant'[h] = IF h = g THEN row ELSE grant[h]
    BY <1>6
  <2>2. grant[g].approver = Null /\ by # Null
    BY <1>8 DEF LedgerInv, ProperlyGranted
  <2> QED BY <1>3, <1>8, <2>1, <2>2 DEF Follows
<1> QED BY <1>2, <1>7, <1>8, <1>10, <1>11, <1>12, LogsStay DEF LedgerInv

LEMMA CloseKeepsLedger ==
  ASSUME LedgerInv, NEW S \in SUBSET Grants, NEW verdict \in {"denied", "revoked", "expired"},
         Granting!Close(S, verdict)
  PROVE  LedgerInv'
<1>1. /\ grant' = [g \in Grants |-> IF g \in S THEN [grant[g] EXCEPT !.status = verdict] ELSE grant[g]]
      /\ open' \subseteq open /\ now' = now /\ UNCHANGED <<reveals, trail, seen>>
  BY DEF Granting!Close, Granting!NoneOpened, Granting!logs
<1>2. \A g \in Grants : grant[g] \in GrantRow
  BY DEF LedgerInv
<1>3. \A g \in Grants :
        LET row == [grant[g] EXCEPT !.status = verdict]
        IN  /\ row \in GrantRow
            /\ row.status = verdict /\ row.holder = grant[g].holder
            /\ row.subject = grant[g].subject /\ row.scopes = grant[g].scopes
            /\ row.requested = grant[g].requested /\ row.approver = grant[g].approver
            /\ row.expires = grant[g].expires
  BY <1>2 DEF GrantRow
<1>4. \A g \in Grants :
        /\ grant'[g] \in GrantRow
        /\ grant'[g].status = IF g \in S THEN verdict ELSE grant[g].status
        /\ grant'[g].holder = grant[g].holder /\ grant'[g].subject = grant[g].subject
        /\ grant'[g].scopes = grant[g].scopes /\ grant'[g].requested = grant[g].requested
        /\ grant'[g].approver = grant[g].approver /\ grant'[g].expires = grant[g].expires
  <2> SUFFICES ASSUME NEW g \in Grants
      PROVE /\ grant'[g] \in GrantRow
            /\ grant'[g].status = IF g \in S THEN verdict ELSE grant[g].status
            /\ grant'[g].holder = grant[g].holder /\ grant'[g].subject = grant[g].subject
            /\ grant'[g].scopes = grant[g].scopes /\ grant'[g].requested = grant[g].requested
            /\ grant'[g].approver = grant[g].approver /\ grant'[g].expires = grant[g].expires
    OBVIOUS
  <2>1. CASE g \in S
    <3>1. grant'[g] = [grant[g] EXCEPT !.status = verdict]
      BY <1>1, <2>1
    <3> QED BY <1>3, <2>1, <3>1
  <2>2. CASE g \notin S
    <3>1. grant'[g] = grant[g]
      BY <1>1, <2>2
    <3> QED BY <1>2, <2>2, <3>1
  <2> QED BY <2>1, <2>2
<1>5. grant' \in [Grants -> GrantRow]
  BY <1>1, <1>4
<1>6. OneGrantPerPair'
  BY <1>4 DEF LedgerInv, OneGrantPerPair
<1>7. \A g \in S : \/ grant[g].status = "pending_approval"
                   \/ grant[g].status = "active" /\ verdict \in {"revoked", "expired"}
  BY DEF Granting!Close, Granting!MayBecome
<1>8. ASSUME NEW g \in Grants PROVE ProperlyGranted(g)'
  BY <1>4, <1>7 DEF LedgerInv, ProperlyGranted
<1>9. ASSUME NEW g \in Grants PROVE Follows(g)
  BY <1>4, <1>7 DEF Follows
<1> QED BY <1>1, <1>5, <1>6, <1>8, <1>9, LogsStay DEF LedgerInv
\* The steps that leave the grants alone: a log grows, a read opens or is given up.
LEMMA LogsGrow ==
  ASSUME LedgerInv, now' \in Nat, grant' = grant,
         \A e \in (open \cup reveals)' : ProperlyRead(e), reveals \subseteq reveals',
         \A did \in Granting!Decided, g \in Grants :
           <<did, g>> \in trail' => <<did, g>> \in trail \/ Granting!Happened(did, g),
         trail \subseteq trail',
         \A e \in seen' : e \in seen \/ (e \in reveals /\ <<"revealed", e[2]>> \in trail')
  PROVE  LedgerInv'
<1>1. OneGrantPerPair' /\ \A g \in Grants : ProperlyGranted(g)'
  BY DEF LedgerInv, OneGrantPerPair, ProperlyGranted
<1>2. \A e \in (open \cup reveals)' : ProperlyRead(e)'
  BY DEF ProperlyRead
<1>3. \A did, g : Granting!Happened(did, g) => Granting!Happened(did, g)'
  BY DEF Granting!Happened
<1>4. \A did \in Granting!Decided, g \in Grants :
        <<did, g>> \in trail' => Granting!Happened(did, g)'
  BY <1>3 DEF LedgerInv
<1>5. \A e \in seen' : e \in reveals' /\ <<"revealed", e[2]>> \in trail'
  BY DEF LedgerInv
<1> QED BY <1>1, <1>2, <1>4, <1>5 DEF LedgerInv

LEMMA OpenKeepsLedger ==
  ASSUME LedgerInv, NEW a \in Admins, NEW g \in Grants, NEW s \in Scopes, Granting!Open(a, g, s)
  PROVE  LedgerInv'
<1>1. ProperlyRead(<<a, g, s>>)
  BY DEF Granting!Open, Granting!Live, LedgerInv, ProperlyGranted, ProperlyRead
<1>2. open' = open \cup {<<a, g, s>>} /\ UNCHANGED <<now, grant, reveals, trail, seen>>
  BY DEF Granting!Open, Granting!logs
<1>3. \A e \in (open \cup reveals)' : ProperlyRead(e)
  BY <1>1, <1>2 DEF LedgerInv
<1> QED BY <1>2, <1>3, LogsGrow DEF LedgerInv

LEMMA ReadKeepsLedger ==
  ASSUME LedgerInv, NEW e \in open, Granting!Read(e)
  PROVE  LedgerInv'
<1>1. /\ reveals' = reveals \cup {e} /\ open' \subseteq open
      /\ UNCHANGED <<now, grant, trail, seen>>
  BY DEF Granting!Read, Granting!NoneOpened
<1>2. \A f \in (open \cup reveals)' : ProperlyRead(f)
  BY <1>1 DEF LedgerInv
<1> QED BY <1>1, <1>2, LogsGrow DEF LedgerInv

LEMMA RecordKeepsLedger ==
  ASSUME LedgerInv, NEW did \in Granting!Decided, NEW g \in Grants, Granting!Record(did, g)
  PROVE  LedgerInv'
<1>1. /\ Granting!Happened(did, g) /\ trail' = trail \cup {<<did, g>>}
      /\ open' \subseteq open /\ UNCHANGED <<now, grant, reveals>>
  BY DEF Granting!Record, Granting!NoneOpened
<1>2. \A e \in (open \cup reveals)' : ProperlyRead(e)
  BY <1>1 DEF LedgerInv
<1>3. \A d \in Granting!Decided, h \in Grants :
        <<d, h>> \in trail' => <<d, h>> \in trail \/ Granting!Happened(d, h)
  BY <1>1
<1>4. \A e \in seen' : e \in seen \/ (e \in reveals /\ <<"revealed", e[2]>> \in trail')
  BY <1>1 DEF Granting!Record
<1> QED BY <1>1, <1>2, <1>3, <1>4, LogsGrow DEF LedgerInv

LEMMA LedgerStep ==
  ASSUME Ceiling \in Nat, Null \notin Admins, LedgerInv, [Granting!Next]_(Granting!vars)
  PROVE  LedgerInv'
<1>1. CASE Granting!GiveUp \/ Granting!Tick
  <2>1. /\ now' \in Nat /\ open' \subseteq open /\ UNCHANGED <<grant, reveals, trail, seen>>
    BY <1>1 DEF LedgerInv, Granting!GiveUp, Granting!Tick, Granting!NoneOpened, Granting!logs
  <2>2. \A e \in (open \cup reveals)' : ProperlyRead(e)
    BY <2>1 DEF LedgerInv
  <2> QED BY <2>1, <2>2, LogsGrow DEF LedgerInv
<1>2. CASE UNCHANGED Granting!vars
  <2>1. UNCHANGED <<now, grant, open, reveals, trail, seen>>
    BY <1>2 DEF Granting!vars
  <2>2. \A e \in (open \cup reveals)' : ProperlyRead(e)
    BY <2>1 DEF LedgerInv
  <2> QED BY <2>1, <2>2, LogsGrow DEF LedgerInv
<1>3. ASSUME NEW g \in Grants, NEW by \in Admins, NEW from \in 0 .. now,
             Granting!Approve(g, by, from)
      PROVE  LedgerInv'
  BY <1>3, ApproveKeepsLedger
<1>4. ASSUME NEW g \in Grants, Granting!Ask(g) PROVE LedgerInv'
  BY <1>4, AskKeepsLedger
<1> QED BY <1>1, <1>2, <1>3, <1>4, CloseKeepsLedger, OpenKeepsLedger,
           ReadKeepsLedger, RecordKeepsLedger
        DEF Granting!Next

\* What was shown was read by the holder of a grant that somebody else approved, within
\* its scopes, and is in both logs; a pair has one active grant, which ends no later than
\* the ceiling after it was asked for; the trail says what has happened (support-access.ts,
\* 0019 1367-1732).
SeenIsAccountedFor ==
  /\ \A e \in seen : e \in reveals /\ <<"revealed", e[2]>> \in trail /\ ProperlyRead(e)
  /\ \A g \in Grants : ProperlyGranted(g)
  /\ OneGrantPerPair
  /\ \A did \in Granting!Decided, g \in Grants :
       <<did, g>> \in trail => Granting!Happened(did, g)

\* Whatever implements the ledger accounts for everything that is shown.
THEOREM LedgerAccountsForAll ==
  ASSUME Ceiling \in Nat, Null \notin Admins
  PROVE  Granting!Spec => []SeenIsAccountedFor
<1>1. Granting!Init => LedgerInv
  <2> SUFFICES ASSUME Granting!Init PROVE LedgerInv
    OBVIOUS
  <2>1. grant = [g \in Grants |-> Granting!Absent] /\ now = 0
        /\ open = {} /\ reveals = {} /\ trail = {} /\ seen = {}
    BY DEF Granting!Init
  <2>2. Granting!Absent \in GrantRow
    BY DEF Granting!Absent, GrantRow
  <2>3. grant \in [Grants -> GrantRow]
    BY <2>1, <2>2
  <2>4. \A g \in Grants : grant[g].status = "absent" /\ grant[g].approver = Null
    BY <2>1 DEF Granting!Absent
  <2> QED BY <2>1, <2>3, <2>4 DEF LedgerInv, OneGrantPerPair, ProperlyGranted
<1>2. LedgerInv => SeenIsAccountedFor
  BY DEF LedgerInv, SeenIsAccountedFor
<1>3. LedgerInv /\ [Granting!Next]_(Granting!vars) => LedgerInv'
  BY LedgerStep
<1> QED BY <1>1, <1>2, <1>3, PTL DEF Granting!Spec

-----------------------------------------------------------------------------
(* The gate: executor.ts, the approval functions and the machine of approval.ts. *)

\* A row nobody approved yet has had nothing sent; what is sent or may still be is what
\* the row says since it was approved.
GateInv ==
  /\ status \in [Rows -> ApprovalStatus \cup {"absent"}]
  /\ payload \in [Rows -> Gate!Payload \cup {Null}]
  /\ sent \in [Rows -> SUBSET Gate!Payload] /\ held \in [Rows -> SUBSET Gate!Payload]
  /\ \A r \in Rows :
       /\ status[r] \in {"absent", "pending"} => sent[r] = {} /\ held[r] = {}
       /\ sent[r] \cup held[r] \subseteq {payload[r]}
       /\ status[r] # "absent" => payload[r] \in Gate!Payload
       /\ status[r] = "executed" => sent[r] # {}

LEMMA GateStep == ASSUME GateInv, [Gate!Next]_(Gate!vars) PROVE GateInv'
<1> USE DEF GateInv, ApprovalStatus
<1>1. ASSUME NEW r \in Rows, NEW x \in Gate!Payload, Gate!Propose(r, x) PROVE GateInv'
  BY <1>1 DEF Gate!Propose
<1>2. ASSUME NEW r \in Rows, NEW x \in Gate!Payload, Gate!Approve(r, x) PROVE GateInv'
  BY <1>2 DEF Gate!Approve
<1>3. ASSUME NEW r \in Rows, Gate!Begin(r) PROVE GateInv'
  BY <1>3 DEF Gate!Begin
<1>4. ASSUME NEW r \in Rows, Gate!Request(r) PROVE GateInv'
  BY <1>4 DEF Gate!Request
<1>5. ASSUME NEW r \in Rows, Gate!LateEffect(r) PROVE GateInv'
  BY <1>5 DEF Gate!LateEffect
<1>6. ASSUME NEW r \in Rows, Gate!Finish(r) PROVE GateInv'
  BY <1>6 DEF Gate!Finish
<1>7. ASSUME NEW r \in Rows, Gate!Reopen(r) PROVE GateInv'
  BY <1>7 DEF Gate!Reopen
<1>8. ASSUME NEW S \in SUBSET Rows, NEW verdict \in {"rejected", "expired"}, Gate!Close(S, verdict)
      PROVE GateInv'
  BY <1>8 DEF Gate!Close
<1>9. CASE UNCHANGED Gate!vars
  BY <1>9 DEF Gate!vars
<1> QED BY <1>1, <1>2, <1>3, <1>4, <1>5, <1>6, <1>7, <1>8, <1>9 DEF Gate!Next

\* What the provider has done for a row, or may still do, is what the row was approved to
\* do and nothing else; one that reads executed was done; one nobody approved was not
\* (executor.ts, approval-decide).
DoneAsApproved ==
  \A r \in Rows :
    /\ sent[r] \cup held[r] \subseteq {payload[r]}
    /\ status[r] = "executed" => sent[r] # {}
    /\ status[r] \in {"absent", "pending"} => sent[r] = {} /\ held[r] = {}

\* Whatever implements the machine sends only what was approved.
THEOREM MachineSendsWhatWasApproved == Gate!Spec => []DoneAsApproved
<1>1. Gate!Init => GateInv
  BY DEF Gate!Init, GateInv
<1>2. GateInv => DoneAsApproved
  BY DEF GateInv, DoneAsApproved
<1>3. GateInv /\ [Gate!Next]_(Gate!vars) => GateInv'
  BY GateStep
<1> QED BY <1>1, <1>2, <1>3, PTL DEF Gate!Spec

\* A row that was executed, refused or expired is never moved again, nor reworded, and
\* what an approved row would send is never changed (approval.ts, approval-decide).
SettledStays ==
  [][\A r \in Rows :
       /\ status[r] \in {"executed", "rejected", "expired"} => status'[r] = status[r]
       /\ status[r] \notin {"absent", "pending"} => payload'[r] = payload[r]]_(Gate!vars)

\* Whatever implements the machine settles a row for good.
THEOREM MachineSettlesForGood == Gate!Spec => SettledStays
<1> DEFINE Stays(r) ==
      /\ status[r] \in {"executed", "rejected", "expired"} => status'[r] = status[r]
      /\ status[r] \notin {"absent", "pending"} => payload'[r] = payload[r]
<1>1. GateInv /\ [Gate!Next]_(Gate!vars) =>
        [\A r \in Rows : Stays(r)]_(Gate!vars)
  <2> SUFFICES ASSUME GateInv, Gate!Next, NEW r \in Rows PROVE Stays(r)
    OBVIOUS
  <2> USE DEF GateInv
  <2>1. ASSUME NEW q \in Rows, NEW x \in Gate!Payload, Gate!Propose(q, x) \/ Gate!Approve(q, x)
        PROVE  Stays(r)
    BY <2>1 DEF Gate!Propose, Gate!Approve
  <2>2. ASSUME NEW q \in Rows, Gate!Begin(q) \/ Gate!Finish(q) \/ Gate!Reopen(q)
        PROVE  Stays(r)
    BY <2>2 DEF Gate!Begin, Gate!Finish, Gate!Reopen
  <2>3. ASSUME NEW q \in Rows, Gate!Request(q) \/ Gate!LateEffect(q)
        PROVE  Stays(r)
    BY <2>3 DEF Gate!Request, Gate!LateEffect
  <2>4. ASSUME NEW S \in SUBSET Rows, NEW verdict \in {"rejected", "expired"},
               Gate!Close(S, verdict)
        PROVE  Stays(r)
    BY <2>4 DEF Gate!Close, Gate!CanTransition, Gate!Transitions
  <2> QED BY <2>1, <2>2, <2>3, <2>4 DEF Gate!Next
<1>2. GateInv /\ [Gate!Next]_(Gate!vars) => GateInv'
  BY GateStep
<1>3. Gate!Init => GateInv
  BY DEF Gate!Init, GateInv
<1> QED BY <1>1, <1>2, <1>3, PTL DEF Gate!Spec, SettledStays
=============================================================================
