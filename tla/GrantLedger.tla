---------------------------- MODULE GrantLedger ----------------------------
(***************************************************************************)
(* What Support Access promises, with no calls, permissions or locks: a    *)
(* grant is asked for, decided by somebody else and closed once; a record  *)
(* is read in one step, opened inside the grant's window and finished only *)
(* while nobody has closed it; nothing is shown that is not in both logs,  *)
(* and the audit trail only says what has happened.  SupportAccess         *)
(* implements it.                                                          *)
(***************************************************************************)
EXTENDS Integers

CONSTANTS Admins, Subjects, Scopes, Grants, Ceiling, Null

VARIABLES
  now,      \* the clock
  grant,    \* the grants
  open,     \* the reads under way: <<admin, grant, scope>>
  reveals,  \* the reads that are done
  trail,    \* what is recorded: <<action, grant>>
  seen      \* what was shown

vars == <<now, grant, open, reveals, trail, seen>>
logs == <<reveals, trail, seen>>

Live(g) == grant[g].status = "active" /\ grant[g].granted <= now /\ now < grant[g].expires

\* A read may be given up by any step; a new one is opened by Open alone.
NoneOpened == open' \subseteq open

Absent ==
  [status |-> "absent", holder |-> Null, subject |-> Null, scopes |-> {},
   requested |-> 0, approver |-> Null, granted |-> 0, expires |-> 0]

Init ==
  /\ now = 0
  /\ grant = [g \in Grants |-> Absent]
  /\ open = {} /\ reveals = {} /\ trail = {} /\ seen = {}

Ask(g) ==
  /\ grant[g].status = "absent"
  /\ \E a \in Admins, u \in Subjects, wanted \in SUBSET Scopes, since \in 0..now, window \in 1..Ceiling :
       grant' = [grant EXCEPT ![g] =
         [status |-> "pending_approval", holder |-> a, subject |-> u, scopes |-> wanted,
          requested |-> since, approver |-> Null, granted |-> 0, expires |-> since + window]]
  /\ NoneOpened /\ UNCHANGED <<now, logs>>

\* By another operator, for no longer than was asked and no later than the ceiling,
\* and only while the pair has no other active grant.
Approve(g, by, from) ==
  /\ grant[g].status = "pending_approval" /\ grant[g].holder # by
  /\ \A h \in Grants : grant[h].status = "active" =>
       grant[h].holder # grant[g].holder \/ grant[h].subject # grant[g].subject
  /\ \E until \in (from + 1)..(grant[g].requested + Ceiling) :
       /\ until - from <= grant[g].expires - grant[g].requested
       /\ grant' = [grant EXCEPT ![g] =
            [@ EXCEPT !.status = "active", !.approver = by, !.granted = from, !.expires = until]]
  /\ NoneOpened /\ UNCHANGED <<now, logs>>

MayBecome(g, verdict) ==
  \/ grant[g].status = "pending_approval" /\ verdict \in {"denied", "revoked"}
  \/ grant[g].status = "active" /\ verdict = "revoked"
  \/ grant[g].status \in {"pending_approval", "active"} /\ grant[g].expires <= now /\ verdict = "expired"

\* Decided one by one, or swept many at once.
Close(S, verdict) ==
  /\ \A g \in S : MayBecome(g, verdict)
  /\ grant' = [g \in Grants |-> IF g \in S THEN [grant[g] EXCEPT !.status = verdict] ELSE grant[g]]
  /\ NoneOpened /\ UNCHANGED <<now, logs>>

Open(a, g, s) ==
  /\ Live(g) /\ grant[g].holder = a /\ s \in grant[g].scopes
  /\ open' = open \cup {<<a, g, s>>}
  /\ UNCHANGED <<now, grant, logs>>

Read(e) ==
  /\ e \in open /\ grant[e[2]].status = "active"
  /\ reveals' = reveals \cup {e}
  /\ NoneOpened /\ UNCHANGED <<now, grant, trail, seen>>

Happened(did, g) ==
  \/ did = "requested" /\ grant[g].status # "absent"
  \/ did = "approved" /\ grant[g].approver # Null
  \/ did \in {"denied", "revoked"} /\ grant[g].status = did
  \/ did = "revealed" /\ \E e \in reveals : e[2] = g

\* What is recorded has happened; what is shown was read, and is recorded with it.
Record(did, g) ==
  /\ Happened(did, g)
  /\ trail' = trail \cup {<<did, g>>}
  /\ \/ UNCHANGED seen
     \/ did = "revealed" /\ \E e \in reveals : e[2] = g /\ seen' = seen \cup {e}
  /\ NoneOpened /\ UNCHANGED <<now, grant, reveals>>

GiveUp == NoneOpened /\ UNCHANGED <<now, grant, logs>>

Tick == now' = now + 1 /\ NoneOpened /\ UNCHANGED <<grant, logs>>

Decided == {"requested", "approved", "denied", "revoked", "revealed"}

Next ==
  \/ \E g \in Grants : Ask(g)
  \/ \E g \in Grants, by \in Admins, from \in 0..now : Approve(g, by, from)
  \/ \E S \in SUBSET Grants, verdict \in {"denied", "revoked", "expired"} : Close(S, verdict)
  \/ \E a \in Admins, g \in Grants, s \in Scopes : Open(a, g, s)
  \/ \E e \in open : Read(e)
  \/ \E did \in Decided, g \in Grants : Record(did, g)
  \/ GiveUp
  \/ Tick

Spec == Init /\ [][Next]_vars
=============================================================================
