------------------------------- MODULE Links -------------------------------
(***************************************************************************)
(* What the rest of the product may assume of connected accounts, with no  *)
(* calls, keys or faults: a consent is spent once, on the account of the   *)
(* mailbox it was given for, which no other account has; an account keeps  *)
(* its mailbox for life, holds only grants that were given for it, and     *)
(* goes together with them.  Connections implements it.                    *)
(***************************************************************************)
CONSTANTS Accounts, Mailboxes, Consents, Status, None

VARIABLES
  picked,   \* the mailbox each consent was given for
  account,  \* the connected accounts: [mailbox, status, primary]
  used,     \* the ids they have used
  spent,    \* the consents spent on an account
  held      \* the grants whose tokens each account holds

vars == <<picked, account, used, spent, held>>

Exists(a) == account[a] # None

Init ==
  /\ picked = [s \in Consents |-> None]
  /\ account = [a \in Accounts |-> None]
  /\ used = {} /\ spent = {}
  /\ held = [a \in Accounts |-> {}]

SignIn(s, m) ==
  /\ picked[s] = None
  /\ picked' = [picked EXCEPT ![s] = m]
  /\ UNCHANGED <<account, used, spent, held>>

\* To the mailbox's account, or to a new one if the mailbox has none.
Link(s, a) ==
  /\ picked[s] # None /\ s \notin spent
  /\ \/ Exists(a) /\ account[a].mailbox = picked[s]
     \/ a \notin used /\ \A b \in Accounts : Exists(b) => account[b].mailbox # picked[s]
  /\ \E primary \in BOOLEAN :
       /\ primary => \A b \in Accounts \ {a} : Exists(b) => ~account[b].primary
       /\ account' = [account EXCEPT ![a] =
            [mailbox |-> picked[s], status |-> "connected", primary |-> primary]]
  /\ used' = used \cup {a}
  /\ spent' = spent \cup {s}
  /\ UNCHANGED <<picked, held>>

\* Tokens of a grant come to replace some or all of those held.
Hold(s, a) ==
  /\ Exists(a) /\ s \in spent /\ account[a].mailbox = picked[s]
  /\ \E kept \in SUBSET held[a] : held' = [held EXCEPT ![a] = kept \cup {s}]
  /\ UNCHANGED <<picked, account, used, spent>>

Mark(a, status) ==
  /\ Exists(a)
  /\ account' = [account EXCEPT ![a].status = status]
  /\ UNCHANGED <<picked, used, spent, held>>

Forget(a) ==
  /\ held' = [held EXCEPT ![a] = {}]
  /\ UNCHANGED <<picked, account, used, spent>>

Drop(a) ==
  /\ account' = [account EXCEPT ![a] = None]
  /\ held' = [held EXCEPT ![a] = {}]
  /\ UNCHANGED <<picked, used, spent>>

Next ==
  \/ \E s \in Consents, m \in Mailboxes : SignIn(s, m)
  \/ \E s \in Consents, a \in Accounts : Link(s, a) \/ Hold(s, a)
  \/ \E a \in Accounts, status \in Status : Mark(a, status)
  \/ \E a \in Accounts : Forget(a) \/ Drop(a)

Spec == Init /\ [][Next]_vars
=============================================================================
