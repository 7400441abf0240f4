------------------------------- MODULE Inbox -------------------------------
(***************************************************************************)
(* What the rest of the product may assume of a mailbox that is being      *)
(* read, with no runs in flight: a message that has arrived is stored or   *)
(* passed over; storing it is what gives it its one turn to be analysed,   *)
(* and a turn that is lost does not come back; the cursor may fall back,   *)
(* but only ever comes to stand where everything before it was stored,     *)
(* passed over, or in the mailbox at a full list.  MailSync implements it. *)
(***************************************************************************)
EXTENDS Integers

CONSTANT N

VARIABLES
  arrived,   \* how many messages have arrived
  stored,    \* those that are stored
  given,     \* those that were passed over
  waiting,   \* those whose turn to be analysed is still to come
  analysed,  \* how often each was analysed
  cursor,    \* how far the mailbox counts as read
  listed     \* how far the last full list reached

vars == <<arrived, stored, given, waiting, analysed, cursor, listed>>

Messages == 1 .. N
Present == 1 .. arrived

Init ==
  /\ arrived = 0 /\ cursor = -1 /\ listed = 0
  /\ stored = {} /\ given = {} /\ waiting = {}
  /\ analysed = [m \in Messages |-> 0]

Arrive ==
  /\ arrived < N
  /\ arrived' = arrived + 1
  /\ UNCHANGED <<stored, given, waiting, analysed, cursor, listed>>

Store(m) ==
  /\ m \notin stored
  /\ stored' = stored \cup {m}
  /\ waiting' = waiting \cup {m}
  /\ UNCHANGED <<arrived, given, analysed, cursor, listed>>

PassOver ==
  /\ \E ms \in SUBSET Present : given' = given \cup ms
  /\ UNCHANGED <<arrived, stored, waiting, analysed, cursor, listed>>

Analyse(m) ==
  /\ m \in waiting
  /\ analysed' = [analysed EXCEPT ![m] = @ + 1]
  /\ waiting' = waiting \ {m}
  /\ UNCHANGED <<arrived, stored, given, cursor, listed>>

LoseTurns ==
  /\ waiting' \in SUBSET waiting
  /\ UNCHANGED <<arrived, stored, given, analysed, cursor, listed>>

Advance ==
  /\ cursor' \in 0 .. arrived
  /\ \A m \in Messages : listed < m /\ m <= cursor' => m \in stored \cup given
  /\ UNCHANGED <<arrived, stored, given, waiting, analysed, listed>>

Relist ==
  /\ cursor' \in 0 .. arrived
  /\ listed' = IF listed > cursor' THEN listed ELSE cursor'
  /\ UNCHANGED <<arrived, stored, given, waiting, analysed>>

Next ==
  \/ Arrive \/ PassOver \/ LoseTurns \/ Advance \/ Relist
  \/ \E m \in Present : Store(m) \/ Analyse(m)

Spec == Init /\ [][Next]_vars
=============================================================================
