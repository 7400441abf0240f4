------------------------------- MODULE Outbox -------------------------------
(***************************************************************************)
(* What the push sender promises of a message, told by its dedupe key: it  *)
(* is claimed once and never given back; the claim is somebody's to use    *)
(* (it is open) until the message is handed over, refused or let go, and   *)
(* is not open again; the mark on the delivery says what became of it.     *)
(* Notifications implements it.                                            *)
(***************************************************************************)
EXTENDS Naturals

CONSTANT Keys

VARIABLES
  delivery,  \* each message: absent, claimed, sent or failed
  open,      \* those whose claim somebody may still use
  handed     \* how often each was handed over

vars == <<delivery, open, handed>>

Init ==
  /\ delivery = [k \in Keys |-> "absent"]
  /\ open = {}
  /\ handed = [k \in Keys |-> 0]

Claim(k) ==
  /\ delivery[k] = "absent"
  /\ delivery' = [delivery EXCEPT ![k] = "claimed"]
  /\ open' = open \cup {k}
  /\ UNCHANGED handed

Hand(k) ==
  /\ k \in open
  /\ handed' = [handed EXCEPT ![k] = @ + 1]
  /\ open' = open \ {k}
  /\ UNCHANGED delivery

Refuse(k) ==
  /\ k \in open
  /\ delivery' = [delivery EXCEPT ![k] = "failed"]
  /\ open' = open \ {k}
  /\ UNCHANGED handed

MarkSent(k) ==
  /\ delivery[k] = "claimed" /\ handed[k] > 0
  /\ delivery' = [delivery EXCEPT ![k] = "sent"]
  /\ UNCHANGED <<open, handed>>

LetGo(k) ==
  /\ k \in open
  /\ open' = open \ {k}
  /\ UNCHANGED <<delivery, handed>>

Next == \E k \in Keys : Claim(k) \/ Hand(k) \/ Refuse(k) \/ MarkSent(k) \/ LetGo(k)

Spec == Init /\ [][Next]_vars
=============================================================================
