-------------------------- MODULE ApprovalMachine --------------------------
(***************************************************************************)
(* What the approval gate promises, with no invocations, reads or races:   *)
(* a row moves along the status machine one legal step at a time, its      *)
(* payload is settled by the one step that approves it, a request leaves   *)
(* for the provider only while the row is executing, it carries that       *)
(* payload, and a row is executed only once the provider has acted.        *)
(***************************************************************************)
EXTENDS ApprovalRules

CONSTANTS Rows, Null

VARIABLES
  status,   \* where each row is in the machine, or absent
  payload,  \* what it would send
  sent,     \* what the provider has acted on
  held      \* what requests it holds, given up on, would have it do

vars == <<status, payload, sent, held>>

Init ==
  /\ status = [r \in Rows |-> "absent"]
  /\ payload = [r \in Rows |-> Null]
  /\ sent = [r \in Rows |-> {}]
  /\ held = [r \in Rows |-> {}]

\* Proposed, or reworded while nobody has approved it.
Propose(r, x) ==
  /\ status[r] \in {"absent", "pending"}
  /\ status' = [status EXCEPT ![r] = "pending"]
  /\ payload' = [payload EXCEPT ![r] = x]
  /\ UNCHANGED <<sent, held>>

Approve(r, x) ==
  /\ status[r] = "pending"
  /\ status' = [status EXCEPT ![r] = "approved"]
  /\ payload' = [payload EXCEPT ![r] = x]
  /\ UNCHANGED <<sent, held>>

\* Rows are refused one by one; a sweep expires many at once.
Close(S, verdict) ==
  /\ \A r \in S : status[r] # "absent" /\ CanTransition(status[r], verdict)
  /\ status' = [r \in Rows |-> IF r \in S THEN verdict ELSE status[r]]
  /\ UNCHANGED <<payload, sent, held>>

Begin(r) ==
  /\ status[r] = "approved"
  /\ status' = [status EXCEPT ![r] = "executing"]
  /\ UNCHANGED <<payload, sent, held>>

Request(r) ==
  /\ status[r] = "executing"
  /\ \/ sent' = [sent EXCEPT ![r] = @ \cup {payload[r]}] /\ UNCHANGED held
     \/ held' = [held EXCEPT ![r] = @ \cup {payload[r]}] /\ UNCHANGED sent
  /\ UNCHANGED <<status, payload>>

LateEffect(r) ==
  /\ payload[r] \in held[r]
  /\ \E rest \in {held[r], held[r] \ {payload[r]}} : held' = [held EXCEPT ![r] = rest]
  /\ sent' = [sent EXCEPT ![r] = @ \cup {payload[r]}]
  /\ UNCHANGED <<status, payload>>

Finish(r) ==
  /\ status[r] = "executing"
  /\ \E outcome \in {"executed", "approved", "failed"} :
       /\ outcome = "executed" => sent[r] # {}
       /\ status' = [status EXCEPT ![r] = outcome]
  /\ UNCHANGED <<payload, sent, held>>

Reopen(r) ==
  /\ status[r] = "failed"
  /\ status' = [status EXCEPT ![r] = "approved"]
  /\ UNCHANGED <<payload, sent, held>>

Next ==
  \/ \E r \in Rows, x \in Payload : Propose(r, x) \/ Approve(r, x)
  \/ \E r \in Rows : Begin(r) \/ Request(r) \/ LateEffect(r) \/ Finish(r) \/ Reopen(r)
  \/ \E S \in SUBSET Rows, verdict \in {"rejected", "expired"} : Close(S, verdict)

Spec == Init /\ [][Next]_vars
=============================================================================
