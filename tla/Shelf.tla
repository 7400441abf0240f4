------------------------------- MODULE Shelf -------------------------------
(***************************************************************************)
(* What a feature that asks for its prompt may assume, with no actions in  *)
(* flight: a version is drafted under the next number, edited only as a    *)
(* draft, and archived for good; at most one version of a feature is live; *)
(* one that is down for a swap comes back, or is archived only when        *)
(* another is live or the feature is known to be bare.  Prompts implements *)
(* it.                                                                     *)
(***************************************************************************)
EXTENDS Naturals

CONSTANTS Features, Versions, Bodies, None

VARIABLES
  shelf,  \* the versions: [feature, number, status, body], or None
  bare    \* the features that may have no live version

vars == <<shelf, bare>>

Of(f) == {v \in Versions : shelf[v] # None /\ shelf[v].feature = f}
HasLive(f) == \E v \in Of(f) : shelf[v].status = "active"
Is(v, status) == shelf[v] # None /\ shelf[v].status = status
Move(v, status) == shelf' = [shelf EXCEPT ![v].status = status]

Init ==
  /\ shelf = [v \in Versions |-> None]
  /\ bare = Features

\* The numbers that follow one of the feature's and are not taken.
Numbers(f) == ({1} \cup {shelf[w].number + 1 : w \in Of(f)}) \ {shelf[w].number : w \in Of(f)}

Draft(v) ==
  /\ shelf[v] = None
  /\ \E f \in Features, b \in Bodies : \E n \in Numbers(f) :
       shelf' = [shelf EXCEPT ![v] = [feature |-> f, number |-> n, status |-> "draft", body |-> b]]
  /\ UNCHANGED bare

Edit(v) ==
  /\ Is(v, "draft")
  /\ \E b \in Bodies : shelf' = [shelf EXCEPT ![v].body = b]
  /\ UNCHANGED bare

TakeDown(v) ==
  /\ Is(v, "active")
  /\ Move(v, "down")
  /\ UNCHANGED bare

\* A draft goes live; the version taken down for it is archived with the same step.
Promote(v) ==
  /\ Is(v, "draft") /\ ~HasLive(shelf[v].feature)
  /\ \/ Move(v, "active")
     \/ \E w \in Of(shelf[v].feature) :
          /\ Is(w, "down")
          /\ shelf' = [shelf EXCEPT ![v].status = "active", ![w].status = "archived"]
  /\ bare' = bare \ {shelf[v].feature}

PutBack(v) ==
  /\ Is(v, "down") /\ ~HasLive(shelf[v].feature)
  /\ Move(v, "active")
  /\ bare' = bare \ {shelf[v].feature}

Settle(v) ==
  /\ Is(v, "down") /\ HasLive(shelf[v].feature)
  /\ Move(v, "archived")
  /\ UNCHANGED bare

\* What an action that dies leaves down.
Abandon(v) ==
  /\ Is(v, "down")
  /\ Move(v, "archived")
  /\ bare' = bare \cup {shelf[v].feature}

Retire(v) ==
  /\ Is(v, "draft") \/ Is(v, "active")
  /\ Move(v, "archived")
  /\ bare' = IF Is(v, "active") THEN bare \cup {shelf[v].feature} ELSE bare

Next ==
  \E v \in Versions :
    \/ Draft(v) \/ Edit(v) \/ Promote(v) \/ Retire(v)
    \/ TakeDown(v) \/ PutBack(v) \/ Settle(v) \/ Abandon(v)

Spec == Init /\ [][Next]_vars
=============================================================================
