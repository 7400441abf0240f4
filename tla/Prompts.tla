------------------------------ MODULE Prompts ------------------------------
(***************************************************************************)
(* The console's prompt versions: drafting, editing, activating and        *)
(* retiring the text a feature's model is given                            *)
(* (apps/backoffice/src/lib/actions/prompts.ts) over the table             *)
(* prompt_versions and its two unique indexes.                             *)
(*                                                                         *)
(* A call is one server action; every statement it sends is a step of its  *)
(* own, and it may die or lose its connection before each.  Abstracted:    *)
(* permissions and rate limits (they may refuse any call before it starts; *)
(* both prompt permissions go to one role), notes and model, the written   *)
(* reason and the audit trail.                                             *)
(***************************************************************************)
EXTENDS Naturals

CONSTANTS
  Features,  \* what prompts are for, such as briefing.compose
  Versions,  \* ids of prompt_versions rows, none of which is ever deleted
  Bodies,    \* texts
  Calls,     \* server actions that may overlap
  None

Status == {"draft", "active", "archived"}
Row == [feature : Features, number : Nat, status : Status, body : Bodies]

ASSUME NoneAssumption == None \notin Versions \cup Features \cup Bodies \cup Row
ASSUME DownAssumption ==
  None \notin [feature : Features, number : Nat, status : {"down"}, body : Bodies]

VARIABLES
  prompt,   \* prompt_versions: a row, or None while the id is not used
  call,     \* what each server action holds
  retired,  \* the versions an operator archived
  bare      \* the features whose lack of a live version is accounted for:
            \* none was activated yet, an operator archived it, or the action
            \* replacing it died

vars == <<prompt, call, retired, bare>>

Idle == [step |-> "idle", feature |-> None, number |-> 0, body |-> None,
         version |-> None, current |-> None]

At(c, step) == call[c].step = step
Goto(c, state) == call' = [call EXCEPT ![c] = state]
Step(c, step) == call' = [call EXCEPT ![c].step = step]

Stored == {v \in Versions : prompt[v] # None}
Of(f) == {v \in Stored : prompt[v].feature = f}
Live(f) == {v \in Of(f) : prompt[v].status = "active"}

SetStatus(v, status) == prompt' = [prompt EXCEPT ![v].status = status]

Init ==
  /\ prompt = [v \in Versions |-> None]
  /\ call = [c \in Calls |-> Idle]
  /\ retired = {}
  /\ bare = Features

-----------------------------------------------------------------------------
(* Drafts *)

\* The number, as a set of one, that follows the highest the feature has.
NextVersionFor(f) ==
  {n \in {1} \cup {prompt[v].number + 1 : v \in Of(f)} : \A v \in Of(f) : prompt[v].number < n}

CreateBegin(c, f, b) ==
  /\ At(c, "idle")
  /\ \E n \in NextVersionFor(f) :
       Goto(c, [Idle EXCEPT !.step = "insert", !.feature = f, !.number = n, !.body = b])
  /\ UNCHANGED <<prompt, retired, bare>>

\* prompt_versions_unique_version
NumberTaken(f, n) == \E v \in Of(f) : prompt[v].number = n

Draft(c) == [feature |-> call[c].feature, number |-> call[c].number,
             status |-> "draft", body |-> call[c].body]

\* Mutant: the feature and the number are not unique together.
InsertAnyway(c) ==
  /\ At(c, "insert")
  /\ \E v \in Versions \ Stored : prompt' = [prompt EXCEPT ![v] = Draft(c)]
  /\ Goto(c, Idle)
  /\ UNCHANGED <<retired, bare>>

Insert(c) ==
  /\ At(c, "insert")
  /\ ~NumberTaken(call[c].feature, call[c].number)
  /\ \E v \in Versions \ Stored : prompt' = [prompt EXCEPT ![v] = Draft(c)]
  /\ Goto(c, Idle)
  /\ UNCHANGED <<retired, bare>>

InsertRefused(c) ==
  /\ At(c, "insert")
  /\ NumberTaken(call[c].feature, call[c].number)
  /\ Goto(c, Idle)
  /\ UNCHANGED <<prompt, retired, bare>>

\* Mutant: the UPDATE has lost its `status = draft` filter.
EditAny(v, b) ==
  /\ prompt' = [prompt EXCEPT ![v].body = b]
  /\ UNCHANGED <<call, retired, bare>>

\* One UPDATE, of a form that may have been open for any time.
Edit(v, b) ==
  /\ prompt[v].status = "draft"
  /\ prompt' = [prompt EXCEPT ![v].body = b]
  /\ UNCHANGED <<call, retired, bare>>

-----------------------------------------------------------------------------
(* Activation *)

ActivateBegin(c, v) ==
  /\ At(c, "idle")
  /\ prompt[v].status = "draft"
  /\ Goto(c, [Idle EXCEPT !.step = "current", !.feature = prompt[v].feature, !.version = v])
  /\ UNCHANGED <<prompt, retired, bare>>

LoadActive(c) ==
  /\ At(c, "current")
  /\ \/ \E v \in Live(call[c].feature) :
          Goto(c, [call[c] EXCEPT !.step = "demote", !.current = v])
     \/ /\ Live(call[c].feature) = {}
        /\ Step(c, "promote")
  /\ UNCHANGED <<prompt, retired, bare>>

\* Mutant: the version read is archived by its id alone.
DemoteAny(c) ==
  /\ At(c, "demote")
  /\ SetStatus(call[c].current, "archived")
  /\ Step(c, "promote")
  /\ UNCHANGED <<retired, bare>>

Demote(c) ==
  /\ At(c, "demote")
  /\ \/ /\ prompt[call[c].current].status = "active"
        /\ SetStatus(call[c].current, "archived")
        /\ Step(c, "promote")
     \/ /\ prompt[call[c].current].status # "active"
        /\ Goto(c, Idle)
        /\ UNCHANGED prompt
  /\ UNCHANGED <<retired, bare>>

\* An UPDATE that makes v the active version, unless prompt_versions_one_
\* active_per_feature refuses it, which throws and ends the action.
MakeActive(v) ==
  LET f == prompt[v].feature
  IN \/ /\ Live(f) = {}
        /\ SetStatus(v, "active")
        /\ bare' = bare \ {f}
     \/ /\ Live(f) # {}
        /\ UNCHANGED <<prompt, bare>>

Promote(c) ==
  /\ At(c, "promote")
  /\ prompt[call[c].version].status = "draft"
  /\ MakeActive(call[c].version)
  /\ Goto(c, Idle)
  /\ UNCHANGED retired

\* Mutant: a lost race is reported without putting anything back.
PromoteGivenUp(c) ==
  /\ At(c, "promote")
  /\ prompt[call[c].version].status # "draft"
  /\ Goto(c, Idle)
  /\ UNCHANGED <<prompt, retired, bare>>

\* The draft moved underneath: the outgoing version is to be put back.
PromoteMissed(c) ==
  /\ At(c, "promote")
  /\ prompt[call[c].version].status # "draft"
  /\ \/ /\ call[c].current # None
        /\ Step(c, "restore")
     \/ /\ call[c].current = None
        /\ Goto(c, Idle)
  /\ UNCHANGED <<prompt, retired, bare>>

Restore(c) ==
  /\ At(c, "restore")
  /\ IF prompt[call[c].current].status = "archived"
       THEN MakeActive(call[c].current)
       ELSE UNCHANGED <<prompt, bare>>
  /\ Goto(c, Idle)
  /\ UNCHANGED retired

-----------------------------------------------------------------------------
(* Archiving *)

ArchiveBegin(c, v) ==
  /\ At(c, "idle")
  /\ prompt[v].status # "archived"
  /\ Goto(c, [Idle EXCEPT !.step = "archive", !.version = v])
  /\ UNCHANGED <<prompt, retired, bare>>

Archive(c) ==
  LET v == call[c].version
  IN /\ At(c, "archive")
     /\ \/ /\ prompt[v].status # "archived"
           /\ SetStatus(v, "archived")
           /\ retired' = retired \cup {v}
           /\ bare' = IF prompt[v].status = "active" THEN bare \cup {prompt[v].feature} ELSE bare
        \/ /\ prompt[v].status = "archived"
           /\ UNCHANGED <<prompt, retired, bare>>
     /\ Goto(c, Idle)

-----------------------------------------------------------------------------
(* Faults *)

\* The outgoing version is archived and nothing serves in its place yet.
MidSwap(c) == call[c].step \in {"promote", "restore"} /\ call[c].current # None

\* The action dies, or a statement of its fails.
GiveUp(c) ==
  /\ ~At(c, "idle")
  /\ bare' = IF MidSwap(c) THEN bare \cup {call[c].feature} ELSE bare
  /\ Goto(c, Idle)
  /\ UNCHANGED <<prompt, retired>>

-----------------------------------------------------------------------------
Next ==
  \/ \E c \in Calls :
       \/ \E f \in Features, b \in Bodies : CreateBegin(c, f, b)
       \/ \E v \in Stored : ActivateBegin(c, v) \/ ArchiveBegin(c, v)
       \/ Insert(c) \/ InsertRefused(c)
       \/ LoadActive(c) \/ Demote(c) \/ Promote(c) \/ PromoteMissed(c) \/ Restore(c)
       \/ Archive(c) \/ GiveUp(c)
  \/ \E v \in Stored, b \in Bodies : Edit(v, b)

Spec == Init /\ [][Next]_vars

-----------------------------------------------------------------------------
(* What a feature that asks for its prompt sees *)

\* Down for a swap that is not over.
Down == {call[c].current : c \in {d \in Calls : MidSwap(d)}}

Shelved == [v \in Versions |-> IF v \in Down THEN [prompt[v] EXCEPT !.status = "down"] ELSE prompt[v]]

Served == INSTANCE Shelf WITH shelf <- Shelved

-----------------------------------------------------------------------------
(* Properties *)

\* However activations, archivings and deaths overlap, a swap replaces one version
\* by another in one step, puts it back, or leaves a feature known to be bare; what
\* is archived never returns and what left the drafts keeps its text and number.
ImplementsShelf == Served!Spec

\* A lost race costs an error message, never the prompt: a feature that was
\* served still is, unless its version is just being replaced, an operator
\* archived it, or an action died in the middle of the swap.
NeverLeftWithout ==
  \A f \in Features \ bare :
    \/ Live(f) # {}
    \/ \E c \in Calls : MidSwap(c) /\ call[c].feature = f

\* What has once left the drafts keeps its text and its place, so usage
\* attributed to a version measured that text.
ServedTextIsFixed ==
  [][\A v \in Stored :
       prompt[v].status # "draft" =>
         prompt'[v] # None /\ [prompt'[v] EXCEPT !.status = prompt[v].status] = prompt[v]
                           /\ prompt'[v].status # "draft"]_vars

\* A version an operator archived never serves again: whatever is put back
\* after a lost race was taken down by the action that puts it back.
RetiredStays == \A v \in retired : prompt[v].status = "archived"

\* The numbers of a feature's versions run on from 1 without a gap and without
\* a repeat, however many operators draft at once and however many actions die
\* with a number they read.
NumbersRunOn ==
  \A f \in Features :
    /\ \A v, w \in Of(f) : prompt[v].number = prompt[w].number => v = w
    /\ \A v \in Of(f) :
         \/ prompt[v].number = 1
         \/ \E w \in Of(f) : prompt[w].number + 1 = prompt[v].number
=============================================================================
