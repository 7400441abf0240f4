------------------------------- MODULE Roster -------------------------------
(***************************************************************************)
(* What the console's other parts may assume of the roster: operators      *)
(* change standing one at a time and in one step, and the last super_admin *)
(* never loses theirs.  AdminRoster implements it; SupportAccess, whose    *)
(* calls read the roster while it changes, is built on it.                 *)
(***************************************************************************)

CONSTANTS
  Admins,  \* the operators
  Roles    \* what an operator may be, super_admin among them

VARIABLE role

Init ==
  /\ role \in [Admins -> Roles]
  /\ \E a \in Admins : role[a] = "super_admin"

Change(a, r) ==
  /\ role[a] # r
  /\ role[a] = "super_admin" => \E b \in Admins \ {a} : role[b] = "super_admin"
  /\ role' = [role EXCEPT ![a] = r]

Next == \E a \in Admins, r \in Roles : Change(a, r)

Spec == Init /\ [][Next]_role
=============================================================================
