------------------------------ MODULE Membership ------------------------------
(* What workspaces and their members promise to the rest of the program,     *)
(* every operation a single step: WorkspaceService implements it (see        *)
(* Workspaces) and projects are guarded by it (see Projects).                *)
CONSTANTS Workspaces, Users

VARIABLES owner,     \* ownerId of each row of workspaces, none without a row
          role,      \* the role of each user in each workspace, none for no member
          creator,   \* history: who each workspace was opened for
          reopened   \* history: workspaces inserted again after their deletion

membership == <<owner, role, creator, reopened>>

Nobody == "none"
Roles == {"owner", "collaborator", "viewer"}

MembershipInit ==
  /\ owner = [w \in Workspaces |-> Nobody]
  /\ role = [w \in Workspaces |-> [u \in Users |-> Nobody]]
  /\ creator = [w \in Workspaces |-> Nobody]
  /\ reopened = {}

Stands(w) == owner[w] # Nobody

Open(w, u) ==
  /\ creator[w] = Nobody
  /\ owner' = [owner EXCEPT ![w] = u]
  /\ creator' = [creator EXCEPT ![w] = u]
  /\ UNCHANGED <<role, reopened>>

(* The owner joins as owner, and keeps membership and role as long as the    *)
(* workspace stands.                                                         *)
Join(w, u, r) ==
  /\ Stands(w) /\ role[w][u] = Nobody
  /\ u = owner[w] /\ w \notin reopened => r = "owner"
  /\ role' = [role EXCEPT ![w][u] = r]
  /\ UNCHANGED <<owner, creator, reopened>>

Change(w, u, r) ==
  /\ role[w][u] # Nobody
  /\ u # owner[w] \/ w \in reopened
  /\ role' = [role EXCEPT ![w][u] = r]
  /\ UNCHANGED <<owner, creator, reopened>>

Close(w) ==
  /\ Stands(w)
  /\ owner' = [owner EXCEPT ![w] = Nobody]
  /\ role' = [role EXCEPT ![w] = [u \in Users |-> Nobody]]
  /\ UNCHANGED <<creator, reopened>>

(* An update under way may insert a deleted workspace again, without members.*)
Reopen(w) ==
  /\ ~Stands(w) /\ creator[w] # Nobody
  /\ owner' = [owner EXCEPT ![w] = creator[w]]
  /\ reopened' = reopened \union {w}
  /\ UNCHANGED <<role, creator>>

Admit(w) ==
  \/ Reopen(w)
  \/ \E u \in Users : Open(w, u) \/ \E r \in Roles : Join(w, u, r)

Dismiss(w) == \E u \in Users, r \in Roles \union {Nobody} : Change(w, u, r)

MembershipNext == \E w \in Workspaces : Admit(w) \/ Dismiss(w) \/ Close(w)

MembershipSpec == MembershipInit /\ [][MembershipNext]_membership
=============================================================================
