---------------------------- MODULE TenantMembers ----------------------------
(***************************************************************************)
(* The members of one tenant (api/tenant/routes.py).  An invitation reads  *)
(* the plan, looks for the user, counts the rows and inserts one, with an  *)
(* await between each two.  A removal marks the row and keeps it.          *)
(*                                                                         *)
(* External: the class TenantMemberDB and its soft_delete, of which        *)
(* migration 004 gives the columns: no pair of tenant and user is unique.  *)
(***************************************************************************)
EXTENDS Naturals, FiniteSets

CONSTANTS Inviter,    \* invitations in progress at one time
          Member,     \* users
          Limits,     \* max_team_members of the plans with a limit
          MaxMember   \* bound: rows the table ever holds

ASSUME MembersAssumption ==
    /\ IsFiniteSet(Inviter)
    /\ Limits \subseteq Nat \ {0} /\ Limits # {} /\ MaxMember \in Nat

Unlimited == 0

VARIABLES members,   \* rows of tenant_members, numbered
          limit,     \* max_team_members of the tenant's plan, -1 as Unlimited
          invite,    \* invite[i]: where an invitation is
          peak       \* history: the highest limit so far, Unlimited once it was

membersVars == <<members, limit, invite, peak>>

MemberRow == [id : 1..MaxMember, user : Member, active : BOOLEAN, deleted : BOOLEAN]
NoInvite == [step |-> "none"]

MembersTypeOK ==
    /\ members \subseteq MemberRow
    /\ limit \in Limits \union {Unlimited} /\ peak \in Limits \union {Unlimited}
    /\ invite \in [Inviter -> {NoInvite} \union
                      [step : {"find", "count", "insert"}, user : Member,
                       limit : Limits \union {Unlimited}]]

MembersInit ==
    /\ members = {}
    /\ limit \in Limits \union {Unlimited} /\ peak = limit
    /\ invite = [i \in Inviter |-> NoInvite]

RowsOf(u) == {m \in members : m.user = u}

(* upgrade_plan and a deleted subscription change the plan under them. *)
PlanChanges(new) ==
    /\ limit' = new
    /\ peak' = IF Unlimited \in {peak, new} THEN Unlimited ELSE IF new > peak THEN new ELSE peak
    /\ UNCHANGED <<members, invite>>

(* invite_member loads the tenant, and with it the plan. *)
InviteMember(i, u) ==
    /\ invite[i] = NoInvite
    /\ invite' = [invite EXCEPT ![i] = [step |-> "find", user |-> u, limit |-> limit]]
    /\ UNCHANGED <<members, limit, peak>>

(* One row of the user, removed or not, is a refusal, two are an error. *)
FindMember(i) ==
    /\ invite[i].step = "find"
    /\ invite' = [invite EXCEPT ![i] =
                     IF RowsOf(@.user) # {} THEN NoInvite
                     ELSE IF @.limit = Unlimited THEN [@ EXCEPT !.step = "insert"]
                     ELSE [@ EXCEPT !.step = "count"]]
    /\ UNCHANGED <<members, limit, peak>>

(* Fault: the count leaves out the removed members. *)
CountMembersLive(i) ==
    /\ invite[i].step = "count"
    /\ invite' = [invite EXCEPT ![i] =
                     IF Cardinality({m \in members : ~m.deleted}) >= @.limit THEN NoInvite
                     ELSE [@ EXCEPT !.step = "insert"]]
    /\ UNCHANGED <<members, limit, peak>>

(* The count has no filter: removed members count. *)
CountMembers(i) ==
    /\ invite[i].step = "count"
    /\ invite' = [invite EXCEPT ![i] =
                     IF Cardinality(members) >= @.limit THEN NoInvite
                     ELSE [@ EXCEPT !.step = "insert"]]
    /\ UNCHANGED <<members, limit, peak>>

InsertMember(i) ==
    /\ invite[i].step = "insert" /\ Cardinality(members) < MaxMember
    /\ members' = members \union
          {[id |-> Cardinality(members) + 1, user |-> invite[i].user, active |-> TRUE, deleted |-> FALSE]}
    /\ invite' = [invite EXCEPT ![i] = NoInvite]
    /\ UNCHANGED <<limit, peak>>

(* update_member: by id, removed or not. *)
UpdateMember(m, active) ==
    /\ members' = (members \ {m}) \union {[m EXCEPT !.active = active]}
    /\ UNCHANGED <<limit, invite, peak>>

RemoveMember(m) ==
    /\ members' = (members \ {m}) \union {[m EXCEPT !.deleted = TRUE]}
    /\ UNCHANGED <<limit, invite, peak>>

MembersNext ==
    \/ \E new \in Limits \union {Unlimited} : PlanChanges(new)
    \/ \E i \in Inviter, u \in Member : InviteMember(i, u)
    \/ \E i \in Inviter : FindMember(i) \/ CountMembers(i) \/ InsertMember(i)
    \/ \E m \in members : RemoveMember(m) \/ \E active \in BOOLEAN : UpdateMember(m, active)

MembersSpec == MembersInit /\ [][MembersNext]_membersVars
-----------------------------------------------------------------------------
(* The invitations that passed the count before any of them inserted are   *)
(* all that a limit can be exceeded by, whatever the plan changed to since *)
(* and whoever was removed.                                                *)
MembersBounded ==
    peak # Unlimited => Cardinality(members) <= peak + Cardinality(Inviter) - 1

(* A user has more than one row only through invitations that looked for   *)
(* the user at once; then every later one fails, so the rows stay at most  *)
(* as many as the invitations at one time.                                 *)
MembersOnce == \A u \in Member : Cardinality(RowsOf(u)) <= Cardinality(Inviter)

(* The table of members. *)
MembersSafe == MembersBounded /\ MembersOnce
=============================================================================
