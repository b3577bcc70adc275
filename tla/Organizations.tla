---------------------------- MODULE Organizations ----------------------------
(***************************************************************************)
(* OrganizationService.  Every operation reads the organization, looks at  *)
(* its owner, and writes by id one round trip later.                       *)
(***************************************************************************)
EXTENDS WorkHours

CONSTANTS People,      \* ids of accounts
          Schedules,   \* work schedules
          OrgPatches,  \* bodies of PATCH: functions from some of the fields
          Callers,     \* slots for requests in flight
          Spellings,   \* how requests write ids: as toString does, "lower", ...
          OrgSeed,     \* the organizations there are at the start
          MaxOrgs      \* bound on the organizations ever created

OrgIds == 1 .. MaxOrgs
Organization == [owner : People, members : SUBSET People, isActive : BOOLEAN,
                 workSchedule : Schedules]

ASSUME OrganizationsAssumption ==
  /\ MaxOrgs \in Nat
  /\ DOMAIN OrgSeed \subseteq OrgIds
  /\ \A o \in DOMAIN OrgSeed :
       OrgSeed[o] \in Organization /\ OrgSeed[o].owner \in OrgSeed[o].members
  /\ \A p \in OrgPatches :
       /\ DOMAIN p \subseteq {"isActive", "workSchedule"}
       /\ "isActive" \in DOMAIN p => p.isActive \in BOOLEAN
       /\ "workSchedule" \in DOMAIN p => p.workSchedule \in Schedules
  /\ None \notin People
  /\ Spellings \subseteq {"lower", "upper"}

VARIABLES people,     \* accounts that exist
          orgs,       \* the organizations collection, by id
          orgsMade,   \* ids given out: they are never reused
          calls,      \* requests between their read and their write
          selfPulled  \* history: organizations whose owner's own removal was
                      \* let through, spelt in another way

orgVars == <<people, orgs, orgsMade, calls, selfPulled>>

NoCall == [op |-> "none", org |-> None, account |-> None, member |-> None,
           patch |-> <<>>]

OrgInit ==
  /\ people = People
  /\ orgs = OrgSeed
  /\ orgsMade = DOMAIN OrgSeed
  /\ calls = [r \in Callers |-> NoCall]
  /\ selfPulled = {}

(* findByIdAndUpdate: nothing happens when the organization is gone.       *)
OrgWith(o, org) == [p \in DOMAIN orgs |-> IF p = o THEN org ELSE orgs[p]]

Done(r) == calls' = [calls EXCEPT ![r] = NoCall]

CreateOrganization(o, a, schedule) ==
  /\ a \in people
  /\ o \notin orgsMade
  /\ orgsMade' = orgsMade \cup {o}
  /\ orgs' = [p \in DOMAIN orgs \cup {o} |->
       IF p = o
       THEN [owner |-> a, members |-> {a}, isActive |-> TRUE,
             workSchedule |-> schedule]
       ELSE orgs[p]]
  /\ UNCHANGED <<people, calls, selfPulled>>

(* Variant: anybody who is signed in.                                      *)
AnybodyReads(r, a, o, call) ==
  /\ calls[r] = NoCall
  /\ a \in people
  /\ o \in DOMAIN orgs
  /\ calls' = [calls EXCEPT ![r] = [call EXCEPT !.org = o, !.account = a]]
  /\ UNCHANGED <<people, orgs, orgsMade>>

(* findById and the comparison with the owner.                             *)
OwnerReads(r, a, o, call) ==
  /\ calls[r] = NoCall
  /\ a \in people
  /\ o \in DOMAIN orgs
  /\ orgs[o].owner = a
  /\ calls' = [calls EXCEPT ![r] = [call EXCEPT !.org = o, !.account = a]]
  /\ UNCHANGED <<people, orgs, orgsMade>>

(* PATCH /organization/:id and PATCH /organization/:id/work-schedule.      *)
UpdateOrganization(r, a, o, patch) ==
  /\ OwnerReads(r, a, o, [NoCall EXCEPT !.op = "patch", !.patch = patch])
  /\ UNCHANGED selfPulled

PatchWrite(r) ==
  LET q == calls[r]
      org == [f \in DOMAIN orgs[q.org] |->
                IF f \in DOMAIN q.patch THEN q.patch[f] ELSE orgs[q.org][f]]
  IN  /\ q.op = "patch"
      /\ orgs' = OrgWith(q.org, org)
      /\ Done(r)
      /\ UNCHANGED <<people, orgsMade, selfPulled>>

(* Variant: the array of members is sent back.                             *)
AddMemberToArray(r, a, o, m, spelling) ==
  /\ OwnerReads(r, a, o, [NoCall EXCEPT !.op = "patch",
       !.patch = [members |-> orgs[o].members \cup {m}]])
  /\ m \notin orgs[o].members
  /\ UNCHANGED selfPulled

(* Ids of a request are compared as they are written with what toString    *)
(* gives, and written as what they mean.  The member is any id: nobody asks*)
(* whether the account exists.                                             *)
AddMemberTo(r, a, o, m, spelling) ==
  /\ OwnerReads(r, a, o, [NoCall EXCEPT !.op = "add", !.member = m])
  /\ ~(m \in orgs[o].members /\ spelling = "lower")
  /\ UNCHANGED selfPulled

(* $addToSet *)
AddWrite(r) ==
  LET q == calls[r]
  IN  /\ q.op = "add"
      /\ orgs' = OrgWith(q.org, [orgs[q.org] EXCEPT !.members = @ \cup {q.member}])
      /\ Done(r)
      /\ UNCHANGED <<people, orgsMade, selfPulled>>

(* Variant: the owner may go.                                              *)
RemoveAnyMember(r, a, o, m, spelling) ==
  /\ OwnerReads(r, a, o, [NoCall EXCEPT !.op = "pull", !.member = m])
  /\ UNCHANGED selfPulled

RemoveMemberFrom(r, a, o, m, spelling) ==
  /\ OwnerReads(r, a, o, [NoCall EXCEPT !.op = "pull", !.member = m])
  /\ ~(m = a /\ spelling = "lower")
  /\ selfPulled' = IF m = a THEN selfPulled \cup {o} ELSE selfPulled

(* $pull *)
PullWrite(r) ==
  LET q == calls[r]
  IN  /\ q.op = "pull"
      /\ orgs' = OrgWith(q.org, [orgs[q.org] EXCEPT !.members = @ \ {q.member}])
      /\ Done(r)
      /\ UNCHANGED <<people, orgsMade, selfPulled>>

RemoveOrganization(r, a, o) ==
  /\ OwnerReads(r, a, o, [NoCall EXCEPT !.op = "delete"])
  /\ UNCHANGED selfPulled

DeleteWrite(r) ==
  /\ calls[r].op = "delete"
  /\ orgs' = [p \in DOMAIN orgs \ {calls[r].org} |-> orgs[p]]
  /\ Done(r)
  /\ UNCHANGED <<people, orgsMade, selfPulled>>

(* AccountService.delete and request-delete: no organization is told.      *)
AccountGone(a) ==
  /\ people' = people \ {a}
  /\ a \in people
  /\ UNCHANGED <<orgs, orgsMade, calls, selfPulled>>

OrgWrite(r) == PatchWrite(r) \/ AddWrite(r) \/ PullWrite(r) \/ DeleteWrite(r)

OrgNext ==
  \/ \E a \in people : AccountGone(a)
  \/ \E o \in OrgIds, a \in people, s \in Schedules : CreateOrganization(o, a, s)
  \/ \E r \in Callers : OrgWrite(r)
  \/ \E r \in Callers, a \in people, o \in DOMAIN orgs :
       \/ \E patch \in OrgPatches : UpdateOrganization(r, a, o, patch)
       \/ \E m \in People, spelling \in Spellings :
            AddMemberTo(r, a, o, m, spelling) \/ RemoveMemberFrom(r, a, o, m, spelling)
       \/ RemoveOrganization(r, a, o)

OrgSpec == OrgInit /\ [][OrgNext]_orgVars
-----------------------------------------------------------------------------
(* Organizations and requests have the shape of the code.                  *)
CallOK(q) ==
  /\ DOMAIN q = DOMAIN NoCall
  /\ q.op \in {"none", "patch", "add", "pull", "delete"}
  /\ q.op # "none" => q.org \in orgsMade /\ q.account \in People
  /\ q.op \in {"add", "pull"} => q.member \in People
  /\ q.op = "patch" => q.patch \in OrgPatches
  \* an organization in a request still has the owner the request saw
  /\ q.op # "none" /\ q.org \in DOMAIN orgs => orgs[q.org].owner = q.account

OrgTypeOK ==
  /\ people \subseteq People
  /\ orgsMade \subseteq OrgIds
  /\ DOMAIN orgs \subseteq orgsMade /\ selfPulled \subseteq orgsMade
  /\ \A o \in DOMAIN orgs : orgs[o] \in Organization
  /\ DOMAIN calls = Callers /\ \A r \in Callers : CallOK(calls[r])

(* Owner and members are separate fields: whatever additions, removals and *)
(* changes race, the owner is a member, or reports by organization leave   *)
(* him out.  Only an owner who spelt his own id in another way than the    *)
(* code compares it with may have removed himself.                         *)
OwnerStaysMember ==
  \A o \in DOMAIN orgs : orgs[o].owner \in orgs[o].members \/ o \in selfPulled

(* "Owner cannot remove themselves", says removeMember: no write of a      *)
(* request takes an owner out of the members.                              *)
OwnerCannotLeave ==
  [][\A o \in DOMAIN orgs \cap DOMAIN orgs' :
       orgs[o].owner \in orgs[o].members => orgs[o].owner \in orgs'[o].members]_orgVars

(* Additions and removals in flight at the same time never undo one        *)
(* another: a step changes the membership of one account.                  *)
MembershipStepByStep ==
  [][\A o \in DOMAIN orgs \cap DOMAIN orgs' :
       LET old == orgs[o].members new == orgs'[o].members
       IN  Cardinality((old \ new) \cup (new \ old)) <= 1]_orgVars
=============================================================================
