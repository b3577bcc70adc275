------------------------------ MODULE DeskProofs ------------------------------
(***************************************************************************)
(* Theorems about organizations, holidays and their cached lists, share    *)
(* links and reports, for any number of them and of requests in flight.    *)
(***************************************************************************)
EXTENDS ShareLinks, FiniteSetTheorems, TLAPS

-----------------------------------------------------------------------------
(* Organizations.                                                          *)

(* The owner of an organization never changes, and a removal in flight     *)
(* names somebody else, unless selfPulled says otherwise.                  *)
PullsOK ==
  \A r \in Callers : calls[r].op = "pull" =>
    calls[r].member # calls[r].account \/ calls[r].org \in selfPulled

OrgInv == OrgTypeOK /\ OwnerStaysMember /\ PullsOK

(* The seed satisfies the assumption on it.                               *)
LEMMA OrgStarts == OrgInit => OrgInv
<1> SUFFICES ASSUME OrgInit
             PROVE  OrgInv
  OBVIOUS
<1>1. CallOK(NoCall) /\ NoCall.op # "pull"
  BY DEF CallOK, NoCall
<1>2. PullsOK /\ \A r \in Callers : CallOK(calls[r])
  BY <1>1 DEF OrgInit, PullsOK
<1> QED
  BY <1>2, OrganizationsAssumption DEF OrgInit, OrgInv, OrgTypeOK, OwnerStaysMember

(* A read by the owner begins a request.                                   *)
LEMMA ReadKeeps ==
  ASSUME OrgInv, NEW r \in Callers, NEW q, CallOK(q),
         calls' = [calls EXCEPT ![r] = q], UNCHANGED <<people, orgs, orgsMade>>,
         selfPulled \subseteq selfPulled', selfPulled' \subseteq orgsMade,
         q.op = "pull" => q.member # q.account \/ q.org \in selfPulled'
  PROVE  OrgInv'
<1>1. DOMAIN calls' = Callers /\ \A s \in Callers : calls'[s] \in {calls[s], q}
  BY DEF OrgInv, OrgTypeOK
<1>2. \A s \in Callers : CallOK(calls'[s])
  BY <1>1 DEF OrgInv, OrgTypeOK
<1>3. \A s \in Callers : CallOK(calls[s])'
  BY <1>2 DEF CallOK
<1>4. PullsOK'
  BY <1>1 DEF OrgInv, PullsOK
<1> QED
  BY <1>1, <1>3, <1>4 DEF OrgInv, OrgTypeOK, OwnerStaysMember

(* A write by id of an organization with the same owner.                   *)
LEMMA OrgWriteKeeps ==
  ASSUME OrgInv, NEW r \in Callers, Done(r), NEW o, NEW org, orgs' = OrgWith(o, org),
         UNCHANGED <<people, orgsMade, selfPulled>>,
         o \in DOMAIN orgs => /\ org \in Organization
                              /\ org.owner = orgs[o].owner
                              /\ org.owner \in org.members \/ o \in selfPulled
  PROVE  OrgInv'
<1>1. /\ DOMAIN orgs' = DOMAIN orgs
      /\ \A p \in DOMAIN orgs : orgs'[p] = IF p = o THEN org ELSE orgs[p]
  BY DEF OrgWith
<1>2. /\ \A p \in DOMAIN orgs : orgs'[p] \in Organization
      /\ \A p \in DOMAIN orgs : orgs'[p].owner = orgs[p].owner
      /\ OwnerStaysMember'
  BY <1>1 DEF OrgInv, OrgTypeOK, OwnerStaysMember
<1>3. DOMAIN calls' = Callers /\ \A s \in Callers : calls'[s] \in {calls[s], NoCall}
  BY DEF Done, OrgInv, OrgTypeOK
<1>4. CallOK(NoCall) /\ NoCall.op # "pull"
  BY DEF CallOK, NoCall
<1>7. PullsOK'
  BY <1>3, <1>4 DEF OrgInv, PullsOK
<1>5. \A s \in Callers : CallOK(calls'[s])
  BY <1>3, <1>4 DEF OrgInv, OrgTypeOK
<1>6. \A s \in Callers : CallOK(calls[s])'
  BY <1>1, <1>2, <1>5 DEF CallOK
<1> QED
  BY <1>1, <1>2, <1>3, <1>6, <1>7 DEF OrgInv, OrgTypeOK

(* Each write: $set of other fields, $addToSet, $pull of somebody else.    *)
LEMMA WriteKeeps ==
  ASSUME OrgInv, NEW r \in Callers, OrgWrite(r)
  PROVE  OrgInv'
<1> DEFINE q == calls[r]
           o == q.org
<1>1. /\ CallOK(q)
      /\ o \in DOMAIN orgs =>
           /\ orgs[o] \in Organization
           /\ orgs[o].owner \in orgs[o].members \/ o \in selfPulled
  BY DEF OrgInv, OrgTypeOK, OwnerStaysMember
<1>2. CASE PatchWrite(r)
  <2> DEFINE org == [f \in DOMAIN orgs[o] |->
                       IF f \in DOMAIN q.patch THEN q.patch[f] ELSE orgs[o][f]]
  <2>1. /\ DOMAIN q.patch \subseteq {"isActive", "workSchedule"}
        /\ "isActive" \in DOMAIN q.patch => q.patch["isActive"] \in BOOLEAN
        /\ "workSchedule" \in DOMAIN q.patch => q.patch["workSchedule"] \in Schedules
    BY <1>1, <1>2, OrganizationsAssumption DEF PatchWrite, CallOK
  <2>2. ASSUME o \in DOMAIN orgs
        PROVE  /\ org \in Organization /\ org.owner = orgs[o].owner
               /\ org.members = orgs[o].members
    <3>1. orgs[o] \in Organization
      BY <1>1, <2>2
    <3>2. DOMAIN orgs[o] = {"owner", "members", "isActive", "workSchedule"}
      BY <3>1 DEF Organization
    <3>3. org = [owner |-> org["owner"], members |-> org["members"],
                 isActive |-> org["isActive"], workSchedule |-> org["workSchedule"]]
      BY <3>2
    <3>4. org["owner"] = orgs[o].owner /\ org["members"] = orgs[o].members
      BY <2>1, <3>2
    <3>5. org["isActive"] \in BOOLEAN /\ org["workSchedule"] \in Schedules
      BY <2>1, <3>1, <3>2 DEF Organization
    <3> HIDE DEF org
    <3> QED
      BY <3>1, <3>3, <3>4, <3>5 DEF Organization
  <2> QED
    BY <1>1, <1>2, <2>2, OrgWriteKeeps DEF PatchWrite
<1>3. CASE AddWrite(r)
  <2> DEFINE org == [orgs[o] EXCEPT !.members = @ \cup {q.member}]
  <2>1. q.member \in People
    BY <1>1, <1>3 DEF AddWrite, CallOK
  <2>2. o \in DOMAIN orgs => /\ org \in Organization
                             /\ org.owner = orgs[o].owner
                             /\ org.owner \in org.members \/ o \in selfPulled
    BY <1>1, <2>1 DEF Organization
  <2> QED
    BY <1>3, <2>2, OrgWriteKeeps DEF AddWrite
<1>4. CASE PullWrite(r)
  <2> DEFINE org == [orgs[o] EXCEPT !.members = @ \ {q.member}]
  <2>1. o \in DOMAIN orgs => q.member # orgs[o].owner \/ o \in selfPulled
    BY <1>1, <1>4 DEF PullWrite, CallOK, OrgInv, PullsOK
  <2>2. o \in DOMAIN orgs => /\ org \in Organization
                             /\ org.owner = orgs[o].owner
                             /\ org.owner \in org.members \/ o \in selfPulled
    BY <1>1, <2>1 DEF Organization
  <2> QED
    BY <1>4, <2>2, OrgWriteKeeps DEF PullWrite
<1>5. CASE DeleteWrite(r)
  <2>1. /\ DOMAIN orgs' = DOMAIN orgs \ {o}
        /\ \A p \in DOMAIN orgs' : orgs'[p] = orgs[p]
        /\ UNCHANGED <<people, orgsMade, selfPulled>>
    BY <1>5 DEF DeleteWrite
  <2>2. DOMAIN calls' = Callers /\ \A s \in Callers : calls'[s] \in {calls[s], NoCall}
    BY <1>5 DEF DeleteWrite, Done, OrgInv, OrgTypeOK
  <2>3. CallOK(NoCall) /\ NoCall.op # "pull"
    BY DEF CallOK, NoCall
  <2>6. PullsOK'
    BY <2>1, <2>2, <2>3 DEF OrgInv, PullsOK
  <2>4. \A s \in Callers : CallOK(calls'[s])
    BY <2>2, <2>3 DEF OrgInv, OrgTypeOK
  <2>5. \A s \in Callers : CallOK(calls[s])'
    BY <2>1, <2>4 DEF CallOK
  <2> QED
    BY <2>1, <2>2, <2>5, <2>6 DEF OrgInv, OrgTypeOK, OwnerStaysMember
<1> QED
  BY <1>2, <1>3, <1>4, <1>5 DEF OrgWrite

(* Each request of an owner, as far as its read.                           *)
LEMMA OwnerReadsKeep ==
  ASSUME OrgInv, NEW r \in Callers, NEW a \in people, NEW o \in DOMAIN orgs,
         \/ \E patch \in OrgPatches : UpdateOrganization(r, a, o, patch)
         \/ \E m \in People, spelling \in Spellings :
              AddMemberTo(r, a, o, m, spelling) \/ RemoveMemberFrom(r, a, o, m, spelling)
         \/ RemoveOrganization(r, a, o)
  PROVE  OrgInv' /\ UNCHANGED orgs
<1>1. o \in orgsMade /\ a \in People /\ selfPulled \subseteq orgsMade
  BY DEF OrgInv, OrgTypeOK
<1>2. ASSUME NEW patch \in OrgPatches, UpdateOrganization(r, a, o, patch)
      PROVE  OrgInv' /\ UNCHANGED orgs
  <2> DEFINE q == [[NoCall EXCEPT !.op = "patch", !.patch = patch] EXCEPT !.org = o, !.account = a]
  <2>1. CallOK(q)
    BY <1>1, <1>2 DEF CallOK, NoCall, UpdateOrganization, OwnerReads
  <2> QED
    BY <1>1, <1>2, <2>1, ReadKeeps DEF UpdateOrganization, OwnerReads, NoCall
<1>3. ASSUME NEW m \in People, NEW spelling \in Spellings, AddMemberTo(r, a, o, m, spelling)
      PROVE  OrgInv' /\ UNCHANGED orgs
  <2> DEFINE q == [[NoCall EXCEPT !.op = "add", !.member = m] EXCEPT !.org = o, !.account = a]
  <2>1. CallOK(q)
    BY <1>1, <1>3 DEF CallOK, NoCall, AddMemberTo, OwnerReads
  <2> QED
    BY <1>1, <1>3, <2>1, ReadKeeps DEF AddMemberTo, OwnerReads, NoCall
<1>4. ASSUME NEW m \in People, NEW spelling \in Spellings,
             RemoveMemberFrom(r, a, o, m, spelling)
      PROVE  OrgInv' /\ UNCHANGED orgs
  <2> DEFINE q == [[NoCall EXCEPT !.op = "pull", !.member = m] EXCEPT !.org = o, !.account = a]
  <2>1. CallOK(q) /\ q.member = m /\ q.account = a /\ q.org = o
    BY <1>1, <1>4 DEF CallOK, NoCall, RemoveMemberFrom, OwnerReads
  <2>2. /\ selfPulled \subseteq selfPulled' /\ selfPulled' \subseteq orgsMade
        /\ m # a \/ o \in selfPulled'
    BY <1>1, <1>4 DEF RemoveMemberFrom
  <2> QED
    BY <1>4, <2>1, <2>2, ReadKeeps DEF RemoveMemberFrom, OwnerReads
<1>5. CASE RemoveOrganization(r, a, o)
  <2> DEFINE q == [[NoCall EXCEPT !.op = "delete"] EXCEPT !.org = o, !.account = a]
  <2>1. CallOK(q)
    BY <1>1, <1>5 DEF CallOK, NoCall, RemoveOrganization, OwnerReads
  <2> QED
    BY <1>1, <1>5, <2>1, ReadKeeps DEF RemoveOrganization, OwnerReads, NoCall
<1> QED
  BY <1>2, <1>3, <1>4, <1>5

(* A new organization, with an id that no request in flight can mean.      *)
LEMMA CreateKeeps ==
  ASSUME OrgInv, NEW o \in OrgIds, NEW a \in people, NEW s \in Schedules,
         CreateOrganization(o, a, s)
  PROVE  OrgInv'
<1> DEFINE org == [owner |-> a, members |-> {a}, isActive |-> TRUE, workSchedule |-> s]
<1>1. org \in Organization /\ org.owner \in org.members
  BY DEF OrgInv, OrgTypeOK, Organization
<1>2. /\ o \notin orgsMade /\ orgsMade' = orgsMade \cup {o}
      /\ DOMAIN orgs' = DOMAIN orgs \cup {o}
      /\ \A p \in DOMAIN orgs' : orgs'[p] = IF p = o THEN org ELSE orgs[p]
      /\ UNCHANGED <<people, calls, selfPulled>>
  BY DEF CreateOrganization
<1> HIDE DEF org
<1>3. \A r \in Callers : CallOK(calls[r])
  BY DEF OrgInv, OrgTypeOK
<1>4. \A r \in Callers : CallOK(calls[r])'
  BY <1>2, <1>3 DEF CallOK
<1>5. PullsOK'
  BY <1>2 DEF OrgInv, PullsOK
<1> QED
  BY <1>1, <1>2, <1>4, <1>5 DEF OrgInv, OrgTypeOK, OwnerStaysMember

(* An account goes; no organization is told.                               *)
LEMMA AccountGoneKeeps ==
  ASSUME OrgInv, NEW a \in people, AccountGone(a)
  PROVE  OrgInv'
  BY DEF AccountGone, OrgInv, OrgTypeOK, OwnerStaysMember, CallOK, PullsOK

(* Requests in flight name organizations and accounts by id only.         *)
LEMMA OrgUnchanged == OrgInv /\ UNCHANGED orgVars => OrgInv'
  BY DEF OrgInv, orgVars, OrgTypeOK, OwnerStaysMember, CallOK, PullsOK

(* Every request and every write of the service.                          *)
LEMMA OrgStep == OrgInv /\ OrgNext => OrgInv'
  BY OwnerReadsKeep, CreateKeeps, AccountGoneKeeps, WriteKeeps DEF OrgNext

(* What a behaviour of the desk does to organizations, whichever part of   *)
(* the system it follows.                                                  *)
LEMMA DeskOrgStep ==
  ASSUME OrgInv, [DeskNext]_deskVars
  PROVE  OrgInv' /\ (OrgNext \/ UNCHANGED orgs)
<1>1. CASE Beside
  <2>1. CASE UNCHANGED orgVars
    BY <2>1, OrgUnchanged DEF orgVars
  <2>2. ASSUME NEW a \in people, AccountGone(a)
        PROVE  OrgInv' /\ OrgNext
    BY <2>2, AccountGoneKeeps DEF OrgNext
  <2>3. ASSUME NEW r \in Callers, DeleteWrite(r)
        PROVE  OrgInv' /\ OrgNext
    BY <2>3, WriteKeeps DEF OrgNext, OrgWrite
  <2>4. ASSUME NEW r \in Callers, NEW o \in DOMAIN orgs,
               RemoveOrganization(r, orgs[o].owner, o)
        PROVE  OrgInv' /\ UNCHANGED orgs
    <3>1. orgs[o].owner \in people
      BY <2>4 DEF RemoveOrganization, OwnerReads
    <3> QED
      BY <2>4, <3>1, OwnerReadsKeep
  <2> QED
    BY <1>1, <2>1, <2>2, <2>3, <2>4 DEF Beside
<1>2. CASE OrgNext
  BY <1>2, OrgStep
<1>3. CASE UNCHANGED orgVars
  BY <1>3, OrgUnchanged DEF orgVars
<1> QED
  BY <1>1, <1>2, <1>3 DEF DeskNext, deskVars

(* Whatever additions, removals and changes of an organization are in      *)
(* flight together, its owner is one of its members, unless he has removed *)
(* himself by another spelling of his id, which removeMember lets through. *)
THEOREM OwnerIsMember == DeskSpec => []OwnerStaysMember
<1>1. DeskInit => OrgInv
  BY OrgStarts DEF DeskInit
<1>2. OrgInv /\ [DeskNext]_deskVars => OrgInv'
  BY DeskOrgStep
<1>3. OrgInv => OwnerStaysMember
  BY DEF OrgInv
<1> QED
  BY <1>1, <1>2, <1>3, PTL DEF DeskSpec

-----------------------------------------------------------------------------
(* Memberships.                                                            *)

(* A set within a singleton has at most one member.                       *)
LEMMA AtMostOne == \A S, x : S \subseteq {x} => Cardinality(S) <= 1
<1> SUFFICES ASSUME NEW S, NEW x, S \subseteq {x}
             PROVE  Cardinality(S) <= 1
  OBVIOUS
<1>1. IsFiniteSet({x}) /\ Cardinality({x}) = 1
  BY FS_Singleton
<1> QED
  BY <1>1, FS_Subset

OneMembership ==
  \A o \in DOMAIN orgs \cap DOMAIN orgs' :
    LET old == orgs[o].members new == orgs'[o].members
    IN  Cardinality((old \ new) \cup (new \ old)) <= 1

(* No step touches two memberships of an organization, or two people.      *)
LEMMA OneMembershipStep ==
  ASSUME OrgInv, OrgNext \/ UNCHANGED orgs
  PROVE  OneMembership
<1> DEFINE old(o) == orgs[o].members
           new(o) == orgs'[o].members
           changed(o) == (old(o) \ new(o)) \cup (new(o) \ old(o))
<1> SUFFICES ASSUME NEW o \in DOMAIN orgs \cap DOMAIN orgs'
             PROVE  \E x : changed(o) \subseteq {x}
  BY AtMostOne DEF OneMembership
<1>1. orgs[o] \in Organization
  BY DEF OrgInv, OrgTypeOK
<1>2. CASE orgs'[o].members = orgs[o].members
  BY <1>2
<1>3. ASSUME NEW r \in Callers, PatchWrite(r)
      PROVE  orgs'[o].members = orgs[o].members
  <2>1. CallOK(calls[r])
    BY DEF OrgInv, OrgTypeOK
  <2>2. "members" \notin DOMAIN calls[r].patch
    BY <1>3, <2>1, OrganizationsAssumption DEF PatchWrite, CallOK
  <2>3. "members" \in DOMAIN orgs[o]
    BY <1>1 DEF Organization
  <2> QED
    BY <1>3, <2>2, <2>3 DEF PatchWrite, OrgWith
<1>4. ASSUME NEW r \in Callers, AddWrite(r)
      PROVE  changed(o) \subseteq {calls[r].member}
  <2>1. [orgs[o] EXCEPT !.members = @ \cup {calls[r].member}].members
          = orgs[o].members \cup {calls[r].member}
    BY <1>1 DEF Organization
  <2> QED
    BY <1>4, <2>1 DEF AddWrite, OrgWith
<1>5. ASSUME NEW r \in Callers, PullWrite(r)
      PROVE  changed(o) \subseteq {calls[r].member}
  <2>1. [orgs[o] EXCEPT !.members = @ \ {calls[r].member}].members
          = orgs[o].members \ {calls[r].member}
    BY <1>1 DEF Organization
  <2> QED
    BY <1>5, <2>1 DEF PullWrite, OrgWith
<1>6. ASSUME NEW r \in Callers, DeleteWrite(r)
      PROVE  orgs'[o].members = orgs[o].members
  BY <1>6 DEF DeleteWrite
<1>7. ASSUME NEW p \in OrgIds, NEW a \in people, NEW s \in Schedules,
             CreateOrganization(p, a, s)
      PROVE  orgs'[o].members = orgs[o].members
  <2>1. o # p
    BY <1>7 DEF CreateOrganization, OrgInv, OrgTypeOK
  <2> QED
    BY <1>7, <2>1 DEF CreateOrganization
<1>8. ASSUME UNCHANGED orgs
      PROVE  orgs'[o].members = orgs[o].members
  BY <1>8
<1> QED
  BY <1>2, <1>3, <1>4, <1>5, <1>6, <1>7, <1>8, OwnerReadsKeep
     DEF OrgNext, OrgWrite, AccountGone

(* Changes in flight never undo one another: a step of the system changes  *)
(* the membership of one account.                                          *)
THEOREM MembershipsStepByStep == DeskSpec => MembershipStepByStep
<1>1. DeskInit => OrgInv
  BY OrgStarts DEF DeskInit
<1>2. OrgInv /\ [DeskNext]_deskVars => OrgInv' /\ [OneMembership]_orgVars
  BY DeskOrgStep, OneMembershipStep
<1> QED
  BY <1>1, <1>2, PTL DEF DeskSpec, MembershipStepByStep, OneMembership

-----------------------------------------------------------------------------
(* Holidays.                                                               *)

DaysInv == DOMAIN holidays \subseteq HolidayIds /\ OneHolidayPerDate

(* The seed has one holiday per date.                                     *)
LEMMA DaysStart == HolidayInit => DaysInv
  BY HolidaysAssumption DEF HolidayInit, DaysInv, OneHolidayPerDate

(* A holiday is stored only when the index has no other on its date.       *)
LEMMA EditingKeepsDays ==
  ASSUME DaysInv, Editing
  PROVE  DaysInv'
<1>1. ASSUME NEW c \in Editors, HolidayInsert(c)
      PROVE  DaysInv'
  <2> DEFINE q == change[c]
             id == Cardinality(daysMade) + 1
  <2>1. CASE UNCHANGED holidays
    BY <2>1 DEF DaysInv, OneHolidayPerDate
  <2>2. CASE /\ ~DateTaken(q.patch.date, 0) /\ id \in HolidayIds
             /\ holidays' = [h \in DOMAIN holidays \cup {id} |->
                  IF h = id THEN q.patch ELSE holidays[h]]
    <3> HIDE DEF id
    <3>1. 0 \notin DOMAIN holidays
      BY DEF DaysInv, HolidayIds
    <3>2. \A h \in DOMAIN holidays : holidays[h].date # q.patch.date
      BY <2>2, <3>1 DEF DateTaken
    <3>3. /\ DOMAIN holidays' = DOMAIN holidays \cup {id}
          /\ \A h \in DOMAIN holidays' :
               holidays'[h] = IF h = id THEN q.patch ELSE holidays[h]
      BY <2>2
    <3> QED
      BY <2>2, <3>2, <3>3 DEF DaysInv, OneHolidayPerDate
  <2> QED
    BY <1>1, <2>1, <2>2 DEF HolidayInsert, Refused
<1>2. ASSUME NEW c \in Editors, HolidayUpdate(c)
      PROVE  DaysInv'
  <2> DEFINE q == change[c]
             clash == "date" \in DOMAIN q.patch /\ DateTaken(q.patch.date, q.id)
             day == [k \in {"date", "type"} |->
                       IF k \in DOMAIN q.patch THEN q.patch[k] ELSE holidays[q.id][k]]
  <2>1. CASE UNCHANGED holidays
    BY <2>1 DEF DaysInv, OneHolidayPerDate
  <2>2. CASE /\ q.id \in DOMAIN holidays /\ ~clash
             /\ holidays' = [holidays EXCEPT ![q.id] = day]
    <3>1. day.date = IF "date" \in DOMAIN q.patch THEN q.patch.date ELSE holidays[q.id].date
      OBVIOUS
    <3> HIDE DEF day
    <3>2. \A h \in DOMAIN holidays \ {q.id} : holidays[h].date # day.date
      BY <2>2, <3>1 DEF DateTaken, DaysInv, OneHolidayPerDate
    <3>3. /\ DOMAIN holidays' = DOMAIN holidays
          /\ \A h \in DOMAIN holidays : holidays'[h] = IF h = q.id THEN day ELSE holidays[h]
      BY <2>2
    <3> QED
      BY <3>2, <3>3 DEF DaysInv, OneHolidayPerDate
  <2> QED
    BY <1>2, <2>1, <2>2 DEF HolidayUpdate, Refused
<1>3. CASE UNCHANGED holidays
  BY <1>3 DEF DaysInv, OneHolidayPerDate
<1> QED
  BY <1>1, <1>2, <1>3 DEF Editing, CreateHoliday, UpdateHoliday

(* Only the two writes of the service can set a date.                     *)
LEMMA DaysStep == DaysInv /\ [DeskNext]_deskVars => DaysInv'
<1> SUFFICES ASSUME DaysInv, [DeskNext]_deskVars
             PROVE  DaysInv'
  OBVIOUS
<1>1. CASE UNCHANGED holidays
  BY <1>1 DEF DaysInv, OneHolidayPerDate
<1>2. ASSUME NEW c \in Editors, NEW id \in DOMAIN holidays, RemoveHoliday(c, id)
      PROVE  DaysInv'
  BY <1>2 DEF RemoveHoliday, DaysInv, OneHolidayPerDate
<1>3. CASE Listing \/ Clearing
  BY <1>1, <1>2, <1>3 DEF Listing, Clearing, ListQuery, ListFill, ListArrive, Evict,
     ClearCache, ClearListCache
<1>4. CASE Beside
  BY <1>1, <1>4 DEF Beside, HolidayTick, holidayVars
<1> QED
  BY <1>1, <1>3, <1>4, EditingKeepsDays DEF DeskNext, deskVars, holidayVars, HolidayTick

(* Of however many creations and updates in flight: no date has two        *)
(* holidays.                                                               *)
THEOREM HolidaysByDate == DeskSpec => []OneHolidayPerDate
<1>1. DeskInit => DaysInv
  BY DaysStart DEF DeskInit
<1>2. DaysInv /\ [DeskNext]_deskVars => DaysInv'
  BY DaysStep
<1>3. DaysInv => OneHolidayPerDate
  BY DEF DaysInv
<1> QED
  BY <1>1, <1>2, <1>3, PTL DEF DeskSpec

-----------------------------------------------------------------------------
(* Cached lists.                                                           *)

(* A list request is a record with these fields.                           *)
FetchShaped(q) ==
  q = [pc |-> q.pc, url |-> q.url, since |-> q.since, list |-> q.list, asOf |-> q.asOf]

FetchesInv ==
  /\ DOMAIN fetch = Fetches
  /\ \A f \in Fetches : FetchShaped(fetch[f])

(* After a quiet change a list on its way into the cache is as fresh as    *)
(* the lists in it.                                                        *)
FreshInv ==
  /\ FreshAfterQuietChange
  /\ quiet => \A f \in Fetches : fetch[f].pc = "fill" =>
       fetch[f].list = Listed(fetch[f].url)

(* An idle slot of a list request is a record of that shape.              *)
LEMMA NoFetchShaped == FetchShaped(NoFetch) /\ NoFetch.pc = "idle"
  BY DEF FetchShaped, NoFetch

(* Nothing is cached at the start.                                        *)
LEMMA ListsStart == HolidayInit => FetchesInv /\ FreshInv
<1> SUFFICES ASSUME HolidayInit
             PROVE  FetchesInv /\ FreshInv
  OBVIOUS
<1>1. \A f \in Fetches : FetchShaped(fetch[f]) /\ fetch[f].pc = "idle"
  BY NoFetchShaped DEF HolidayInit
<1>2. DOMAIN cache = {}
  BY DEF HolidayInit
<1> QED
  BY <1>1, <1>2 DEF HolidayInit, FetchesInv, FreshInv, FreshAfterQuietChange

(* The steps of a list request, field by field.                            *)
LEMMA FetchSteps ==
  ASSUME FetchesInv, NEW f \in Fetches
  PROVE  /\ \A url : ListArrive(f, url) =>
              \/ UNCHANGED fetch
              \/ /\ fetch' = [fetch EXCEPT ![f] = fetch'[f]]
                 /\ fetch'[f] = [pc |-> "query", url |-> url, since |-> now,
                                 list |-> {}, asOf |-> 0]
         /\ ListQuery(f) =>
              /\ fetch' = [fetch EXCEPT ![f] = fetch'[f]]
              /\ fetch'[f] = [pc |-> "fill", url |-> fetch[f].url,
                              since |-> fetch[f].since,
                              list |-> Listed(fetch[f].url), asOf |-> now]
<1>1. ASSUME NEW url, ListArrive(f, url), ~UNCHANGED fetch
      PROVE  /\ fetch' = [fetch EXCEPT ![f] = fetch'[f]]
             /\ fetch'[f] = [pc |-> "query", url |-> url, since |-> now,
                             list |-> {}, asOf |-> 0]
  <2>1. fetch' = [fetch EXCEPT ![f] =
          [NoFetch EXCEPT !.pc = "query", !.url = url, !.since = now]]
    BY <1>1 DEF ListArrive
  <2>2. fetch'[f] = [pc |-> "query", url |-> url, since |-> now, list |-> {}, asOf |-> 0]
    BY <2>1 DEF FetchesInv, NoFetch
  <2>3. fetch'[f] = [NoFetch EXCEPT !.pc = "query", !.url = url, !.since = now]
    BY <2>1 DEF FetchesInv
  <2> QED
    BY <2>1, <2>2, <2>3
<1>2. ASSUME ListQuery(f)
      PROVE  /\ fetch' = [fetch EXCEPT ![f] = fetch'[f]]
             /\ fetch'[f] = [pc |-> "fill", url |-> fetch[f].url, since |-> fetch[f].since,
                             list |-> Listed(fetch[f].url), asOf |-> now]
  <2>1. fetch[f] = [pc |-> fetch[f].pc, url |-> fetch[f].url, since |-> fetch[f].since,
                    list |-> fetch[f].list, asOf |-> fetch[f].asOf]
    BY DEF FetchesInv, FetchShaped
  <2>2. fetch' = [fetch EXCEPT ![f] =
          [fetch[f] EXCEPT !.pc = "fill", !.list = Listed(fetch[f].url), !.asOf = now]]
    BY <1>2 DEF ListQuery
  <2>3. fetch'[f] = [pc |-> "fill", url |-> fetch[f].url, since |-> fetch[f].since,
                     list |-> Listed(fetch[f].url), asOf |-> now]
    BY <2>1, <2>2 DEF FetchesInv
  <2>4. fetch'[f] =
          [fetch[f] EXCEPT !.pc = "fill", !.list = Listed(fetch[f].url), !.asOf = now]
    BY <2>2 DEF FetchesInv
  <2> QED
    BY <2>2, <2>3, <2>4
<1> QED
  BY <1>1, <1>2

(* Fetches keep their shape.                                               *)
LEMMA FetchesStep == FetchesInv /\ [DeskNext]_deskVars => FetchesInv'
<1> SUFFICES ASSUME FetchesInv, [DeskNext]_deskVars
             PROVE  FetchesInv'
  OBVIOUS
<1>1. CASE UNCHANGED fetch
  BY <1>1 DEF FetchesInv
<1>2. ASSUME NEW f \in Fetches, fetch' = [fetch EXCEPT ![f] = fetch'[f]],
             FetchShaped(fetch'[f])
      PROVE  FetchesInv'
  <2>1. DOMAIN fetch' = Fetches /\ \A g \in Fetches : g # f => fetch'[g] = fetch[g]
    BY <1>2 DEF FetchesInv
  <2>2. \A g \in Fetches : FetchShaped(fetch'[g])
    BY <1>2, <2>1 DEF FetchesInv
  <2> QED
    BY <2>1, <2>2 DEF FetchesInv
<1>3. ASSUME NEW f \in Fetches,
             ListQuery(f) \/ \E url \in Urls : ListArrive(f, url)
      PROVE  FetchesInv'
  BY <1>1, <1>2, <1>3, FetchSteps DEF FetchShaped
<1>4. ASSUME NEW f \in Fetches, ListFill(f)
      PROVE  FetchesInv'
  <2>1. fetch' = [fetch EXCEPT ![f] = NoFetch] /\ fetch'[f] = NoFetch
    BY <1>4 DEF ListFill, FetchesInv
  <2> QED
    BY <1>2, <2>1, NoFetchShaped
<1>5. CASE Listing
  BY <1>1, <1>3, <1>4, <1>5 DEF Listing, Evict, ClearCache
<1>6. CASE Clearing \/ Editing
  BY <1>1, <1>6 DEF Clearing, Editing, ClearListCache, RemoveHoliday, HolidayInsert,
     HolidayUpdate, CreateHoliday, UpdateHoliday
<1>7. CASE Beside
  BY <1>1, <1>7 DEF Beside, HolidayTick, holidayVars
<1> QED
  BY <1>1, <1>5, <1>6, <1>7 DEF DeskNext, deskVars, holidayVars, HolidayTick

(* A report that is cached is under a key that no list has.                *)
LEMMA ViewsApart == \A s : ViewUrl(s) \notin Urls
  BY DEF ViewUrl, Urls, All, ListUrl

(* What Filled adds is under the key of the request.                       *)
LEMMA FilledCache ==
  ASSUME NEW handler, NEW url, NEW value, NEW asOf, cache' = Filled(handler, url, value, asOf)
  PROVE  /\ DOMAIN cache' \subseteq DOMAIN cache \cup {url}
         /\ \A u \in DOMAIN cache' :
              \/ u \in DOMAIN cache /\ cache'[u] = cache[u]
              \/ u = url /\ cache'[u] = [value |-> value, asOf |-> asOf, till |-> now + Ttl]
<1>1. TrackBy(handler, url) \subseteq {url}
  BY DEF TrackBy
<1> QED
  BY <1>1 DEF Filled

(* Whatever disturbs a fresh list ends quiet, or begins a change.         *)
LEMMA FreshStep == FetchesInv /\ FreshInv /\ [DeskNext]_deskVars => FreshInv'
<1> SUFFICES ASSUME FetchesInv, FreshInv, [DeskNext]_deskVars
             PROVE  FreshInv'
  OBVIOUS
<1> DEFINE Steady == \A url : Listed(url)' = Listed(url)
<1>1. ASSUME UNCHANGED holidays
      PROVE  Steady
  BY <1>1 DEF Listed, HolidayDocs
<1>2. ASSUME UNCHANGED <<holidays, fetch, quiet>>, DOMAIN cache' \subseteq DOMAIN cache,
             \A u \in DOMAIN cache' : cache'[u] = cache[u]
      PROVE  FreshInv'
  BY <1>1, <1>2 DEF FreshInv, FreshAfterQuietChange
<1>3. ASSUME quiet' = FALSE
      PROVE  FreshInv'
  BY <1>3 DEF FreshInv, FreshAfterQuietChange
<1>4. ASSUME NEW f \in Fetches, ListQuery(f) \/ \E url \in Urls : ListArrive(f, url)
      PROVE  FreshInv'
  <2>1. UNCHANGED <<holidays, cache, quiet>>
    BY <1>4 DEF ListQuery, ListArrive
  <2>2. CASE UNCHANGED fetch
    BY <1>2, <2>1, <2>2
  <2>3. CASE /\ fetch' = [fetch EXCEPT ![f] = fetch'[f]]
             /\ fetch'[f].pc = "fill" => fetch'[f].list = Listed(fetch'[f].url)
    <3>1. \A g \in Fetches : g # f => fetch'[g] = fetch[g]
      BY <2>3 DEF FetchesInv
    <3> QED
      BY <1>1, <2>1, <2>3, <3>1 DEF FreshInv, FreshAfterQuietChange
  <2>4. ASSUME NEW url, ListArrive(f, url)
        PROVE  FreshInv'
    <3>1. \/ UNCHANGED fetch
          \/ /\ fetch' = [fetch EXCEPT ![f] = fetch'[f]]
             /\ fetch'[f] = [pc |-> "query", url |-> url, since |-> now,
                             list |-> {}, asOf |-> 0]
      BY <2>4, FetchSteps
    <3> QED
      BY <2>2, <2>3, <3>1
  <2>5. ASSUME ListQuery(f)
        PROVE  FreshInv'
    <3>1. /\ fetch' = [fetch EXCEPT ![f] = fetch'[f]]
          /\ fetch'[f] = [pc |-> "fill", url |-> fetch[f].url, since |-> fetch[f].since,
                          list |-> Listed(fetch[f].url), asOf |-> now]
      BY <2>5, FetchSteps
    <3>2. fetch'[f].url = fetch[f].url /\ fetch'[f].list = Listed(fetch[f].url)
      BY <3>1
    <3> QED
      BY <2>3, <3>1, <3>2
  <2> QED
    BY <1>4, <2>4, <2>5
<1>5. ASSUME NEW f \in Fetches, ListFill(f)
      PROVE  FreshInv'
  <2>1. /\ fetch[f].pc = "fill" /\ UNCHANGED <<holidays, quiet>>
        /\ cache' = Filled("list", fetch[f].url, fetch[f].list, fetch[f].asOf)
        /\ fetch' = [fetch EXCEPT ![f] = NoFetch]
    BY <1>5 DEF ListFill
  <2>2. \A g \in Fetches : fetch'[g] \in {fetch[g], NoFetch}
    BY <2>1 DEF FetchesInv
  <2>3. \A u \in DOMAIN cache' :
          \/ u \in DOMAIN cache /\ cache'[u] = cache[u]
          \/ u = fetch[f].url /\ cache'[u].value = fetch[f].list
    <3>1. \A u \in DOMAIN cache' :
            \/ u \in DOMAIN cache /\ cache'[u] = cache[u]
            \/ /\ u = fetch[f].url
               /\ cache'[u] = [value |-> fetch[f].list, asOf |-> fetch[f].asOf,
                               till |-> now + Ttl]
      BY <2>1, FilledCache
    <3> QED
      BY <3>1
  <2> QED
    BY <1>1, <2>1, <2>2, <2>3, NoFetchShaped DEF FreshInv, FreshAfterQuietChange
<1>6. ASSUME NEW c \in Editors, ClearListCache(c)
      PROVE  FreshInv'
  <2>1. DOMAIN cache' \cap Urls = {} /\ UNCHANGED fetch
    BY <1>6 DEF ClearListCache
  <2>2. quiet' => \A f \in Fetches : fetch[f].pc # "fill"
    BY <1>6 DEF ClearListCache, NothingElse
  <2> QED
    BY <2>1, <2>2 DEF FreshInv, FreshAfterQuietChange
<1>7. CASE Listing
  <2>1. ASSUME NEW url \in DOMAIN cache, Evict(url)
        PROVE  FreshInv'
    BY <1>2, <2>1 DEF Evict
  <2>2. CASE ClearCache
    BY <1>2, <2>2 DEF ClearCache
  <2> QED
    BY <1>4, <1>5, <1>7, <2>1, <2>2 DEF Listing
<1>8. CASE Clearing
  BY <1>3, <1>6, <1>8 DEF Clearing, RemoveHoliday, Written
<1>9. CASE Editing
  <2>1. ASSUME NEW c \in Editors, HolidayInsert(c) \/ HolidayUpdate(c)
        PROVE  FreshInv'
    <3>1. quiet' = FALSE \/ UNCHANGED <<holidays, quiet>>
      BY <2>1 DEF HolidayInsert, HolidayUpdate, Written, Refused
    <3>2. UNCHANGED <<cache, fetch>>
      BY <2>1 DEF HolidayInsert, HolidayUpdate
    <3> QED
      BY <1>2, <1>3, <3>1, <3>2
  <2>2. ASSUME NEW c \in Editors,
               \/ \E day \in NewDays : CreateHoliday(c, day)
               \/ \E id \in DOMAIN holidays, patch \in DayPatches : UpdateHoliday(c, id, patch)
        PROVE  FreshInv'
    BY <1>2, <2>2 DEF CreateHoliday, UpdateHoliday
  <2> QED
    BY <1>9, <2>1, <2>2 DEF Editing
<1>10. CASE Beside
  BY <1>2, <1>10 DEF Beside, HolidayTick, holidayVars
<1>11. ASSUME NEW v \in Viewers, ViewReport(v), UNCHANGED <<holidays, fetch, quiet>>
       PROVE  FreshInv'
  <2>1. PICK value : cache' = Filled("view", ViewUrl(viewing[v].id), value, now)
    BY <1>11 DEF ViewReport
  <2>2. \A u \in DOMAIN cache' \cap Urls : u \in DOMAIN cache /\ cache'[u] = cache[u]
    <3> DEFINE url == ViewUrl(viewing[v].id)
    <3>1. url \notin Urls
      BY ViewsApart
    <3> HIDE DEF url
    <3>2. \A u \in DOMAIN cache' : (u \in DOMAIN cache /\ cache'[u] = cache[u]) \/ u = url
      <4>1. cache' = Filled("view", url, value, now)
        BY <2>1 DEF url
      <4> QED
        BY <4>1, FilledCache, Zenon
    <3> QED
      BY <3>1, <3>2
  <2> QED
    BY <1>1, <1>11, <2>2 DEF FreshInv, FreshAfterQuietChange
<1>12. CASE UNCHANGED <<holidays, cache, fetch, quiet>>
  BY <1>2, <1>12
<1> QED
  BY <1>7, <1>8, <1>9, <1>10, <1>11, <1>12 DEF DeskNext, deskVars, holidayVars, HolidayTick

(* A change that overlapped nothing leaves no old list in the cache, under *)
(* any key, until the next change.                                         *)
THEOREM ListsFresh == DeskSpec => []FreshAfterQuietChange
<1>1. DeskInit => FetchesInv /\ FreshInv
  BY ListsStart DEF DeskInit
<1>2. FetchesInv /\ FreshInv /\ [DeskNext]_deskVars => (FetchesInv /\ FreshInv)'
  BY FetchesStep, FreshStep
<1>3. FreshInv => FreshAfterQuietChange
  BY DEF FreshInv
<1> QED
  BY <1>1, <1>2, <1>3, PTL DEF DeskSpec

-----------------------------------------------------------------------------
(* The age of what is answered.                                            *)

(* A request takes no longer than Flight and read its list on the way; a   *)
(* cached answer is not used later than Ttl after it was filled in.        *)
AgeInv ==
  /\ now \in Nat /\ oldest \in Int /\ ListAgeBounded
  /\ \A f \in Fetches : fetch[f].pc # "idle" =>
       fetch[f].since \in Nat /\ fetch[f].since <= now /\ now - fetch[f].since <= Flight
  /\ \A f \in Fetches : fetch[f].pc = "fill" =>
       fetch[f].asOf \in Nat /\ fetch[f].since <= fetch[f].asOf /\ fetch[f].asOf <= now
  /\ \A u \in DOMAIN cache :
       /\ cache[u].asOf \in Nat /\ cache[u].till \in Nat
       /\ cache[u].till <= cache[u].asOf + Flight + Ttl

(* Nothing is cached and nothing is on its way.                           *)
LEMMA AgesStart == HolidayInit => AgeInv
<1> SUFFICES ASSUME HolidayInit
             PROVE  AgeInv
  OBVIOUS
<1>1. \A f \in Fetches : fetch[f].pc = "idle"
  BY NoFetchShaped DEF HolidayInit
<1>2. DOMAIN cache = {} /\ now = 0 /\ oldest = 0
  BY DEF HolidayInit
<1> QED
  BY <1>1, <1>2, HolidaysAssumption DEF AgeInv, ListAgeBounded

(* Time passes only while every request is younger than Flight.           *)
LEMMA AgesStep == FetchesInv /\ AgeInv /\ [DeskNext]_deskVars => AgeInv'
<1> SUFFICES ASSUME FetchesInv, AgeInv, [DeskNext]_deskVars
             PROVE  AgeInv'
  OBVIOUS
<1> USE HolidaysAssumption
<1>1. ASSUME UNCHANGED <<now, oldest, fetch>>, DOMAIN cache' \subseteq DOMAIN cache,
             \A u \in DOMAIN cache' : cache'[u] = cache[u]
      PROVE  AgeInv'
  BY <1>1 DEF AgeInv, ListAgeBounded
<1>2. ASSUME UNCHANGED <<now, cache>>, oldest' \in Int, oldest' <= Ttl + Flight,
             NEW f \in Fetches, fetch' = [fetch EXCEPT ![f] = fetch'[f]],
             fetch'[f].pc # "idle" => /\ fetch'[f].since \in Nat /\ fetch'[f].since <= now
                                      /\ now - fetch'[f].since <= Flight,
             fetch'[f].pc = "fill" => /\ fetch'[f].asOf \in Nat
                                      /\ fetch'[f].since <= fetch'[f].asOf
                                      /\ fetch'[f].asOf <= now
      PROVE  AgeInv'
  <2>1. \A g \in Fetches : g # f => fetch'[g] = fetch[g]
    BY <1>2 DEF FetchesInv
  <2> QED
    BY <1>2, <2>1 DEF AgeInv, ListAgeBounded
<1>3. ASSUME NEW f \in Fetches, NEW url \in Urls, ListArrive(f, url)
      PROVE  AgeInv'
  <2>1. CASE Hit("list", url) /\ Older(now - cache[url].asOf) /\ UNCHANGED fetch
    <3>1. /\ url \in DOMAIN cache /\ now < cache[url].till
      BY <2>1 DEF Hit
    <3>2. /\ now - cache[url].asOf \in Int /\ now - cache[url].asOf <= Ttl + Flight
      BY <3>1 DEF AgeInv
    <3>3. oldest' \in Int /\ oldest' <= Ttl + Flight
      BY <2>1, <3>2 DEF Older, AgeInv, ListAgeBounded
    <3> QED
      BY <1>3, <2>1, <3>3 DEF ListArrive, AgeInv, ListAgeBounded
  <2>2. CASE ~UNCHANGED fetch /\ UNCHANGED oldest
    <3>1. /\ fetch' = [fetch EXCEPT ![f] = fetch'[f]]
          /\ fetch'[f] = [pc |-> "query", url |-> url, since |-> now, list |-> {}, asOf |-> 0]
      BY <1>3, <2>2, FetchSteps
    <3>2. fetch'[f].pc = "query" /\ fetch'[f].since = now
      BY <3>1
    <3>3. UNCHANGED <<now, cache>>
      BY <1>3 DEF ListArrive
    <3> QED
      BY <1>2, <2>2, <3>1, <3>2, <3>3 DEF AgeInv, ListAgeBounded
  <2>3. CASE UNCHANGED <<fetch, oldest>>
    BY <1>1, <1>3, <2>3 DEF ListArrive
  <2> QED
    BY <1>3, <2>1, <2>2, <2>3 DEF ListArrive
<1>4. ASSUME NEW f \in Fetches, ListQuery(f)
      PROVE  AgeInv'
  <2>1. /\ fetch' = [fetch EXCEPT ![f] = fetch'[f]]
        /\ fetch'[f] = [pc |-> "fill", url |-> fetch[f].url, since |-> fetch[f].since,
                        list |-> Listed(fetch[f].url), asOf |-> now]
    BY <1>4, FetchSteps
  <2>2. fetch'[f].since = fetch[f].since /\ fetch'[f].asOf = now
    BY <2>1
  <2>3. UNCHANGED <<now, cache, oldest>> /\ fetch[f].pc = "query"
    BY <1>4 DEF ListQuery
  <2> QED
    BY <1>2, <2>1, <2>2, <2>3 DEF AgeInv, ListAgeBounded
<1>5. ASSUME NEW f \in Fetches, ListFill(f)
      PROVE  AgeInv'
  <2> DEFINE age == now - fetch[f].asOf
  <2>1. /\ fetch[f].pc = "fill" /\ UNCHANGED now /\ Older(age)
        /\ cache' = Filled("list", fetch[f].url, fetch[f].list, fetch[f].asOf)
        /\ fetch' = [fetch EXCEPT ![f] = NoFetch]
    BY <1>5 DEF ListFill
  <2>2. fetch[f].asOf \in Nat /\ age \in Int /\ age <= Flight
    BY <2>1 DEF AgeInv
  <2>3. oldest' \in Int /\ oldest' <= Ttl + Flight
    BY <2>1, <2>2 DEF Older, AgeInv, ListAgeBounded
  <2>4. \A g \in Fetches : fetch'[g] \in {fetch[g], NoFetch}
    BY <2>1 DEF FetchesInv
  <2>5. \A u \in DOMAIN cache' :
          \/ u \in DOMAIN cache /\ cache'[u] = cache[u]
          \/ /\ u = fetch[f].url
             /\ cache'[u] = [value |-> fetch[f].list, asOf |-> fetch[f].asOf,
                             till |-> now + Ttl]
    BY <2>1, FilledCache
  <2>6. \A u \in DOMAIN cache' :
          \/ u \in DOMAIN cache /\ cache'[u] = cache[u]
          \/ cache'[u].asOf = fetch[f].asOf /\ cache'[u].till = now + Ttl
    BY <2>5
  <2>7. now + Ttl \in Nat /\ now + Ttl <= fetch[f].asOf + Flight + Ttl
    BY <2>2 DEF AgeInv
  <2>8. \A u \in DOMAIN cache' :
          /\ cache'[u].asOf \in Nat /\ cache'[u].till \in Nat
          /\ cache'[u].till <= cache'[u].asOf + Flight + Ttl
    BY <2>2, <2>6, <2>7 DEF AgeInv
  <2> QED
    BY <2>1, <2>3, <2>4, <2>8, NoFetchShaped DEF AgeInv, ListAgeBounded
<1>6. CASE HolidayTick
  <2>1. /\ now' = now + 1 /\ UNCHANGED <<cache, fetch, oldest>>
        /\ \A f \in Fetches : fetch[f].pc # "idle" => now - fetch[f].since < Flight
    BY <1>6, NoFetchShaped DEF HolidayTick
  <2> QED
    BY <2>1 DEF AgeInv, ListAgeBounded
<1>7. CASE Listing
  <2>1. ASSUME NEW url \in DOMAIN cache, Evict(url)
        PROVE  AgeInv'
    BY <1>1, <2>1 DEF Evict
  <2>2. CASE ClearCache
    BY <1>1, <2>2 DEF ClearCache
  <2> QED
    BY <1>3, <1>4, <1>5, <1>7, <2>1, <2>2 DEF Listing
<1>8. CASE Clearing \/ Editing
  <2>1. /\ UNCHANGED <<now, oldest, fetch>> /\ DOMAIN cache' \subseteq DOMAIN cache
        /\ \A u \in DOMAIN cache' : cache'[u] = cache[u]
    BY <1>8 DEF Clearing, Editing, ClearListCache, RemoveHoliday, HolidayInsert,
       HolidayUpdate, CreateHoliday, UpdateHoliday
  <2> QED
    BY <1>1, <2>1
<1>9. CASE Beside
  BY <1>1, <1>6, <1>9 DEF Beside, holidayVars
<1>10. ASSUME NEW v \in Viewers, ViewReport(v), UNCHANGED <<fetch, now, oldest>>
       PROVE  AgeInv'
  <2>1. PICK value : cache' = Filled("view", ViewUrl(viewing[v].id), value, now)
    BY <1>10 DEF ViewReport
  <2> DEFINE url == ViewUrl(viewing[v].id)
  <2>2. \A u \in DOMAIN cache' :
          \/ u \in DOMAIN cache /\ cache'[u] = cache[u]
          \/ u = url /\ cache'[u] = [value |-> value, asOf |-> now, till |-> now + Ttl]
    BY <2>1, FilledCache
  <2> HIDE DEF url
  <2>3. \A u \in DOMAIN cache' :
          \/ u \in DOMAIN cache /\ cache'[u] = cache[u]
          \/ cache'[u].asOf = now /\ cache'[u].till = now + Ttl
    BY <2>2
  <2>4. now \in Nat /\ now + Ttl \in Nat /\ now + Ttl <= now + Flight + Ttl
    BY DEF AgeInv
  <2>5. \A u \in DOMAIN cache' :
          /\ cache'[u].asOf \in Nat /\ cache'[u].till \in Nat
          /\ cache'[u].till <= cache'[u].asOf + Flight + Ttl
    BY <2>3, <2>4 DEF AgeInv
  <2> QED
    BY <1>10, <2>5 DEF AgeInv, ListAgeBounded
<1>11. CASE UNCHANGED <<now, oldest, cache, fetch>>
  BY <1>1, <1>11
<1> QED
  BY <1>6, <1>7, <1>8, <1>9, <1>10, <1>11 DEF DeskNext, deskVars, holidayVars

(* Though a list may be filled in after its change cleared the cache,      *)
(* nobody is answered one older than the life of a cached answer and the   *)
(* request that filled it.                                                 *)
THEOREM ListsNotOlder == DeskSpec => []ListAgeBounded
<1>1. DeskInit => FetchesInv /\ AgeInv
  BY ListsStart, AgesStart DEF DeskInit
<1>2. FetchesInv /\ AgeInv /\ [DeskNext]_deskVars => (FetchesInv /\ AgeInv)'
  BY FetchesStep, AgesStep
<1>3. AgeInv => ListAgeBounded
  BY DEF AgeInv
<1> QED
  BY <1>1, <1>2, <1>3, PTL DEF DeskSpec

-----------------------------------------------------------------------------
(* Share links.                                                            *)

(* A request for a report is a record with these fields.                   *)
ViewShaped(q) ==
  q = [pc |-> q.pc, id |-> q.id, live |-> q.live, share |-> q.share,
       scope |-> q.scope, schedule |-> q.schedule]

(* A link that is valid now was valid when the request for it came: ids    *)
(* are not given out twice, and nothing brings an expired link back.       *)
ViewInv ==
  /\ sharesMade \in Nat /\ DOMAIN shares \subseteq 1 .. sharesMade
  /\ \A s \in DOMAIN shares : shares[s].expiresAt \in Nat \cup {None}
  /\ DOMAIN making = Makers
  /\ \A r \in Makers : making[r].pc = "insert" =>
       making[r].share.expiresAt \in Nat \cup {None}
  /\ DOMAIN viewing = Viewers
  /\ \A v \in Viewers :
       /\ ViewShaped(viewing[v])
       /\ viewing[v].pc = "find" => /\ viewing[v].id \in 1 .. sharesMade
                                    /\ Valid(viewing[v].id) => viewing[v].live = TRUE
       /\ viewing[v].pc \in {"populate", "report"} => viewing[v].live = TRUE
  /\ answer.live = TRUE

(* An idle slot of a view is a record of that shape.                      *)
LEMMA NoViewShaped == ViewShaped(NoView) /\ NoView.pc = "idle"
  BY DEF ViewShaped, NoView

(* No links and no views at the start.                                    *)
LEMMA ViewsStart == ShareInit => ViewInv
<1> SUFFICES ASSUME ShareInit
             PROVE  ViewInv
  OBVIOUS
<1>1. \A v \in Viewers : ViewShaped(viewing[v]) /\ viewing[v].pc = "idle"
  BY NoViewShaped DEF ShareInit
<1>2. \A r \in Makers : making[r].pc = "idle"
  BY DEF ShareInit, NoMaking
<1>3. answer.live = TRUE
  BY DEF ShareInit, NoAnswer
<1> QED
  BY <1>1, <1>2, <1>3 DEF ShareInit, ViewInv

(* Steps that only let links go or time pass.                              *)
LEMMA LinksGo ==
  ASSUME ViewInv, now \in Nat, now' \in Nat, now' >= now,
         sharesMade' \in {sharesMade, sharesMade + 1},
         \A s \in DOMAIN shares' :
           \/ s \in DOMAIN shares /\ shares'[s] = shares[s]
           \/ /\ s = sharesMade + 1 /\ sharesMade' = sharesMade + 1
              /\ shares'[s].expiresAt \in Nat \cup {None},
         DOMAIN making' = Makers,
         \A r \in Makers : making'[r].pc = "insert" =>
           making'[r].share.expiresAt \in Nat \cup {None},
         UNCHANGED <<viewing, answer>>
  PROVE  ViewInv'
<1>1. None \notin Nat
  BY NoneAssumption
<1>2. /\ sharesMade' \in Nat /\ DOMAIN shares' \subseteq 1 .. sharesMade'
      /\ \A s \in DOMAIN shares' : shares'[s].expiresAt \in Nat \cup {None}
  BY DEF ViewInv
<1>3. \A s \in 1 .. sharesMade : Valid(s)' => Valid(s)
  BY <1>1 DEF ViewInv, Valid, Expired
<1>4. \A v \in Viewers : viewing[v].pc = "find" =>
        /\ viewing[v].id \in 1 .. sharesMade'
        /\ Valid(viewing[v].id)' => viewing[v].live = TRUE
  BY <1>3 DEF ViewInv
<1> QED
  BY <1>2, <1>4 DEF ViewInv

(* A request that goes on to another state.                                *)
LEMMA ViewGoes ==
  ASSUME ViewInv, NEW v \in Viewers, NEW q, ViewShaped(q),
         viewing' = [viewing EXCEPT ![v] = q],
         UNCHANGED <<shares, sharesMade, making, now>>,
         q.pc = "find" => q.id \in 1 .. sharesMade /\ (Valid(q.id) => q.live = TRUE),
         q.pc \in {"populate", "report"} => q.live = TRUE,
         answer'.live = TRUE
  PROVE  ViewInv'
<1>1. DOMAIN viewing' = Viewers /\ \A w \in Viewers : viewing'[w] \in {viewing[w], q}
  BY DEF ViewInv
<1>2. \A w \in Viewers :
        /\ ViewShaped(viewing'[w])
        /\ viewing'[w].pc = "find" => /\ viewing'[w].id \in 1 .. sharesMade
                                      /\ Valid(viewing'[w].id) => viewing'[w].live = TRUE
        /\ viewing'[w].pc \in {"populate", "report"} => viewing'[w].live = TRUE
  BY <1>1 DEF ViewInv
<1>3. \A s : Valid(s)' = Valid(s)
  BY DEF Valid, Expired
<1> QED
  BY <1>1, <1>2, <1>3 DEF ViewInv

(* Links that are made and revoked.                                        *)
LEMMA MakingKeeps ==
  ASSUME ViewInv, now \in Nat, UNCHANGED now, NEW r \in Makers,
         \/ ShareInsert(r) \/ ShareDelete(r)
         \/ \E s \in DOMAIN shares : RevokeShareLink(r, s)
         \/ \E a \in people, org \in DOMAIN orgs \cup {None}, expiry \in Expiries :
              CreateShareLink(r, a, org, expiry)
  PROVE  ViewInv'
<1>1. CASE ShareInsert(r)
  <2> DEFINE s == sharesMade + 1
  <2>1. /\ making[r].pc = "insert" /\ sharesMade' = s
        /\ DOMAIN shares' = DOMAIN shares \cup {s}
        /\ \A t \in DOMAIN shares' : shares'[t] = IF t = s THEN making[r].share ELSE shares[t]
        /\ making' = [making EXCEPT ![r] = NoMaking]
        /\ UNCHANGED <<viewing, answer>>
    BY <1>1 DEF ShareInsert
  <2>2. DOMAIN making' = Makers /\ \A p \in Makers : making'[p] \in {making[p], NoMaking}
    BY <2>1 DEF ViewInv
  <2>3. NoMaking.pc = "idle"
    BY DEF NoMaking
  <2>4. \A p \in Makers : making'[p].pc = "insert" =>
          making'[p].share.expiresAt \in Nat \cup {None}
    BY <2>2, <2>3 DEF ViewInv
  <2>5. sharesMade \in Nat /\ making[r].share.expiresAt \in Nat \cup {None}
    BY <2>1 DEF ViewInv
  <2>6. \A t \in DOMAIN shares' :
          \/ t \in DOMAIN shares /\ shares'[t] = shares[t]
          \/ /\ t = sharesMade + 1 /\ sharesMade' = sharesMade + 1
             /\ shares'[t].expiresAt \in Nat \cup {None}
    BY <2>1, <2>5
  <2> QED
    BY <2>1, <2>2, <2>4, <2>6, LinksGo
<1>2. CASE ShareDelete(r)
  <2>1. /\ DOMAIN shares' \subseteq DOMAIN shares
        /\ \A t \in DOMAIN shares' : shares'[t] = shares[t]
        /\ making' = [making EXCEPT ![r] = NoMaking]
        /\ UNCHANGED <<sharesMade, viewing, answer>>
    BY <1>2 DEF ShareDelete
  <2>2. DOMAIN making' = Makers /\ \A p \in Makers : making'[p] \in {making[p], NoMaking}
    BY <2>1 DEF ViewInv
  <2>3. NoMaking.pc = "idle"
    BY DEF NoMaking
  <2>4. \A p \in Makers : making'[p].pc = "insert" =>
          making'[p].share.expiresAt \in Nat \cup {None}
    BY <2>2, <2>3 DEF ViewInv
  <2> QED
    BY <2>1, <2>2, <2>4, LinksGo
<1>3. ASSUME NEW s \in DOMAIN shares, RevokeShareLink(r, s)
      PROVE  ViewInv'
  <2> DEFINE m == [NoMaking EXCEPT !.pc = "delete", !.id = s]
  <2>1. m.pc = "delete"
    BY DEF NoMaking
  <2>2. /\ making' = [making EXCEPT ![r] = m]
        /\ UNCHANGED <<shares, sharesMade, viewing, answer>>
    BY <1>3 DEF RevokeShareLink
  <2> HIDE DEF m
  <2>3. DOMAIN making' = Makers /\ \A p \in Makers : making'[p] \in {making[p], m}
    BY <2>2 DEF ViewInv
  <2>4. \A p \in Makers : making'[p].pc = "insert" =>
          making'[p].share.expiresAt \in Nat \cup {None}
    BY <2>1, <2>3 DEF ViewInv
  <2> QED
    BY <2>2, <2>3, <2>4, LinksGo
<1>4. ASSUME NEW a \in people, NEW org \in DOMAIN orgs \cup {None}, NEW expiry \in Expiries,
             CreateShareLink(r, a, org, expiry)
      PROVE  ViewInv'
  <2> DEFINE share == [account |-> a, org |-> org, expiresAt |-> expiry]
             m == [pc |-> "insert", id |-> 0, share |-> share]
  <2>1. m.share = share /\ share.expiresAt = expiry
    OBVIOUS
  <2>2. expiry \in Nat \cup {None}
    BY ShareAssumption
  <2>3. /\ making' = [making EXCEPT ![r] = m]
        /\ UNCHANGED <<shares, sharesMade, viewing, answer>>
    BY <1>4 DEF CreateShareLink
  <2> HIDE DEF m, share
  <2>4. DOMAIN making' = Makers /\ \A p \in Makers : making'[p] \in {making[p], m}
    BY <2>3 DEF ViewInv
  <2>5. \A p \in Makers : making'[p].pc = "insert" =>
          making'[p].share.expiresAt \in Nat \cup {None}
    BY <2>1, <2>2, <2>4 DEF ViewInv
  <2> QED
    BY <2>3, <2>4, <2>5, LinksGo
<1> QED
  BY <1>1, <1>2, <1>3, <1>4

(* Requests for a report, none of them answered from the cache.            *)
LEMMA ViewingKeeps ==
  ASSUME ViewInv, "view" \in SkipCached, NEW v \in Viewers, UNCHANGED now,
         \/ ViewFind(v) \/ ViewPopulate(v) \/ ViewReport(v)
         \/ \E s \in 1 .. sharesMade : ViewArrive(v, s)
  PROVE  ViewInv'
<1> DEFINE q == viewing[v]
<1>1. /\ q = [pc |-> q.pc, id |-> q.id, live |-> q.live, share |-> q.share,
              scope |-> q.scope, schedule |-> q.schedule]
      /\ answer.live = TRUE
  BY DEF ViewInv, ViewShaped
<1>2. ASSUME NEW s \in 1 .. sharesMade, ViewArrive(v, s)
      PROVE  ViewInv'
  <2>1. ~Hit("view", ViewUrl(s))
    BY DEF Hit, TrackBy
  <2>2. /\ viewing' = [viewing EXCEPT ![v] =
             [NoView EXCEPT !.pc = "find", !.id = s, !.live = Valid(s)]]
        /\ UNCHANGED <<shares, sharesMade, making, answer>>
    BY <1>2, <2>1 DEF ViewArrive
  <2>3. viewing'[v] = [pc |-> "find", id |-> s, live |-> Valid(s), share |-> <<>>,
                       scope |-> None, schedule |-> DefaultSchedule]
    BY <2>2 DEF ViewInv, NoView
  <2>4. /\ ViewShaped(viewing'[v]) /\ viewing'[v].pc = "find" /\ viewing'[v].id = s
        /\ Valid(s) => viewing'[v].live = TRUE
    BY <2>3 DEF ViewShaped
  <2>5. viewing' = [viewing EXCEPT ![v] = viewing'[v]]
    BY <2>2 DEF ViewInv
  <2> QED
    BY <1>1, <2>2, <2>4, <2>5, ViewGoes
<1>3. CASE ViewFind(v)
  <2>1. CASE Valid(q.id)
    <3>1. /\ viewing' = [viewing EXCEPT ![v] = [q EXCEPT !.pc = "populate",
                                                        !.share = shares[q.id]]]
          /\ UNCHANGED <<shares, sharesMade, making, answer>>
      BY <1>3, <2>1 DEF ViewFind
    <3>2. viewing'[v] = [pc |-> "populate", id |-> q.id, live |-> q.live,
                         share |-> shares[q.id], scope |-> q.scope, schedule |-> q.schedule]
      BY <1>1, <3>1 DEF ViewInv
    <3>3. ViewShaped(viewing'[v]) /\ viewing'[v].pc = "populate" /\ viewing'[v].live = q.live
      BY <3>2 DEF ViewShaped
    <3>4. q.live = TRUE
      BY <1>3, <2>1 DEF ViewFind, ViewInv
    <3>5. viewing' = [viewing EXCEPT ![v] = viewing'[v]]
      BY <3>1 DEF ViewInv
    <3> QED
      BY <1>1, <3>1, <3>3, <3>4, <3>5, ViewGoes
  <2>2. CASE ~Valid(q.id)
    BY <1>1, <1>3, <2>2, NoViewShaped, ViewGoes DEF ViewFind
  <2> QED
    BY <2>1, <2>2
<1>4. CASE ViewPopulate(v)
  <2>1. q.live = TRUE /\ UNCHANGED <<shares, sharesMade, making, answer>>
    BY <1>4 DEF ViewPopulate, ViewInv
  <2>2. ASSUME NEW n, n.pc = "report", n.live = q.live, ViewShaped(n),
               viewing' = [viewing EXCEPT ![v] = n]
        PROVE  ViewInv'
    BY <1>1, <2>1, <2>2, ViewGoes
  <2>3. CASE viewing' = [viewing EXCEPT ![v] = NoView]
    BY <1>1, <2>1, <2>3, NoViewShaped, ViewGoes
  <2>4. ASSUME NEW scope, NEW schedule,
               \/ viewing' = [viewing EXCEPT ![v].pc = "report", ![v].scope = scope,
                                             ![v].schedule = schedule]
               \/ viewing' = [viewing EXCEPT ![v].pc = "report", ![v].schedule = schedule]
        PROVE  ViewInv'
    <3>1. \/ viewing'[v] = [pc |-> "report", id |-> q.id, live |-> q.live,
                            share |-> q.share, scope |-> scope, schedule |-> schedule]
          \/ viewing'[v] = [pc |-> "report", id |-> q.id, live |-> q.live,
                            share |-> q.share, scope |-> q.scope, schedule |-> schedule]
      BY <1>1, <2>4 DEF ViewInv
    <3>2. /\ ViewShaped(viewing'[v]) /\ viewing'[v].pc = "report"
          /\ viewing'[v].live = q.live
      BY <3>1 DEF ViewShaped
    <3>3. viewing' = [viewing EXCEPT ![v] = viewing'[v]]
      BY <2>4 DEF ViewInv
    <3> QED
      BY <2>2, <3>2, <3>3
  <2> QED
    BY <1>4, <2>3, <2>4 DEF ViewPopulate
<1>5. CASE ViewReport(v)
  <2>1. q.live = TRUE /\ UNCHANGED <<shares, sharesMade, making>>
    BY <1>5 DEF ViewReport, ViewInv
  <2>2. answer'.live = q.live
    BY <1>5 DEF ViewReport
  <2>3. viewing' = [viewing EXCEPT ![v] = NoView]
    BY <1>5 DEF ViewReport
  <2> QED
    BY <2>1, <2>2, <2>3, NoViewShaped, ViewGoes
<1> QED
  BY <1>2, <1>3, <1>4, <1>5

(* Whichever part of the system a behaviour follows.                       *)
LEMMA ViewsStep ==
  ASSUME "view" \in SkipCached, ViewInv, AgeInv, [DeskNext]_deskVars
  PROVE  ViewInv'
<1>1. now \in Nat
  BY DEF AgeInv
<1>2. ASSUME UNCHANGED shareVars, now' \in {now, now + 1}
      PROVE  ViewInv'
  <2>1. /\ UNCHANGED <<shares, sharesMade, making, viewing, answer>>
        /\ now' \in Nat /\ now' >= now
    BY <1>1, <1>2 DEF shareVars
  <2>2. DOMAIN making' = Makers /\ \A r \in Makers : making'[r].pc = "insert" =>
          making'[r].share.expiresAt \in Nat \cup {None}
    BY <2>1 DEF ViewInv
  <2> QED
    BY <1>1, <2>1, <2>2, LinksGo
<1>3. CASE UNCHANGED <<shareVars, holidayVars>>
  BY <1>2, <1>3 DEF holidayVars
<1>4. CASE HolidayTick /\ UNCHANGED shareVars
  BY <1>2, <1>4 DEF HolidayTick
<1>5. CASE (Listing \/ Clearing \/ Editing) /\ UNCHANGED shareVars
  BY <1>2, <1>5 DEF Listing, Clearing, Editing, ListArrive, ListQuery, ListFill, Evict,
     ClearCache, ClearListCache, RemoveHoliday, HolidayInsert, HolidayUpdate,
     CreateHoliday, UpdateHoliday
<1>6. CASE ShareStep /\ UNCHANGED holidayVars
  BY <1>1, <1>6, MakingKeeps, ViewingKeeps DEF ShareStep, holidayVars
<1>7. ASSUME NEW v \in Viewers, ViewReport(v), UNCHANGED now
      PROVE  ViewInv'
  BY <1>7, ViewingKeeps
<1>8. CASE Beside
  BY <1>3, <1>4, <1>8 DEF Beside
<1> QED
  BY <1>3, <1>4, <1>5, <1>6, <1>7, <1>8 DEF DeskNext, deskVars

(* As long as the route of the links keeps out of the cache, whoever comes *)
(* after a link was revoked or has expired is answered no report, whatever *)
(* requests of others are on their way.                                    *)
THEOREM RevokedLinksShowNothing ==
  ASSUME "view" \in SkipCached
  PROVE  DeskSpec => []RevokedLinkShowsNothing
<1>1. DeskInit => FetchesInv /\ AgeInv /\ ViewInv
  BY ListsStart, AgesStart, ViewsStart DEF DeskInit
<1>2. FetchesInv /\ AgeInv /\ ViewInv /\ [DeskNext]_deskVars
        => (FetchesInv /\ AgeInv /\ ViewInv)'
  BY FetchesStep, AgesStep, ViewsStep
<1>3. ViewInv => RevokedLinkShowsNothing
  BY DEF ViewInv, RevokedLinkShowsNothing
<1> QED
  BY <1>1, <1>2, <1>3, PTL DEF DeskSpec

-----------------------------------------------------------------------------
(* Reports.                                                                *)

(* A date holds the entries on it, if each date has one.                   *)
LEMMA OnePerDate ==
  ASSUME NEW f, NEW D, IsFiniteSet(D), NEW H \in SUBSET DOMAIN f,
         \A h \in H : f[h].date \in D,
         \A d \in D : \E h \in H : f[h].date = d,
         \A g, h \in H : f[g].date = f[h].date => g = h
  PROVE  IsFiniteSet(H) /\ Cardinality(H) = Cardinality(D)
<1> DEFINE e == [h \in H |-> f[h].date]
<1>1. e \in [H -> D] /\ \A h \in H : e[h] = f[h].date
  OBVIOUS
<1> HIDE DEF e
<1>2. e \in Injection(H, D)
  BY <1>1 DEF Injection, IsInjective
<1>3. e \in Surjection(H, D)
  BY <1>1 DEF Surjection
<1> QED
  BY <1>2, <1>3, FS_Injection

(* Days off leave the weekdays, and make-up days join them.                *)
LEMMA DaysFollow == DaysInv => StandardDaysFollowHolidays
<1> SUFFICES ASSUME DaysInv
             PROVE  StandardDaysFollowHolidays
  OBVIOUS
<1> DEFINE weekdays == {d \in Month : ~IsWeekend(d)}
           off == {h \in DOMAIN holidays :
                     holidays[h].type = "Off" /\ holidays[h].date \in weekdays}
           makeUp == {h \in DOMAIN holidays : holidays[h].type = "Workday"
                        /\ holidays[h].date \in Month \ weekdays}
           free == weekdays \cap DatesOf(HolidayDocs, "Off")
           extra == (Month \ weekdays) \cap DatesOf(HolidayDocs, "Workday")
           days == {d \in Month : IF IsWeekend(d) THEN d \in DatesOf(HolidayDocs, "Workday")
                                  ELSE d \notin DatesOf(HolidayDocs, "Off")}
<1>1. \A type, d : d \in DatesOf(HolidayDocs, type) <=>
        \E h \in DOMAIN holidays : holidays[h].type = type /\ holidays[h].date = d
  BY DEF DatesOf, HolidayDocs
<1>2. \A g, h \in DOMAIN holidays : holidays[g].date = holidays[h].date => g = h
  BY DEF DaysInv, OneHolidayPerDate
<1>3. /\ IsFiniteSet(Month) /\ IsFiniteSet(weekdays)
      /\ IsFiniteSet(free) /\ IsFiniteSet(extra)
  BY ShareAssumption, FS_Subset
<1>4. Cardinality(off) = Cardinality(free)
  <2>1. \A d \in free : \E h \in off : holidays[h].date = d
    BY <1>1
  <2>2. \A h \in off : holidays[h].date \in free
    BY <1>1
  <2> QED
    BY <1>2, <1>3, <2>1, <2>2, OnePerDate
<1>5. Cardinality(makeUp) = Cardinality(extra)
  <2>1. \A d \in extra : \E h \in makeUp : holidays[h].date = d
    BY <1>1
  <2>2. \A h \in makeUp : holidays[h].date \in extra
    BY <1>1
  <2> QED
    BY <1>2, <1>3, <2>1, <2>2, OnePerDate
<1>6. days = (weekdays \ free) \cup extra /\ (weekdays \ free) \cap extra = {}
      /\ weekdays \cap free = free
  OBVIOUS
<1> HIDE DEF weekdays, off, makeUp, free, extra, days
<1>7. /\ IsFiniteSet(weekdays \ free)
      /\ Cardinality(weekdays \ free) = Cardinality(weekdays) - Cardinality(free)
  BY <1>3, <1>6, FS_Difference
<1>8. Cardinality(days) = Cardinality(weekdays \ free) + Cardinality(extra)
  <2>1. Cardinality(days) = Cardinality(weekdays \ free) + Cardinality(extra)
                              - Cardinality((weekdays \ free) \cap extra)
    BY <1>3, <1>6, <1>7, FS_Union
  <2>2. /\ Cardinality((weekdays \ free) \cap extra) = 0
        /\ Cardinality(weekdays \ free) \in Nat /\ Cardinality(extra) \in Nat
    BY <1>3, <1>6, <1>7, FS_EmptySet, FS_CardinalityType
  <2> QED
    BY <2>1, <2>2
<1>9. Cardinality(days) = Cardinality(weekdays) - Cardinality(off) + Cardinality(makeUp)
  BY <1>4, <1>5, <1>7, <1>8
<1> QED
  BY <1>9 DEF StandardDaysFollowHolidays, StandardWorkingDays, weekdays, off, makeUp, days

(* The index that keeps dates apart makes the two sets of dates the        *)
(* reports look days up in count every holiday once.                       *)
THEOREM HolidaysCountOnce == DeskSpec => []StandardDaysFollowHolidays
<1>1. DeskInit => DaysInv
  BY DaysStart DEF DeskInit
<1>2. DaysInv => StandardDaysFollowHolidays
  BY DaysFollow
<1> QED
  BY <1>1, <1>2, DaysStep, PTL DEF DeskSpec

-----------------------------------------------------------------------------
(* The shape of links, and of what is answered for them.                   *)

LinksInv ==
  /\ sharesMade \in 0 .. MaxShares /\ DOMAIN shares \subseteq 1 .. sharesMade
  /\ \A s \in DOMAIN shares : shares[s] \in Share
  /\ DOMAIN making = Makers
  /\ \A r \in Makers :
       /\ making[r].pc \in {"idle", "insert", "delete"}
       /\ making[r].pc = "insert" => making[r].share \in Share

(* It names a link that was given out.                                     *)
Names(q) == "id" \in DOMAIN q /\ q.id \in 0 .. sharesMade

(* So does every report that is on its way, cached or answered; list       *)
(* requests fill other keys.                                               *)
NamesInv ==
  /\ DOMAIN viewing = Viewers /\ \A v \in Viewers : Names(viewing[v])
  /\ Names(answer)
  /\ \A s : ViewUrl(s) \in DOMAIN cache => Names(cache[ViewUrl(s)].value)
  /\ \A f \in Fetches : fetch[f].url \in Urls

(* No links, no requests and an empty cache.                               *)
LEMMA LinksStart == ShareInit /\ HolidayInit => LinksInv /\ NamesInv
<1> SUFFICES ASSUME ShareInit, HolidayInit
             PROVE  LinksInv /\ NamesInv
  OBVIOUS
<1>1. LinksInv
  BY ShareAssumption DEF ShareInit, LinksInv, NoMaking
<1>2. sharesMade = 0 /\ DOMAIN cache = {}
  BY DEF ShareInit, HolidayInit
<1>3. \A v \in Viewers : Names(viewing[v])
  BY <1>2 DEF ShareInit, NoView, Names
<1>4. Names(answer)
  BY <1>2 DEF ShareInit, NoAnswer, Names
<1>5. \A f \in Fetches : fetch[f].url \in Urls
  BY DEF HolidayInit, NoFetch, Urls
<1> QED
  BY <1>1, <1>2, <1>3, <1>4, <1>5 DEF NamesInv, ShareInit

(* Organizations and accounts a link is made for are there at that time.   *)
LEMMA LinksKeep ==
  ASSUME LinksInv, OrgTypeOK, NEW r \in Makers,
         \/ ShareInsert(r) \/ ShareDelete(r)
         \/ \E s \in DOMAIN shares : RevokeShareLink(r, s)
         \/ \E a \in people, org \in DOMAIN orgs \cup {None}, expiry \in Expiries :
              CreateShareLink(r, a, org, expiry)
  PROVE  LinksInv' /\ sharesMade' \in {sharesMade, sharesMade + 1}
         /\ UNCHANGED <<viewing, answer>>
<1>1. ASSUME NEW m, making' = [making EXCEPT ![r] = m], UNCHANGED <<shares, sharesMade>>,
             m.pc \in {"idle", "insert", "delete"}, m.pc = "insert" => m.share \in Share
      PROVE  LinksInv'
  <2>1. DOMAIN making' = Makers /\ \A p \in Makers : making'[p] \in {making[p], m}
    BY <1>1 DEF LinksInv
  <2> QED
    BY <1>1, <2>1 DEF LinksInv
<1>2. CASE ShareInsert(r)
  <2>1. /\ making[r].pc = "insert" /\ sharesMade < MaxShares /\ sharesMade' = sharesMade + 1
        /\ DOMAIN shares' = DOMAIN shares \cup {sharesMade + 1}
        /\ \A t \in DOMAIN shares' :
             shares'[t] = IF t = sharesMade + 1 THEN making[r].share ELSE shares[t]
        /\ making' = [making EXCEPT ![r] = NoMaking]
    BY <1>2 DEF ShareInsert
  <2>2. making[r].share \in Share /\ NoMaking.pc = "idle"
    BY <2>1 DEF LinksInv, NoMaking
  <2>3. DOMAIN making' = Makers /\ \A p \in Makers : making'[p] \in {making[p], NoMaking}
    BY <2>1 DEF LinksInv
  <2>4. sharesMade' \in 0 .. MaxShares /\ DOMAIN shares' \subseteq 1 .. sharesMade'
    BY <2>1, ShareAssumption DEF LinksInv
  <2>5. \A t \in DOMAIN shares' : shares'[t] \in Share
    BY <2>1, <2>2 DEF LinksInv
  <2>6. \A p \in Makers :
          /\ making'[p].pc \in {"idle", "insert", "delete"}
          /\ making'[p].pc = "insert" => making'[p].share \in Share
    BY <2>2, <2>3 DEF LinksInv
  <2> QED
    BY <1>2, <2>1, <2>3, <2>4, <2>5, <2>6 DEF LinksInv, ShareInsert
<1>3. CASE ShareDelete(r)
  <2>1. /\ DOMAIN shares' \subseteq DOMAIN shares
        /\ \A t \in DOMAIN shares' : shares'[t] = shares[t]
        /\ making' = [making EXCEPT ![r] = NoMaking]
        /\ UNCHANGED <<sharesMade, viewing, answer>>
    BY <1>3 DEF ShareDelete
  <2>2. DOMAIN making' = Makers /\ \A p \in Makers : making'[p] \in {making[p], NoMaking}
    BY <2>1 DEF LinksInv
  <2>3. NoMaking.pc = "idle"
    BY DEF NoMaking
  <2>4. \A p \in Makers :
          /\ making'[p].pc \in {"idle", "insert", "delete"}
          /\ making'[p].pc = "insert" => making'[p].share \in Share
    BY <2>2, <2>3 DEF LinksInv
  <2> QED
    BY <2>1, <2>2, <2>4 DEF LinksInv
<1>4. ASSUME NEW s \in DOMAIN shares, RevokeShareLink(r, s)
      PROVE  LinksInv' /\ UNCHANGED <<sharesMade, viewing, answer>>
  <2> DEFINE m == [NoMaking EXCEPT !.pc = "delete", !.id = s]
  <2>1. m.pc = "delete"
    BY DEF NoMaking
  <2>2. making' = [making EXCEPT ![r] = m] /\ UNCHANGED <<shares, sharesMade, viewing, answer>>
    BY <1>4 DEF RevokeShareLink
  <2> QED
    BY <1>1, <2>1, <2>2
<1>5. ASSUME NEW a \in people, NEW org \in DOMAIN orgs \cup {None}, NEW expiry \in Expiries,
             CreateShareLink(r, a, org, expiry)
      PROVE  LinksInv' /\ UNCHANGED <<sharesMade, viewing, answer>>
  <2> DEFINE share == [account |-> a, org |-> org, expiresAt |-> expiry]
             m == [pc |-> "insert", id |-> 0, share |-> share]
  <2>1. a \in People /\ org \in OrgIds \cup {None} /\ expiry \in Nat \cup {None}
    BY ShareAssumption DEF OrgTypeOK
  <2>2. share \in Share
    BY <2>1 DEF Share
  <2>3. m.pc = "insert" /\ m.share = share
    OBVIOUS
  <2>4. making' = [making EXCEPT ![r] = m] /\ UNCHANGED <<shares, sharesMade, viewing, answer>>
    BY <1>5 DEF CreateShareLink
  <2> HIDE DEF m, share
  <2> QED
    BY <1>1, <2>2, <2>3, <2>4
<1> QED
  BY <1>2, <1>3, <1>4, <1>5 DEF ShareInsert

(* What a step adds to the views, the cache and the answer names a link,   *)
(* or is a list of holidays.                                               *)
LEMMA NamesGo ==
  ASSUME NamesInv, sharesMade \in Nat, sharesMade' \in {sharesMade, sharesMade + 1},
         DOMAIN viewing' = Viewers,
         \A v \in Viewers : viewing'[v] = viewing[v] \/ Names(viewing'[v]),
         answer' = answer \/ Names(answer'),
         \A u \in DOMAIN cache' :
           \/ u \in DOMAIN cache /\ cache'[u] = cache[u]
           \/ u \in Urls \/ Names(cache'[u].value),
         \A f \in Fetches : fetch'[f].url = fetch[f].url \/ fetch'[f].url \in Urls
  PROVE  NamesInv'
<1>1. \A q : Names(q) => "id" \in DOMAIN q /\ q.id \in 0 .. sharesMade'
  BY DEF Names
<1>2. \A v \in Viewers : "id" \in DOMAIN viewing'[v] /\ viewing'[v].id \in 0 .. sharesMade'
  BY <1>1 DEF NamesInv
<1>3. "id" \in DOMAIN answer' /\ answer'.id \in 0 .. sharesMade'
  BY <1>1 DEF NamesInv
<1>4. ASSUME NEW s, ViewUrl(s) \in DOMAIN cache'
      PROVE  Names(cache'[ViewUrl(s)].value)
  BY <1>4, ViewsApart DEF NamesInv
<1>5. \A s : ViewUrl(s) \in DOMAIN cache' =>
        /\ "id" \in DOMAIN cache'[ViewUrl(s)].value
        /\ cache'[ViewUrl(s)].value.id \in 0 .. sharesMade'
  BY <1>1, <1>4
<1>6. \A f \in Fetches : fetch'[f].url \in Urls
  BY DEF NamesInv
<1> QED
  BY <1>2, <1>3, <1>5, <1>6 DEF NamesInv, Names, ViewUrl, Urls, All, ListUrl

(* Requests for holidays: what they add to the cache is under their URL.   *)
LEMMA ListingNames ==
  ASSUME NamesInv, FetchesInv, sharesMade \in Nat, Listing, UNCHANGED shareVars
  PROVE  NamesInv'
<1>1. UNCHANGED <<sharesMade, viewing, answer>> /\ DOMAIN viewing' = Viewers
  BY DEF shareVars, NamesInv
<1>2. ASSUME NEW f \in Fetches, fetch' = [fetch EXCEPT ![f] = fetch'[f]],
             fetch'[f].url \in Urls,
             \A u \in DOMAIN cache' :
               (u \in DOMAIN cache /\ cache'[u] = cache[u]) \/ u \in Urls
      PROVE  NamesInv'
  <2>1. \A g \in Fetches : fetch'[g].url = fetch[g].url \/ fetch'[g].url \in Urls
    BY <1>2 DEF FetchesInv
  <2> QED
    BY <1>1, <1>2, <2>1, NamesGo
<1>3. ASSUME UNCHANGED fetch, \A u \in DOMAIN cache' : u \in DOMAIN cache /\ cache'[u] = cache[u]
      PROVE  NamesInv'
  BY <1>1, <1>3, NamesGo
<1>4. ASSUME NEW f \in Fetches, NEW url \in Urls, ListArrive(f, url)
      PROVE  NamesInv'
  <2>1. cache' = cache
    BY <1>4 DEF ListArrive
  <2>2. \A u \in DOMAIN cache' : u \in DOMAIN cache /\ cache'[u] = cache[u]
    BY <2>1
  <2>3. \/ UNCHANGED fetch
        \/ /\ fetch' = [fetch EXCEPT ![f] = fetch'[f]]
           /\ fetch'[f].url \in Urls
    <3>1. \/ UNCHANGED fetch
          \/ /\ fetch' = [fetch EXCEPT ![f] = fetch'[f]]
             /\ fetch'[f] = [pc |-> "query", url |-> url, since |-> now,
                             list |-> {}, asOf |-> 0]
      BY <1>4, FetchSteps, Zenon
    <3> QED
      BY <3>1
  <2>4. CASE UNCHANGED fetch
    BY <1>3, <2>2, <2>4
  <2> QED
    BY <1>2, <2>2, <2>3, <2>4
<1>5. ASSUME NEW f \in Fetches, ListQuery(f)
      PROVE  NamesInv'
  <2>1. cache' = cache /\ fetch[f].url \in Urls
    BY <1>5 DEF ListQuery, NamesInv
  <2>2. \A u \in DOMAIN cache' : u \in DOMAIN cache /\ cache'[u] = cache[u]
    BY <2>1
  <2>3. fetch' = [fetch EXCEPT ![f] = fetch'[f]] /\ fetch'[f].url \in Urls
    <3>1. /\ fetch' = [fetch EXCEPT ![f] = fetch'[f]]
          /\ fetch'[f] = [pc |-> "fill", url |-> fetch[f].url, since |-> fetch[f].since,
                          list |-> Listed(fetch[f].url), asOf |-> now]
      BY <1>5, FetchSteps, Zenon
    <3> QED
      BY <2>1, <3>1
  <2> QED
    BY <1>2, <2>2, <2>3
<1>6. ASSUME NEW f \in Fetches, ListFill(f)
      PROVE  NamesInv'
  <2>1. /\ fetch' = [fetch EXCEPT ![f] = NoFetch] /\ fetch'[f] = NoFetch
        /\ cache' = Filled("list", fetch[f].url, fetch[f].list, fetch[f].asOf)
    BY <1>6 DEF ListFill, FetchesInv
  <2>2. \A u \in DOMAIN cache' :
          (u \in DOMAIN cache /\ cache'[u] = cache[u]) \/ u = fetch[f].url
    BY <2>1 DEF Filled, TrackBy
  <2>3. fetch[f].url \in Urls /\ NoFetch.url \in Urls
    BY DEF NamesInv, NoFetch, Urls
  <2> QED
    BY <1>2, <2>1, <2>2, <2>3
<1>7. CASE ClearCache \/ \E url \in DOMAIN cache : Evict(url)
  <2>1. CASE ClearCache
    <3>1. UNCHANGED fetch /\ DOMAIN cache' = {}
      BY <2>1 DEF ClearCache
    <3> QED
      BY <1>3, <3>1
  <2>2. ASSUME NEW url \in DOMAIN cache, Evict(url)
        PROVE  NamesInv'
    <3>1. UNCHANGED fetch /\ \A u \in DOMAIN cache' : u \in DOMAIN cache /\ cache'[u] = cache[u]
      BY <2>2 DEF Evict
    <3> QED
      BY <1>3, <3>1
  <2> QED
    BY <1>7, <2>1, <2>2
<1> QED
  BY <1>4, <1>5, <1>6, <1>7 DEF Listing

(* Requests for a report go on with the link they named.                   *)
LEMMA ViewingNames ==
  ASSUME NamesInv, sharesMade \in Nat, NEW v \in Viewers, UNCHANGED fetch,
         \/ /\ ViewFind(v) \/ ViewPopulate(v) \/ \E s \in 1 .. sharesMade : ViewArrive(v, s)
            /\ UNCHANGED cache
         \/ ViewReport(v)
  PROVE  NamesInv'
<1>1. ASSUME NEW q, Names(q), viewing' = [viewing EXCEPT ![v] = q],
             UNCHANGED sharesMade, answer' = answer \/ Names(answer'),
             \A u \in DOMAIN cache' : \/ u \in DOMAIN cache /\ cache'[u] = cache[u]
                                      \/ u \in Urls \/ Names(cache'[u].value)
      PROVE  NamesInv'
  <2>1. DOMAIN viewing' = Viewers /\ \A w \in Viewers : viewing'[w] \in {viewing[w], q}
    BY <1>1 DEF NamesInv
  <2>2. \A w \in Viewers : viewing'[w] = viewing[w] \/ Names(viewing'[w])
    BY <1>1, <2>1
  <2> QED
    BY <1>1, <2>1, <2>2, NamesGo
<1>2. Names(NoView) /\ Names(viewing[v])
  BY DEF NamesInv, Names, NoView
<1>3. ASSUME NEW s \in 1 .. sharesMade, ViewArrive(v, s), UNCHANGED cache
      PROVE  NamesInv'
  <2>1. CASE Hit("view", ViewUrl(s))
    <3>1. /\ answer' = [cache[ViewUrl(s)].value EXCEPT !.live = Valid(s)]
          /\ UNCHANGED <<viewing, sharesMade>>
      BY <1>3, <2>1 DEF ViewArrive
    <3>2. Names(cache[ViewUrl(s)].value)
      BY <2>1 DEF Hit, NamesInv
    <3>3. Names(answer')
      BY <3>1, <3>2 DEF Names
    <3> QED
      BY <1>3, <3>1, <3>3, NamesGo DEF NamesInv
  <2>2. CASE ~Hit("view", ViewUrl(s))
    <3> DEFINE q == [NoView EXCEPT !.pc = "find", !.id = s, !.live = Valid(s)]
    <3>1. "id" \in DOMAIN q /\ q.id = s
      BY DEF NoView
    <3>2. viewing' = [viewing EXCEPT ![v] = q] /\ UNCHANGED <<sharesMade, answer>>
      BY <1>3, <2>2 DEF ViewArrive
    <3> HIDE DEF q
    <3>3. Names(q)
      BY <3>1 DEF Names
    <3> QED
      BY <1>1, <1>3, <3>2, <3>3
  <2> QED
    BY <2>1, <2>2
<1>4. CASE ViewFind(v) /\ UNCHANGED cache
  <2> DEFINE q == [viewing[v] EXCEPT !.pc = "populate", !.share = shares[viewing[v].id]]
  <2>1. Names(q)
    BY <1>2 DEF Names
  <2>2. /\ viewing' = [viewing EXCEPT ![v] = q] \/ viewing' = [viewing EXCEPT ![v] = NoView]
        /\ UNCHANGED <<sharesMade, answer>>
    BY <1>4 DEF ViewFind
  <2> HIDE DEF q
  <2> QED
    BY <1>1, <1>2, <1>4, <2>1, <2>2
<1>5. CASE ViewPopulate(v) /\ UNCHANGED cache
  <2>1. ASSUME NEW q, "id" \in DOMAIN q, q.id = viewing[v].id,
               viewing' = [viewing EXCEPT ![v] = q]
        PROVE  NamesInv'
    <3>1. Names(q)
      BY <1>2, <2>1 DEF Names
    <3> QED
      BY <1>1, <1>5, <2>1, <3>1 DEF ViewPopulate
  <2>2. ASSUME NEW scope, NEW schedule,
               \/ viewing' = [viewing EXCEPT ![v].pc = "report", ![v].scope = scope,
                                             ![v].schedule = schedule]
               \/ viewing' = [viewing EXCEPT ![v].pc = "report", ![v].schedule = schedule]
        PROVE  NamesInv'
    <3>1. /\ viewing' = [viewing EXCEPT ![v] = viewing'[v]]
          /\ "id" \in DOMAIN viewing'[v] /\ viewing'[v].id = viewing[v].id
      BY <1>2, <2>2 DEF NamesInv, Names
    <3> QED
      BY <2>1, <3>1
  <2>3. CASE viewing' = [viewing EXCEPT ![v] = NoView]
    BY <1>1, <1>2, <1>5, <2>3 DEF ViewPopulate
  <2> QED
    BY <1>5, <2>2, <2>3 DEF ViewPopulate
<1>6. CASE ViewReport(v)
  <2> DEFINE q == viewing[v]
             shown == LogsFor(q.share.account, q.scope, Month)
             report == [id |-> q.id, live |-> q.live, org |-> q.share.org, logs |-> shown,
                        figures |-> Figures(shown, q.schedule,
                                            StandardWorkingDays(Month, HolidayDocs))]
  <2>1. Names(report)
    BY <1>2 DEF Names
  <2>2. /\ answer' = report /\ cache' = Filled("view", ViewUrl(q.id), report, now)
        /\ viewing' = [viewing EXCEPT ![v] = NoView] /\ UNCHANGED sharesMade
    BY <1>6 DEF ViewReport
  <2> HIDE DEF report
  <2>3. \A u \in DOMAIN cache' :
          (u \in DOMAIN cache /\ cache'[u] = cache[u]) \/ cache'[u].value = report
    BY <2>2 DEF Filled, TrackBy
  <2> QED
    BY <1>1, <1>2, <2>1, <2>2, <2>3
<1> QED
  BY <1>3, <1>4, <1>5, <1>6

(* Whichever part of the system a behaviour follows.                       *)
LEMMA NamesStep ==
  ASSUME OrgTypeOK, FetchesInv, LinksInv, NamesInv, [DeskNext]_deskVars
  PROVE  LinksInv' /\ NamesInv'
<1>1. sharesMade \in Nat
  BY ShareAssumption DEF LinksInv
<1>2. ASSUME UNCHANGED shareVars
      PROVE  LinksInv' /\ UNCHANGED <<sharesMade, viewing, answer>>
  BY <1>2 DEF shareVars, LinksInv
<1>3. ASSUME LinksInv', sharesMade' \in {sharesMade, sharesMade + 1},
             UNCHANGED <<viewing, answer, fetch>>,
             \A u \in DOMAIN cache' : u \in DOMAIN cache /\ cache'[u] = cache[u]
      PROVE  NamesInv'
  <2>1. DOMAIN viewing' = Viewers
    BY <1>3 DEF NamesInv
  <2> QED
    BY <1>1, <1>3, <2>1, NamesGo
<1>4. CASE Listing /\ UNCHANGED shareVars
  BY <1>1, <1>2, <1>4, ListingNames
<1>5. CASE (Clearing \/ Editing \/ HolidayTick) /\ UNCHANGED shareVars
  <2>1. /\ UNCHANGED fetch
        /\ \A u \in DOMAIN cache' : u \in DOMAIN cache /\ cache'[u] = cache[u]
    BY <1>5 DEF Clearing, Editing, HolidayTick, ClearListCache, RemoveHoliday,
       HolidayInsert, HolidayUpdate, CreateHoliday, UpdateHoliday
  <2> QED
    BY <1>2, <1>3, <1>5, <2>1
<1>6. CASE UNCHANGED <<holidayVars, shareVars>>
  <2>1. UNCHANGED <<fetch, cache>>
    BY <1>6 DEF holidayVars
  <2> QED
    BY <1>2, <1>3, <1>6, <2>1
<1>7. ASSUME ShareStep, UNCHANGED <<orgVars, holidayVars>>
      PROVE  LinksInv' /\ NamesInv'
  <2>1. UNCHANGED <<fetch, cache>>
    BY <1>7 DEF holidayVars
  <2>2. ASSUME NEW r \in Makers,
               \/ ShareInsert(r) \/ ShareDelete(r)
               \/ \E s \in DOMAIN shares : RevokeShareLink(r, s)
               \/ \E a \in people, org \in DOMAIN orgs \cup {None}, expiry \in Expiries :
                    CreateShareLink(r, a, org, expiry)
        PROVE  LinksInv' /\ NamesInv'
    <3>1. /\ LinksInv' /\ sharesMade' \in {sharesMade, sharesMade + 1}
          /\ UNCHANGED <<viewing, answer>>
      BY <2>2, LinksKeep, Zenon
    <3> QED
      BY <1>3, <2>1, <3>1
  <2>3. ASSUME NEW v \in Viewers,
               ViewFind(v) \/ ViewPopulate(v) \/ \E s \in 1 .. sharesMade : ViewArrive(v, s)
        PROVE  LinksInv' /\ NamesInv'
    <3>1. UNCHANGED <<shares, sharesMade, making>>
      BY <2>3 DEF ViewFind, ViewPopulate, ViewArrive
    <3>2. LinksInv'
      BY <3>1 DEF LinksInv
    <3>3. NamesInv'
      BY <1>1, <2>1, <2>3, ViewingNames
    <3> QED
      BY <3>2, <3>3
  <2> QED
    BY <1>7, <2>2, <2>3, Zenon DEF ShareStep
<1>8. ASSUME NEW v \in Viewers, ViewReport(v), UNCHANGED fetch
      PROVE  LinksInv' /\ NamesInv'
  <2>1. UNCHANGED <<shares, sharesMade, making>>
    BY <1>8 DEF ViewReport
  <2>2. LinksInv'
    BY <2>1 DEF LinksInv
  <2> QED
    BY <1>1, <1>8, <2>2, ViewingNames
<1>9. CASE Beside
  BY <1>5, <1>6, <1>9 DEF Beside
<1>10. CASE UNCHANGED deskVars
  BY <1>6, <1>10 DEF deskVars
<1>11. CASE DeskNext
  BY <1>4, <1>5, <1>6, <1>7, <1>8, <1>9, <1>11 DEF DeskNext
<1> QED
  BY <1>10, <1>11

(* A link is stored and answered as it was asked for, and a report that is *)
(* answered, also from the cache, is one for a link that was given out,    *)
(* whatever creations, revocations and views are in flight.                *)
THEOREM LinksAndReportsShaped == DeskSpec => []ShareTypeOK
<1>1. DeskInit => OrgInv /\ FetchesInv /\ LinksInv /\ NamesInv
  BY OrgStarts, ListsStart, LinksStart DEF DeskInit
<1>2. OrgInv /\ FetchesInv /\ LinksInv /\ NamesInv /\ [DeskNext]_deskVars
        => (OrgInv /\ FetchesInv /\ LinksInv /\ NamesInv)'
  BY DeskOrgStep, FetchesStep, NamesStep DEF OrgInv
<1>3. OrgInv /\ LinksInv /\ NamesInv => ShareTypeOK
  BY DEF OrgInv, LinksInv, NamesInv, Names, ShareTypeOK
<1> QED
  BY <1>1, <1>2, <1>3, PTL DEF DeskSpec
=============================================================================
