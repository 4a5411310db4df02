-------------------------- MODULE CollaborationProofs --------------------------
(***************************************************************************)
(* Memberships, grants and invitations keep their invariants for any       *)
(* number of namespaces, principals and concurrent requests.               *)
(*                                                                         *)
(* The invariants of the tables are not inductive: a write trusts what was *)
(* read and checked before. CollaborationInv adds what makes that last:    *)
(* the namespace of a request is the one it locks (LiveRequests), a        *)
(* checked request holds its locks and a waiting one holds smaller ones    *)
(* (LocksKept), so that what it has checked of an owner still holds        *)
(* (RevocationsSafe).                                                      *)
(***************************************************************************)
EXTENDS CollaborationLifecycle, FiniteSetTheorems, TLAPS

LiveRequest(s) ==
    /\ request[s] \in Requests /\ WellFormed(request[s])
    /\ request[s].ns \in Namespaces
    /\ request[s].kind = "transfer ownership" => request[s].owner \in People
    /\ request[s].kind \in {"accept", "decline", "revoke invitation"} =>
          /\ invite[request[s].invitation].status # "unissued"
          /\ invite[request[s].invitation].ns = request[s].ns
LiveRequests == \A s \in Servers : stage[s] # "idle" => LiveRequest(s)

LocksKept ==
    \A s \in Servers :
        /\ stage[s] = "locking" =>
              \A m \in Held(s), n \in LocksOf(request[s]) \ Held(s) : Rank[m] <= Rank[n]
        /\ stage[s] = "checked" => LocksOf(request[s]) \subseteq Held(s)

IssuedInvitations ==
    \A i \in Invitations :
        invite[i].status # "unissued" =>
            invite[i].ns \in Namespaces /\ invite[i].role \in MemberRoles /\ invite[i].to \in People

RevocationsSafe ==
    \A s \in Servers :
        stage[s] = "checked" /\ request[s].kind = "revoke member"
        => OwnerMutationAllowed(request[s].ns, request[s].who)

CollaborationInv ==
    /\ CollaborationTypeOK
    /\ LiveRequests
    /\ LocksKept
    /\ IssuedInvitations
    /\ RevocationsSafe
    /\ GrantsFollowProject
    /\ InvitationConfersOnce

(***************************************************************************)
(* Control: requests and locks.                                            *)
(***************************************************************************)
ControlOK ==
    /\ holder \in [Namespaces -> Servers \cup {Nobody}]
    /\ \A n \in Namespaces : holder[n] # Nobody => stage[holder[n]] # "idle"
    /\ request \in [Servers -> Requests \cup {Nobody}]
    /\ stage \in [Servers -> {"idle", "locking", "checked"}]

\* No issued invitation changes its namespace or is unissued.
InvitesStay ==
    \A i \in Invitations :
        invite[i].status # "unissued" => invite'[i].status # "unissued"
                                         /\ invite'[i].ns = invite[i].ns

\* The end of a request releases its locks and disturbs no other request.
LEMMA RequestEnds ==
    ASSUME ControlOK, LiveRequests, LocksKept, NEW s \in Servers, EndRequest(s), InvitesStay
    PROVE  /\ ControlOK' /\ LiveRequests' /\ LocksKept'
           /\ \A t \in Servers \ {s} : stage'[t] = stage[t] /\ request'[t] = request[t]
           /\ stage'[s] = "idle" /\ lapsed' = lapsed
<1>1. /\ \A t \in Servers \ {s} : stage'[t] = stage[t] /\ request'[t] = request[t]
      /\ stage'[s] = "idle" /\ request'[s] = Nobody /\ lapsed' = lapsed
  BY DEF EndRequest, ControlOK
<1>2. \A n \in Namespaces : holder'[n] = IF holder[n] = s THEN Nobody ELSE holder[n]
  BY DEF EndRequest, ControlOK
<1>3. \A t \in Servers \ {s} : Held(t)' = Held(t)
  BY <1>2, CollaborationAssumption DEF Held
<1>4. ControlOK'
  <2>1. holder' \in [Namespaces -> Servers \cup {Nobody}]
    BY DEF EndRequest, ControlOK
  <2>2. request' \in [Servers -> Requests \cup {Nobody}]
        /\ stage' \in [Servers -> {"idle", "locking", "checked"}]
    BY DEF EndRequest, ControlOK
  <2>3. ASSUME NEW n \in Namespaces, holder'[n] # Nobody PROVE stage'[holder'[n]] # "idle"
    <3>1. holder'[n] = holder[n] /\ holder[n] \in Servers \ {s}
      BY <1>2, <2>3 DEF ControlOK
    <3> QED
      BY <3>1, <1>1, <2>3 DEF ControlOK
  <2> QED
    BY <2>1, <2>2, <2>3 DEF ControlOK
<1>5. LiveRequests'
  <2>1. ASSUME NEW t \in Servers, stage'[t] # "idle" PROVE LiveRequest(t)'
    <3>1. t # s /\ LiveRequest(t) /\ request'[t] = request[t]
      BY <1>1, <2>1 DEF LiveRequests
    <3>2. request[t].kind \in {"accept", "decline", "revoke invitation"}
          => request[t].invitation \in Invitations
      BY <3>1 DEF LiveRequest, WellFormed
    <3> QED
      BY <3>1, <3>2 DEF LiveRequest, InvitesStay, WellFormed
  <2> QED
    BY <2>1 DEF LiveRequests
<1>6. LocksKept'
  <2>1. ASSUME NEW t \in Servers, t # s
        PROVE  /\ stage'[t] = "locking" =>
                    \A m \in Held(t)', n \in LocksOf(request'[t]) \ Held(t)' : Rank[m] <= Rank[n]
               /\ stage'[t] = "checked" => LocksOf(request'[t]) \subseteq Held(t)'
    BY <1>1, <1>3, <2>1 DEF LocksKept
  <2> QED
    BY <2>1, <1>1 DEF LocksKept
<1> QED
  BY <1>1, <1>4, <1>5, <1>6

\* The locks of a request are namespaces.
LEMMA LocksAreNamespaces ==
    ASSUME NEW s \in Servers, LiveRequest(s) PROVE LocksOf(request[s]) \subseteq Namespaces
BY DEF LiveRequest, WellFormed, LocksOf, Requests

LEMMA ControlSteps ==
    ASSUME CollaborationInv, NEW s \in Servers,
           \/ \E r \in Submissions : Submit(s, r)
           \/ \E n \in Namespaces : Acquire(s, n)
           \/ Check(s)
    PROVE  CollaborationInv'
<1> USE DEF CollaborationInv
<1>0. UNCHANGED tables /\ UNCHANGED lapsed
  BY DEF Submit, Acquire, Check
<1>1. UNCHANGED <<member, grant, home, invite, conferred>>
  BY <1>0 DEF tables
<1>2. IssuedInvitations' /\ GrantsFollowProject' /\ InvitationConfersOnce'
  BY <1>1 DEF IssuedInvitations, GrantsFollowProject, InvitationConfersOnce
<1>3. ASSUME NEW r \in Submissions, Submit(s, r) PROVE CollaborationInv'
  <2> DEFINE q == Resolved(r)
  <2>1. r \in Requests /\ WellFormed(r)
    BY CollaborationAssumption
  <2>2. q.ns \in Namespaces
    <3>1. CASE r.project # Nobody
      BY <3>1, <2>1 DEF Resolved, Requests, CollaborationTypeOK
    <3>2. CASE r.project = Nobody /\ r.invitation # Nobody
      <4>1. r.invitation \in Invitations
        BY <3>2, <2>1 DEF Requests
      <4>2. invite[r.invitation].status # "unissued"
        BY <3>2, <1>3 DEF Submit
      <4>3. q.ns = invite[r.invitation].ns
        BY <3>2, <2>1 DEF Resolved, Requests
      <4>4. invite[r.invitation].ns \in Namespaces
        BY <4>1, <4>2 DEF IssuedInvitations
      <4> QED
        BY <4>3, <4>4
    <3>3. CASE r.project = Nobody /\ r.invitation = Nobody
      <4>1. r.ns \in Namespaces
        <5>1. Nobody \notin Projects /\ Nobody \notin Invitations
          BY CollaborationAssumption
        <5>2. r.kind \in Kinds
          BY <2>1 DEF Requests
        <5> QED
          BY <3>3, <2>1, <5>1, <5>2 DEF WellFormed, Kinds
      <4> QED
        BY <3>3, <4>1, <2>1 DEF Resolved, Requests
    <3> QED
      BY <3>1, <3>2, <3>3
  <2>3. /\ q \in Requests
        /\ q.kind = r.kind /\ q.project = r.project /\ q.who = r.who /\ q.owner = r.owner
        /\ q.role = r.role /\ q.invitation = r.invitation /\ q.to = r.to
    <3>1. DOMAIN r = {"kind", "ns", "to", "project", "who", "owner", "role", "invitation", "late"}
      BY <2>1 DEF Requests
    <3>2. /\ q.kind = r.kind /\ q.project = r.project /\ q.who = r.who /\ q.owner = r.owner
          /\ q.role = r.role /\ q.invitation = r.invitation /\ q.to = r.to
      BY <3>1 DEF Resolved
    <3>3. q.late \in BOOLEAN
      BY <3>1 DEF Resolved
    <3>4. q \in Requests
      BY <2>1, <2>2, <3>3 DEF Resolved, Requests
    <3> QED
      BY <3>2, <3>4
  <2>4. WellFormed(q)
    BY <2>1, <2>2, <2>3 DEF WellFormed
  <2>5. q.kind = "transfer ownership" => q.owner \in People
    BY <1>3, <2>3 DEF Submit, Owners
  <2>6. q.kind \in {"accept", "decline", "revoke invitation"} =>
            invite[q.invitation].status # "unissued" /\ invite[q.invitation].ns = q.ns
    <3>1. ASSUME q.kind \in {"accept", "decline", "revoke invitation"}
          PROVE  invite[q.invitation].status # "unissued" /\ invite[q.invitation].ns = q.ns
      <4>1. r.project = Nobody /\ r.invitation \in Invitations
        BY <3>1, <2>1, <2>3 DEF WellFormed
      <4>2. r.invitation # Nobody
        BY <4>1, CollaborationAssumption
      <4>3. invite[r.invitation].status # "unissued"
        BY <1>3, <4>2 DEF Submit
      <4>4. q.ns = invite[r.invitation].ns
        BY <2>1, <4>1, <4>2 DEF Resolved, Requests
      <4> QED
        BY <2>3, <4>3, <4>4
    <3> QED
      BY <3>1
  <2>7. /\ stage[s] = "idle" /\ stage' = [stage EXCEPT ![s] = "locking"]
        /\ request' = [request EXCEPT ![s] = q] /\ UNCHANGED holder
    BY <1>3 DEF Submit
  <2> HIDE DEF q
  <2>8. CollaborationTypeOK'
    BY <1>1, <1>0, <2>3, <2>7 DEF CollaborationTypeOK
  <2>9. stage'[s] = "locking" /\ request'[s] = q
        /\ \A t \in Servers \ {s} : stage'[t] = stage[t] /\ request'[t] = request[t]
    BY <2>7 DEF CollaborationTypeOK
  <2>10. LiveRequests'
    <3>1. LiveRequest(s)'
      <4>1. request'[s] \in Requests /\ WellFormed(request'[s]) /\ request'[s].ns \in Namespaces
        BY <2>2, <2>3, <2>4, <2>9
      <4>2. request'[s].kind = "transfer ownership" => request'[s].owner \in People
        BY <2>5, <2>9
      <4>3. request'[s].kind \in {"accept", "decline", "revoke invitation"} =>
              /\ invite'[request'[s].invitation].status # "unissued"
              /\ invite'[request'[s].invitation].ns = request'[s].ns
        BY <1>1, <2>6, <2>9
      <4> QED
        BY <4>1, <4>2, <4>3 DEF LiveRequest, WellFormed
    <3>2. ASSUME NEW t \in Servers \ {s}, stage'[t] # "idle" PROVE LiveRequest(t)'
      <4>1. LiveRequest(t) /\ request'[t] = request[t] /\ invite' = invite
        BY <1>1, <2>9, <3>2 DEF LiveRequests
      <4> QED
        BY <4>1 DEF LiveRequest, WellFormed
    <3> QED
      BY <3>1, <3>2 DEF LiveRequests
  <2>11. Held(s) = {} /\ \A t \in Servers : Held(t)' = Held(t)
    BY <2>7, CollaborationAssumption DEF Held, CollaborationTypeOK
  <2>12. LocksKept'
    BY <2>9, <2>11 DEF LocksKept
  <2>13. RevocationsSafe'
    BY <1>1, <2>9 DEF RevocationsSafe, OwnerMutationAllowed, IsOwner, Owners
  <2> QED
    BY <1>2, <2>8, <2>10, <2>12, <2>13
<1>4. ASSUME NEW n \in Namespaces, Acquire(s, n) PROVE CollaborationInv'
  <2>1. /\ stage[s] = "locking" /\ holder[n] = Nobody
        /\ n \in LocksOf(request[s]) \ Held(s)
        /\ \A m \in LocksOf(request[s]) \ Held(s) : Rank[n] <= Rank[m]
        /\ holder' = [holder EXCEPT ![n] = s] /\ UNCHANGED <<request, stage>>
    BY <1>4 DEF Acquire, LocksNext
  <2>2. CollaborationTypeOK'
    BY <1>1, <1>0, <2>1 DEF CollaborationTypeOK
  <2>3. LiveRequests'
    BY <1>1, <2>1 DEF LiveRequests, LiveRequest, WellFormed
  <2>4. Held(s)' = Held(s) \cup {n} /\ \A t \in Servers \ {s} : Held(t)' = Held(t)
    BY <2>1, CollaborationAssumption DEF Held, CollaborationTypeOK
  <2>5. LocksKept'
    <3>1. ASSUME NEW t \in Servers
          PROVE  /\ stage'[t] = "locking" =>
                      \A m \in Held(t)', k \in LocksOf(request'[t]) \ Held(t)' : Rank[m] <= Rank[k]
                 /\ stage'[t] = "checked" => LocksOf(request'[t]) \subseteq Held(t)'
      <4>1. CASE t = s
        BY <4>1, <2>1, <2>4 DEF LocksKept
      <4>2. CASE t # s
        BY <4>2, <2>1, <2>4 DEF LocksKept
      <4> QED
        BY <4>1, <4>2
    <3> QED
      BY <3>1 DEF LocksKept
  <2>6. RevocationsSafe'
    BY <1>1, <2>1 DEF RevocationsSafe, OwnerMutationAllowed, IsOwner, Owners
  <2> QED
    BY <1>2, <2>2, <2>3, <2>5, <2>6
<1>5. ASSUME Check(s) PROVE CollaborationInv'
  <2>1. /\ stage[s] = "locking" /\ LocksOf(request[s]) \subseteq Held(s)
        /\ Admissible(request[s])
        /\ stage' = [stage EXCEPT ![s] = "checked"] /\ UNCHANGED <<holder, request>>
    BY <1>5 DEF Check
  <2>2. CollaborationTypeOK'
    BY <1>1, <1>0, <2>1 DEF CollaborationTypeOK
  <2>3. stage'[s] = "checked" /\ \A t \in Servers \ {s} : stage'[t] = stage[t]
    BY <2>1 DEF CollaborationTypeOK
  <2>4. LiveRequests'
    <3>1. ASSUME NEW t \in Servers, stage'[t] # "idle" PROVE LiveRequest(t)'
      <4>1. LiveRequest(t) /\ request'[t] = request[t] /\ invite' = invite
        BY <1>1, <2>1, <2>3, <3>1 DEF LiveRequests
      <4> QED
        BY <4>1 DEF LiveRequest, WellFormed
    <3> QED
      BY <3>1 DEF LiveRequests
  <2>5. \A t \in Servers : Held(t)' = Held(t)
    BY <2>1 DEF Held
  <2>6. LocksKept'
    BY <2>1, <2>3, <2>5 DEF LocksKept
  <2>7. request[s].kind = "revoke member" => OwnerMutationAllowed(request[s].ns, request[s].who)
    BY <2>1 DEF Admissible
  <2>8. RevocationsSafe'
    BY <1>1, <2>1, <2>3, <2>7 DEF RevocationsSafe, OwnerMutationAllowed, IsOwner, Owners
  <2> QED
    BY <1>2, <2>2, <2>4, <2>6, <2>8
<1> QED
  BY <1>3, <1>4, <1>5

(***************************************************************************)
(* Writes.                                                                 *)
(***************************************************************************)
TablesOK ==
    /\ member \in [Namespaces -> [Principals -> MemberRows]]
    /\ grant \in [Projects -> [Principals -> GrantRows]]
    /\ home \in [Projects -> Namespaces]
    /\ invite \in [Invitations -> InviteRows]
    /\ conferred \in [Invitations -> Nat]

\* A write changes memberships only in the namespace that its request has locked.
WritesOnlyIn(s) ==
    \/ member' = member
    \/ /\ request[s].ns \in LocksOf(request[s])
       /\ \A n \in Namespaces \ {request[s].ns} : member'[n] = member[n]

\* What a write has to show: its own tables. Requests, locks and the checks of
\* others are kept by the end of the request and by WritesOnlyIn.
LEMMA WriteKeeps ==
    ASSUME CollaborationInv, NEW s \in Servers, stage[s] = "checked", EndRequest(s),
           TablesOK', InvitesStay, IssuedInvitations', GrantsFollowProject',
           InvitationConfersOnce', WritesOnlyIn(s)
    PROVE  CollaborationInv'
<1> USE DEF CollaborationInv
<1>1. ControlOK
  BY DEF ControlOK, CollaborationTypeOK
<1>2. /\ ControlOK' /\ LiveRequests' /\ LocksKept'
      /\ \A t \in Servers \ {s} : stage'[t] = stage[t] /\ request'[t] = request[t]
      /\ stage'[s] = "idle" /\ lapsed' = lapsed
  BY <1>1, RequestEnds
<1>3. CollaborationTypeOK'
  BY <1>2 DEF CollaborationTypeOK, ControlOK, TablesOK
<1>4. RevocationsSafe'
  <2>1. ASSUME NEW t \in Servers, stage'[t] = "checked", request'[t].kind = "revoke member"
        PROVE  OwnerMutationAllowed(request[t].ns, request[t].who)'
    <3>1. /\ t # s /\ stage[t] = "checked" /\ request'[t] = request[t]
          /\ OwnerMutationAllowed(request[t].ns, request[t].who)
          /\ request[t].ns \in Namespaces
      BY <1>2, <2>1 DEF RevocationsSafe, LiveRequests, LiveRequest
    <3>2. request[t].ns \in LocksOf(request[t])
      BY <2>1, <3>1 DEF LocksOf
    <3>3. holder[request[t].ns] = t
      BY <3>1, <3>2 DEF LocksKept, Held
    <3>4. member'[request[t].ns] = member[request[t].ns]
      BY <3>1, <3>3 DEF WritesOnlyIn, LocksKept, Held
    <3> QED
      BY <3>1, <3>4 DEF OwnerMutationAllowed, IsOwner, Owners
  <2> QED
    BY <2>1, <1>2 DEF RevocationsSafe
<1> QED
  BY <1>2, <1>3, <1>4

\* A revoked row keeps its role or namespace.
LEMMA RevokedMember ==
    ASSUME NEW row \in MemberRows PROVE [row EXCEPT !.active = FALSE] \in MemberRows
BY DEF MemberRows

LEMMA EqualGrants ==
    ASSUME NEW x \in GrantRows, NEW y \in GrantRows, x.ns = y.ns, x.active = y.active
    PROVE  x = y
BY DEF GrantRows

LEMMA RevokedGrant ==
    ASSUME NEW row \in GrantRows, NEW new, new = [row EXCEPT !.active = FALSE]
    PROVE  new \in GrantRows /\ new.ns = row.ns /\ (row = NoGrant => new = NoGrant)
<1>1. DOMAIN row = {"ns", "active"}
  BY DEF GrantRows
<1>2. new.ns = row.ns /\ new.active = FALSE
  BY <1>1
<1>3. new \in GrantRows
  BY DEF GrantRows
<1>4. NoGrant \in GrantRows /\ NoGrant.active = FALSE
  BY DEF NoGrant, GrantRows
<1> QED
  BY <1>2, <1>3, <1>4, EqualGrants

\* A member's row, one namespace's lock.
LEMMA MemberWrites ==
    ASSUME CollaborationInv, NEW s \in Servers,
           UpsertMember(s) \/ RevokeMember(s) \/ TransferOwnership(s)
    PROVE  CollaborationInv'
<1> USE DEF CollaborationInv
<1> DEFINE r == request[s]
<1>1. /\ stage[s] = "checked" /\ EndRequest(s)
      /\ r.kind \in {"upsert member", "revoke member", "transfer ownership"}
      /\ UNCHANGED <<grant, home, invite, conferred>>
  BY DEF UpsertMember, RevokeMember, TransferOwnership, Writes
<1>2. LiveRequest(s)
  BY <1>1 DEF LiveRequests
<1>3. r.ns \in Namespaces /\ r.who \in Principals /\ r.ns \in LocksOf(r)
  BY <1>1, <1>2 DEF LiveRequest, WellFormed, LocksOf
<1>4. IssuedInvitations' /\ InvitesStay /\ GrantsFollowProject' /\ InvitationConfersOnce'
  BY <1>1 DEF IssuedInvitations, InvitesStay, GrantsFollowProject, InvitationConfersOnce
<1>5. member \in [Namespaces -> [Principals -> MemberRows]]
  BY DEF CollaborationTypeOK
<1>6. PICK rows \in [Principals -> MemberRows] : member' = [member EXCEPT ![r.ns] = rows]
  <2>1. CASE UpsertMember(s)
    <3>1. r.role \in MemberRoles
      BY <1>2, <2>1 DEF UpsertMember, Writes, LiveRequest, WellFormed
    <3>2. [role |-> r.role, active |-> TRUE] \in MemberRows
      BY <3>1 DEF MemberRows
    <3>3. [member[r.ns] EXCEPT ![r.who] = [role |-> r.role, active |-> TRUE]]
            \in [Principals -> MemberRows]
      BY <3>2, <1>3, <1>5
    <3>4. member' = [member EXCEPT ![r.ns] =
                        [member[r.ns] EXCEPT ![r.who] = [role |-> r.role, active |-> TRUE]]]
      BY <2>1, <1>3, <1>5 DEF UpsertMember, SetMember
    <3> QED
      BY <3>3, <3>4
  <2>2. CASE RevokeMember(s)
    <3>1. [member[r.ns][r.who] EXCEPT !.active = FALSE] \in MemberRows
      BY <1>3, <1>5, RevokedMember
    <3>2. [member[r.ns] EXCEPT ![r.who] = [member[r.ns][r.who] EXCEPT !.active = FALSE]]
            \in [Principals -> MemberRows]
      BY <3>1, <1>3, <1>5
    <3>3. member' = [member EXCEPT ![r.ns] =
             [member[r.ns] EXCEPT ![r.who] = [member[r.ns][r.who] EXCEPT !.active = FALSE]]]
      BY <2>2, <1>3, <1>5 DEF RevokeMember, SetMember
    <3> QED
      BY <3>2, <3>3
  <2>3. CASE TransferOwnership(s)
    <3>1. /\ [role |-> "admin", active |-> TRUE] \in MemberRows
          /\ [role |-> "owner", active |-> TRUE] \in MemberRows
      BY CollaborationAssumption DEF MemberRows
    <3>2. [member[r.ns] EXCEPT ![r.owner] = [role |-> "admin", active |-> TRUE],
                               ![r.who] = [role |-> "owner", active |-> TRUE]]
            \in [Principals -> MemberRows]
      BY <3>1, <1>3, <1>5
    <3>3. member' = [member EXCEPT ![r.ns] =
             [member[r.ns] EXCEPT ![r.owner] = [role |-> "admin", active |-> TRUE],
                                  ![r.who] = [role |-> "owner", active |-> TRUE]]]
      BY <2>3, <1>3, <1>5 DEF TransferOwnership
    <3> QED
      BY <3>2, <3>3
  <2> QED
    BY <2>1, <2>2, <2>3
<1>7. TablesOK'
  BY <1>1, <1>3, <1>5, <1>6 DEF TablesOK, CollaborationTypeOK
<1>8. WritesOnlyIn(s)
  BY <1>3, <1>5, <1>6 DEF WritesOnlyIn
<1> QED
  BY <1>1, <1>4, <1>7, <1>8, WriteKeeps

\* A grant's row: the namespace is the project's when it is written.
LEMMA GrantWrites ==
    ASSUME CollaborationInv, NEW s \in Servers, Grant(s) \/ IssueCredential(s) \/ RevokeGrant(s)
    PROVE  CollaborationInv'
<1> USE DEF CollaborationInv
<1> DEFINE r == request[s]
<1>1. /\ stage[s] = "checked" /\ EndRequest(s)
      /\ r.kind \in {"grant", "issue credential", "revoke grant"}
      /\ UNCHANGED <<member, home, invite, conferred>>
  BY DEF Grant, IssueCredential, RevokeGrant, Writes
<1>2. LiveRequest(s)
  BY <1>1 DEF LiveRequests
<1>3. r.ns \in Namespaces /\ r.project \in Projects /\ r.who \in Principals
  BY <1>1, <1>2 DEF LiveRequest, WellFormed
<1>4. IssuedInvitations' /\ InvitesStay /\ InvitationConfersOnce' /\ WritesOnlyIn(s)
  BY <1>1 DEF IssuedInvitations, InvitesStay, InvitationConfersOnce, WritesOnlyIn
<1>5. grant \in [Projects -> [Principals -> GrantRows]] /\ home \in [Projects -> Namespaces]
  BY DEF CollaborationTypeOK
<1>6. PICK row \in GrantRows :
          /\ grant' = [grant EXCEPT ![r.project][r.who] = row]
          /\ row # NoGrant => row.ns = home[r.project]
  <2>1. CASE Grant(s) \/ IssueCredential(s)
    <3>1. [ns |-> r.ns, active |-> TRUE] \in GrantRows
      BY <1>3 DEF GrantRows
    <3> QED
      BY <2>1, <3>1 DEF Grant, IssueCredential, SetGrant, InNamespace
  <2>2. CASE RevokeGrant(s)
    <3> DEFINE old == grant[r.project][r.who]
               new == [old EXCEPT !.active = FALSE]
    <3>1. old \in GrantRows
      BY <1>3, <1>5
    <3>2. new \in GrantRows /\ new.ns = old.ns /\ (old = NoGrant => new = NoGrant)
      BY <3>1, RevokedGrant
    <3>4. old # NoGrant => old.ns = home[r.project]
      BY <1>3 DEF GrantsFollowProject
    <3>5. grant' = [grant EXCEPT ![r.project][r.who] = new]
      BY <2>2 DEF RevokeGrant, SetGrant
    <3> HIDE DEF old, new
    <3> QED
      BY <3>2, <3>4, <3>5
  <2> QED
    BY <2>1, <2>2
<1>7. /\ grant' \in [Projects -> [Principals -> GrantRows]]
      /\ \A j \in Projects, p \in Principals :
            grant'[j][p] = IF j = r.project /\ p = r.who THEN row ELSE grant[j][p]
  BY <1>3, <1>5, <1>6
<1>8. TablesOK'
  BY <1>1, <1>7 DEF TablesOK, CollaborationTypeOK
<1>9. GrantsFollowProject'
  <2>1. ASSUME NEW j \in Projects, NEW p \in Principals, grant'[j][p] # NoGrant
        PROVE  grant'[j][p].ns = home'[j]
    <3>1. CASE j = r.project /\ p = r.who
      <4>1. grant'[j][p] = row /\ home'[j] = home[r.project]
        BY <3>1, <1>1, <1>3, <1>7
      <4> QED
        BY <4>1, <2>1, <1>6
    <3>2. CASE ~(j = r.project /\ p = r.who)
      <4>1. grant'[j][p] = grant[j][p] /\ home'[j] = home[j]
        BY <3>2, <1>1, <1>7
      <4> QED
        BY <4>1, <2>1 DEF GrantsFollowProject
    <3> QED
      BY <3>1, <3>2
  <2> QED
    BY <2>1, <1>1 DEF GrantsFollowProject
<1> QED
  BY <1>1, <1>4, <1>8, <1>9, WriteKeeps

\* A project moves only when no grant or invitation names it.
LEMMA ProjectMoves ==
    ASSUME CollaborationInv, NEW s \in Servers, TransferProject(s) PROVE CollaborationInv'
<1> USE DEF CollaborationInv
<1> DEFINE r == request[s]
<1>1. /\ stage[s] = "checked" /\ EndRequest(s) /\ r.kind = "transfer project"
      /\ home' = [home EXCEPT ![r.project] = r.to] /\ ~CollaborationHistory(r.project)
      /\ UNCHANGED <<member, grant, invite, conferred>>
  BY DEF TransferProject, Writes
<1>2. LiveRequest(s)
  BY <1>1 DEF LiveRequests
<1>3. r.to \in Namespaces /\ r.project \in Projects
  BY <1>1, <1>2 DEF LiveRequest, WellFormed
<1>4. IssuedInvitations' /\ InvitesStay /\ InvitationConfersOnce' /\ WritesOnlyIn(s)
  BY <1>1 DEF IssuedInvitations, InvitesStay, InvitationConfersOnce, WritesOnlyIn
<1>5. TablesOK'
  BY <1>1, <1>3 DEF TablesOK, CollaborationTypeOK
<1>6. \A j \in Projects : home'[j] = IF j = r.project THEN r.to ELSE home[j]
  BY <1>1, <1>3 DEF CollaborationTypeOK
<1>7. GrantsFollowProject'
  <2>1. ASSUME NEW j \in Projects, NEW p \in Principals, grant[j][p] # NoGrant
        PROVE  grant[j][p].ns = home'[j]
    BY <2>1, <1>1, <1>6 DEF GrantsFollowProject, CollaborationHistory
  <2>2. ASSUME NEW i \in Invitations, invite[i].project # Nobody
        PROVE  invite[i].ns = home'[invite[i].project]
    <3>1. invite[i].project \in Projects
      BY <2>2 DEF CollaborationTypeOK, InviteRows
    <3> QED
      BY <3>1, <2>2, <1>1, <1>6 DEF GrantsFollowProject, CollaborationHistory
  <2> QED
    BY <2>1, <2>2, <1>1 DEF GrantsFollowProject
<1> QED
  BY <1>1, <1>4, <1>5, <1>7, WriteKeeps

\* A row of an invitation with another status.
LEMMA AnsweredRow ==
    ASSUME NEW row \in InviteRows, NEW status \in {"accepted", "revoked"}, NEW new,
           new = [row EXCEPT !.status = status]
    PROVE  /\ new \in InviteRows /\ new.status = status
           /\ new.ns = row.ns /\ new.project = row.project /\ new.to = row.to
           /\ new.role = row.role
<1>1. DOMAIN row = {"status", "ns", "project", "to", "role"}
  BY DEF InviteRows
<1> QED
  BY <1>1 DEF InviteRows

LEMMA InviteWrites ==
    ASSUME CollaborationInv, NEW s \in Servers, NEW i \in Invitations, Invite(s, i)
    PROVE  CollaborationInv'
<1> USE DEF CollaborationInv
<1> DEFINE r == request[s]
           new == [status |-> "pending", ns |-> r.ns, project |-> r.project, to |-> r.who,
                   role |-> r.role]
<1>1. /\ stage[s] = "checked" /\ EndRequest(s) /\ r.kind = "invite"
      /\ invite[i].status = "unissued" /\ invite' = [invite EXCEPT ![i] = new]
      /\ r.project # Nobody => home[r.project] = r.ns
      /\ UNCHANGED <<member, grant, home, conferred>>
  BY DEF Invite, Writes, InNamespace
<1>2. LiveRequest(s)
  BY <1>1 DEF LiveRequests
<1>3. /\ r.ns \in Namespaces /\ r.who \in People /\ r.role \in MemberRoles
      /\ r.project \in Projects \cup {Nobody}
  BY <1>1, <1>2 DEF LiveRequest, WellFormed, Requests
<1>4. /\ new \in InviteRows /\ new.status = "pending" /\ new.ns = r.ns
      /\ new.project = r.project /\ new.to = r.who /\ new.role = r.role
  BY <1>3 DEF InviteRows
<1> HIDE DEF new
<1>5. \A k \in Invitations : invite'[k] = IF k = i THEN new ELSE invite[k]
  BY <1>1 DEF CollaborationTypeOK
<1>6. TablesOK'
  BY <1>1, <1>4 DEF TablesOK, CollaborationTypeOK
<1>7. IssuedInvitations' /\ InvitesStay
  BY <1>1, <1>3, <1>4, <1>5 DEF IssuedInvitations, InvitesStay
<1>8. InvitationConfersOnce'
  BY <1>1, <1>4, <1>5 DEF InvitationConfersOnce
<1>9. GrantsFollowProject' /\ WritesOnlyIn(s)
  BY <1>1, <1>4, <1>5 DEF GrantsFollowProject, WritesOnlyIn
<1> QED
  BY <1>1, <1>6, <1>7, <1>8, <1>9, WriteKeeps

\* An answer to a pending invitation: accepted confers, revoked does not.
LEMMA AnswerKeeps ==
    ASSUME CollaborationInv, NEW i \in Invitations, NEW status \in {"accepted", "revoked"},
           invite[i].status = "pending", Answer(i, status),
           conferred' = IF status = "accepted" THEN [conferred EXCEPT ![i] = @ + 1] ELSE conferred
    PROVE  /\ invite' \in [Invitations -> InviteRows] /\ conferred' \in [Invitations -> Nat]
           /\ IssuedInvitations' /\ InvitesStay /\ InvitationConfersOnce'
           /\ \A k \in Invitations :
                 invite'[k].ns = invite[k].ns /\ invite'[k].project = invite[k].project
<1> USE DEF CollaborationInv
<1> DEFINE new == [invite[i] EXCEPT !.status = status]
<1>1. invite \in [Invitations -> InviteRows] /\ conferred \in [Invitations -> Nat]
  BY DEF CollaborationTypeOK
<1>2. invite' = [invite EXCEPT ![i] = new]
  BY DEF Answer
<1>3. /\ new \in InviteRows /\ new.status = status /\ new.ns = invite[i].ns
      /\ new.project = invite[i].project /\ new.to = invite[i].to /\ new.role = invite[i].role
  BY <1>1, AnsweredRow
<1> HIDE DEF new
<1>4. \A k \in Invitations : invite'[k] = IF k = i THEN new ELSE invite[k]
  BY <1>1, <1>2
<1>5. \A k \in Invitations :
          invite'[k].ns = invite[k].ns /\ invite'[k].project = invite[k].project
  BY <1>3, <1>4
<1>6. IssuedInvitations' /\ InvitesStay
  BY <1>3, <1>4 DEF IssuedInvitations, InvitesStay
<1>7. conferred' \in [Invitations -> Nat] /\ conferred[i] = 0
  BY <1>1 DEF InvitationConfersOnce
<1>8. \A k \in Invitations :
          conferred'[k] = IF k = i /\ status = "accepted" THEN 1 ELSE conferred[k]
  BY <1>1, <1>7
<1>9. InvitationConfersOnce'
  BY <1>3, <1>4, <1>7, <1>8 DEF InvitationConfersOnce
<1> QED
  BY <1>1, <1>2, <1>3, <1>5, <1>6, <1>7, <1>9

LEMMA WithdrawWrites ==
    ASSUME CollaborationInv, NEW s \in Servers, Withdraw(s) PROVE CollaborationInv'
<1> USE DEF CollaborationInv
<1> DEFINE i == request[s].invitation
<1>1. /\ stage[s] = "checked" /\ EndRequest(s)
      /\ request[s].kind \in {"decline", "revoke invitation"}
      /\ invite[i].status = "pending" /\ Answer(i, "revoked")
      /\ UNCHANGED <<member, grant, home, conferred>>
  BY DEF Withdraw, Writes
<1>2. i \in Invitations
  BY <1>1 DEF LiveRequests, LiveRequest, WellFormed
<1>3. /\ invite' \in [Invitations -> InviteRows] /\ conferred' \in [Invitations -> Nat]
      /\ IssuedInvitations' /\ InvitesStay /\ InvitationConfersOnce'
      /\ \A k \in Invitations :
            invite'[k].ns = invite[k].ns /\ invite'[k].project = invite[k].project
  BY <1>1, <1>2, AnswerKeeps
<1>4. TablesOK' /\ WritesOnlyIn(s)
  BY <1>1, <1>3 DEF TablesOK, WritesOnlyIn, CollaborationTypeOK
<1>5. GrantsFollowProject'
  BY <1>1, <1>3 DEF GrantsFollowProject
<1> QED
  BY <1>1, <1>3, <1>4, <1>5, WriteKeeps

LEMMA AcceptWrites ==
    ASSUME CollaborationInv, NEW s \in Servers, Accept(s) PROVE CollaborationInv'
<1> USE DEF CollaborationInv
<1> DEFINE r == request[s]
           i == r.invitation
           n == invite[i].ns
           j == invite[i].project
<1>1. /\ stage[s] = "checked" /\ EndRequest(s) /\ r.kind = "accept"
      /\ invite[i].status = "pending" /\ Answer(i, "accepted")
      /\ conferred' = [conferred EXCEPT ![i] = @ + 1] /\ UNCHANGED home
  BY DEF Accept, Writes, StillPending
<1>2. LiveRequest(s)
  BY <1>1 DEF LiveRequests
<1>3. i \in Invitations /\ r.who \in People /\ n = r.ns /\ n \in Namespaces
  BY <1>1, <1>2 DEF LiveRequest, WellFormed
<1>4. /\ invite' \in [Invitations -> InviteRows] /\ conferred' \in [Invitations -> Nat]
      /\ IssuedInvitations' /\ InvitesStay /\ InvitationConfersOnce'
      /\ \A k \in Invitations :
            invite'[k].ns = invite[k].ns /\ invite'[k].project = invite[k].project
  BY <1>1, <1>3, AnswerKeeps
<1>5. r.who \in Principals /\ n \in LocksOf(r)
  BY <1>1, <1>3 DEF Principals, LocksOf
<1>6. /\ member \in [Namespaces -> [Principals -> MemberRows]]
      /\ grant \in [Projects -> [Principals -> GrantRows]]
      /\ home \in [Projects -> Namespaces]
  BY DEF CollaborationTypeOK
<1>7. CASE j = Nobody
  <2> DEFINE row == [role |-> invite[i].role, active |-> TRUE]
  <2>1. UNCHANGED grant /\ member' = [member EXCEPT ![n][r.who] = row]
    BY <1>7 DEF Accept, SetMember
  <2>2. row \in MemberRows
    BY <1>1, <1>3 DEF IssuedInvitations, MemberRows
  <2> HIDE DEF row
  <2>3. [member[n] EXCEPT ![r.who] = row] \in [Principals -> MemberRows]
    BY <2>2, <1>3, <1>5, <1>6
  <2>4. member' = [member EXCEPT ![n] = [member[n] EXCEPT ![r.who] = row]]
    BY <2>1, <1>3, <1>6
  <2>5. WritesOnlyIn(s)
    BY <2>4, <1>3, <1>5, <1>6 DEF WritesOnlyIn
  <2>6. TablesOK'
    BY <2>1, <2>3, <2>4, <1>1, <1>3, <1>4, <1>6 DEF TablesOK
  <2>7. GrantsFollowProject'
    BY <2>1, <1>1, <1>4 DEF GrantsFollowProject
  <2> QED
    BY <2>5, <2>6, <2>7, <1>1, <1>4, WriteKeeps
<1>8. CASE j # Nobody
  <2> DEFINE row == [ns |-> n, active |-> TRUE]
  <2>1. /\ UNCHANGED member /\ grant' = [grant EXCEPT ![j][r.who] = row]
        /\ home[j] = n
    BY <1>8 DEF Accept, SetGrant, InNamespace
  <2>2. j \in Projects
    BY <1>8, <1>3 DEF CollaborationTypeOK, InviteRows
  <2>3. row \in GrantRows /\ row.ns = n
    BY <1>3 DEF GrantRows
  <2> HIDE DEF row
  <2>4. /\ grant' \in [Projects -> [Principals -> GrantRows]]
        /\ \A k \in Projects, p \in Principals :
              grant'[k][p] = IF k = j /\ p = r.who THEN row ELSE grant[k][p]
    BY <2>1, <2>2, <2>3, <1>5, <1>6
  <2>5. TablesOK' /\ WritesOnlyIn(s)
    BY <2>1, <2>4, <1>1, <1>4, <1>6 DEF TablesOK, WritesOnlyIn
  <2>6. GrantsFollowProject'
    <3>1. ASSUME NEW k \in Projects, NEW p \in Principals, grant'[k][p] # NoGrant
          PROVE  grant'[k][p].ns = home[k]
      <4>1. CASE k = j /\ p = r.who
        BY <4>1, <2>1, <2>3, <2>4
      <4>2. CASE ~(k = j /\ p = r.who)
        <5>1. grant'[k][p] = grant[k][p]
          BY <4>2, <2>4
        <5> QED
          BY <5>1, <3>1 DEF GrantsFollowProject
      <4> QED
        BY <4>1, <4>2
    <3> QED
      BY <3>1, <1>1, <1>4 DEF GrantsFollowProject
  <2> QED
    BY <2>5, <2>6, <1>1, <1>4, WriteKeeps
<1> QED
  BY <1>7, <1>8

(***************************************************************************)
(* The invariant.                                                          *)
(***************************************************************************)
LEMMA OtherSteps ==
    ASSUME CollaborationInv,
           \/ \E s \in Servers : AbortRequest(s)
           \/ \E i \in Invitations : Lapse(i)
           \/ UNCHANGED collaborationVars
    PROVE  CollaborationInv'
<1> USE DEF CollaborationInv
<1>1. /\ UNCHANGED <<member, grant, home, invite, conferred>>
      /\ lapsed' \subseteq Invitations
  BY DEF AbortRequest, EndRequest, Lapse, tables, collaborationVars, CollaborationTypeOK
<1>2. /\ IssuedInvitations' /\ InvitesStay /\ GrantsFollowProject' /\ InvitationConfersOnce'
      /\ TablesOK'
  BY <1>1 DEF IssuedInvitations, InvitesStay, GrantsFollowProject, InvitationConfersOnce,
              TablesOK, CollaborationTypeOK
<1>3. ASSUME NEW s \in Servers, AbortRequest(s) PROVE CollaborationInv'
  <2>1. ControlOK
    BY DEF ControlOK, CollaborationTypeOK
  <2>2. /\ ControlOK' /\ LiveRequests' /\ LocksKept'
        /\ \A t \in Servers \ {s} : stage'[t] = stage[t] /\ request'[t] = request[t]
        /\ stage'[s] = "idle"
    BY <2>1, <1>2, <1>3, RequestEnds DEF AbortRequest
  <2>3. RevocationsSafe'
    BY <2>2, <1>1 DEF RevocationsSafe, OwnerMutationAllowed, IsOwner, Owners
  <2>4. CollaborationTypeOK'
    BY <2>2, <1>1, <1>2 DEF CollaborationTypeOK, ControlOK, TablesOK
  <2> QED
    BY <2>2, <2>3, <2>4, <1>2
<1>4. CASE UNCHANGED <<holder, request, stage>>
  <2>1. CollaborationTypeOK'
    BY <1>1, <1>2, <1>4 DEF CollaborationTypeOK, TablesOK
  <2>2. LiveRequests' /\ RevocationsSafe'
    BY <1>1, <1>4 DEF LiveRequests, LiveRequest, WellFormed, RevocationsSafe,
                      OwnerMutationAllowed, IsOwner, Owners
  <2>3. \A s \in Servers : Held(s)' = Held(s)
    BY <1>4 DEF Held
  <2>4. LocksKept'
    BY <1>4, <2>3 DEF LocksKept
  <2> QED
    BY <2>1, <2>2, <2>4, <1>2
<1> QED
  BY <1>3, <1>4 DEF Lapse, collaborationVars

LEMMA InitCollaboration == CollaborationInit => CollaborationInv
<1> SUFFICES ASSUME CollaborationInit PROVE CollaborationInv
  OBVIOUS
<1>1. NoMember \in MemberRows /\ NoGrant \in GrantRows /\ Unissued \in InviteRows
      /\ [role |-> "owner", active |-> TRUE] \in MemberRows
  BY DEF NoMember, NoGrant, Unissued, MemberRows, GrantRows, InviteRows
<1>2. CollaborationTypeOK
  <2>1. /\ member \in [Namespaces -> [Principals -> MemberRows]]
        /\ grant \in [Projects -> [Principals -> GrantRows]]
        /\ home \in [Projects -> Namespaces]
        /\ invite \in [Invitations -> InviteRows]
    BY <1>1, CollaborationAssumption DEF CollaborationInit
  <2>2. /\ lapsed \subseteq Invitations
        /\ holder \in [Namespaces -> Servers \cup {Nobody}]
        /\ \A n \in Namespaces : holder[n] # Nobody => stage[holder[n]] # "idle"
        /\ request \in [Servers -> Requests \cup {Nobody}]
        /\ stage \in [Servers -> {"idle", "locking", "checked"}]
        /\ conferred \in [Invitations -> Nat]
    BY DEF CollaborationInit
  <2> QED
    BY <2>1, <2>2 DEF CollaborationTypeOK
<1>3. \A s \in Servers : stage[s] = "idle"
  BY DEF CollaborationInit
<1>4. LiveRequests /\ LocksKept /\ RevocationsSafe
  BY <1>3 DEF LiveRequests, LocksKept, RevocationsSafe
<1>5. \A i \in Invitations : invite[i].status = "unissued" /\ invite[i].project = Nobody
  BY DEF CollaborationInit, Unissued
<1>6. IssuedInvitations /\ InvitationConfersOnce
  BY <1>5 DEF IssuedInvitations, InvitationConfersOnce, CollaborationInit
<1>7. GrantsFollowProject
  BY <1>5 DEF GrantsFollowProject, CollaborationInit
<1> QED
  BY <1>2, <1>4, <1>6, <1>7 DEF CollaborationInv

\* No step of any request leaves CollaborationInv.
LEMMA NextCollaboration ==
    ASSUME CollaborationInv, [CollaborationNext]_collaborationVars PROVE CollaborationInv'
<1>1. ASSUME NEW s \in Servers, \/ \E r \in Submissions : Submit(s, r)
                                \/ \E n \in Namespaces : Acquire(s, n)
                                \/ Check(s)
      PROVE  CollaborationInv'
  BY <1>1, ControlSteps
<1>2. ASSUME NEW s \in Servers, UpsertMember(s) \/ RevokeMember(s) \/ TransferOwnership(s)
      PROVE  CollaborationInv'
  BY <1>2, MemberWrites
<1>3. ASSUME NEW s \in Servers, Grant(s) \/ IssueCredential(s) \/ RevokeGrant(s)
      PROVE  CollaborationInv'
  BY <1>3, GrantWrites
<1>4. ASSUME NEW s \in Servers, TransferProject(s) PROVE CollaborationInv'
  BY <1>4, ProjectMoves
<1>5. ASSUME NEW s \in Servers, NEW i \in Invitations, Invite(s, i) PROVE CollaborationInv'
  BY <1>5, InviteWrites
<1>6. ASSUME NEW s \in Servers, Accept(s) PROVE CollaborationInv'
  BY <1>6, AcceptWrites
<1>7. ASSUME NEW s \in Servers, Withdraw(s) PROVE CollaborationInv'
  BY <1>7, WithdrawWrites
<1> QED
  BY <1>1, <1>2, <1>3, <1>4, <1>5, <1>6, <1>7, OtherSteps DEF CollaborationNext

\* Memberships, grants, invitations, locks and requests have their types: nothing
\* is held by an execution that has ended.
THEOREM CollaborationTypes == CollaborationSpec => []CollaborationTypeOK
<1>1. CollaborationInv => CollaborationTypeOK
  BY DEF CollaborationInv
<1> QED
  BY <1>1, InitCollaboration, NextCollaboration, PTL DEF CollaborationSpec

\* What a grant or an invitation says of its project's namespace stays true when
\* projects move at any time.
THEOREM GrantsFollow == CollaborationSpec => []GrantsFollowProject
<1>1. CollaborationInv => GrantsFollowProject
  BY DEF CollaborationInv
<1> QED
  BY <1>1, InitCollaboration, NextCollaboration, PTL DEF CollaborationSpec

\* However answers to an invitation race, it confers authority once, if accepted.
THEOREM ConfersOnce == CollaborationSpec => []InvitationConfersOnce
<1>1. CollaborationInv => InvitationConfersOnce
  BY DEF CollaborationInv
<1> QED
  BY <1>1, InitCollaboration, NextCollaboration, PTL DEF CollaborationSpec

\* Requests that lock two namespaces cannot wait for each other, whatever the ids:
\* each holds a smaller one than it waits for.
THEOREM NoCycle == CollaborationSpec => []NoLockCycle
<1>1. CollaborationInv => NoLockCycle
  <2> SUFFICES ASSUME CollaborationInv,
                      NEW s \in Servers, NEW t \in Servers,
                      NEW m \in Namespaces, NEW n \in Namespaces,
                      Awaits(s, n), holder[n] = t, Awaits(t, m), holder[m] = s
               PROVE  FALSE
    BY DEF NoLockCycle
  <2>1. /\ stage[s] = "locking" /\ n \in LocksOf(request[s]) \ Held(s)
        /\ stage[t] = "locking" /\ m \in LocksOf(request[t]) \ Held(t)
        /\ m \in Held(s) /\ n \in Held(t)
    BY DEF Awaits, Held
  <2>2. Rank[m] <= Rank[n] /\ Rank[n] <= Rank[m]
    BY <2>1 DEF CollaborationInv, LocksKept
  <2>3. m = n
    BY <2>2, CollaborationAssumption
  <2> QED
    BY <2>1, <2>3
<1> QED
  BY <1>1, InitCollaboration, NextCollaboration, PTL DEF CollaborationSpec

(***************************************************************************)
(* Owners.                                                                 *)
(***************************************************************************)
\* What one write does to the owners of each namespace.
LEMMA OwnerSteps ==
    ASSUME CollaborationInv, CollaborationNext, NEW n \in Namespaces
    PROVE  \/ Owners(n)' = Owners(n)
           \/ \E p \in Owners(n), q \in People : Owners(n)' = (Owners(n) \ {p}) \cup {q}
           \/ \E s \in Servers :
                 /\ stage[s] = "checked" /\ request[s].ns = n
                 /\ request[s].kind \in {"upsert member", "accept", "revoke member"}
                 /\ Owners(n)' = Owners(n) \ {request[s].who}
<1> USE DEF CollaborationInv
<1>1. CASE member' = member
  BY <1>1 DEF Owners, IsOwner
<1>2. member \in [Namespaces -> [Principals -> MemberRows]]
  BY DEF CollaborationTypeOK
<1>3. ASSUME NEW s \in Servers, NEW k \in Namespaces, NEW p \in Principals, NEW row,
             member' = [member EXCEPT ![k][p] = row],
             row # [role |-> "owner", active |-> TRUE]
      PROVE  Owners(n)' = IF n = k THEN Owners(n) \ {p} ELSE Owners(n)
  BY <1>2, <1>3 DEF Owners, IsOwner, Principals
<1>4. ASSUME NEW s \in Servers, UpsertMember(s) \/ RevokeMember(s) \/ Accept(s)
      PROVE  \/ Owners(n)' = Owners(n)
             \/ /\ stage[s] = "checked" /\ request[s].ns = n
                /\ request[s].kind \in {"upsert member", "accept", "revoke member"}
                /\ Owners(n)' = Owners(n) \ {request[s].who}
  <2> DEFINE r == request[s]
  <2>1. /\ stage[s] = "checked" /\ LiveRequest(s)
        /\ r.kind \in {"upsert member", "accept", "revoke member"}
    BY <1>4 DEF UpsertMember, RevokeMember, Accept, Writes, LiveRequests
  <2>2. r.ns \in Namespaces /\ r.who \in Principals
    BY <2>1 DEF LiveRequest, WellFormed, Principals
  <2>3. CASE member' # member
    <3>1. PICK row : /\ member' = [member EXCEPT ![r.ns][r.who] = row]
                     /\ row # [role |-> "owner", active |-> TRUE]
      <4>1. CASE UpsertMember(s)
        <5>1. r.role # "owner"
          BY <4>1, <2>1, CollaborationAssumption
             DEF UpsertMember, Writes, LiveRequest, WellFormed
        <5>2. member' = [member EXCEPT ![r.ns][r.who] = [role |-> r.role, active |-> TRUE]]
          BY <4>1 DEF UpsertMember, SetMember
        <5>3. [role |-> r.role, active |-> TRUE] # [role |-> "owner", active |-> TRUE]
          BY <5>1
        <5> QED
          BY <5>2, <5>3
      <4>2. CASE RevokeMember(s)
        <5>1. [member[r.ns][r.who] EXCEPT !.active = FALSE] # [role |-> "owner", active |-> TRUE]
          <6>1. member[r.ns][r.who] \in MemberRows
            BY <2>2, <1>2
          <6>2. [member[r.ns][r.who] EXCEPT !.active = FALSE].active = FALSE
            BY <6>1 DEF MemberRows
          <6> QED
            BY <6>2
        <5>2. member' = [member EXCEPT ![r.ns][r.who] =
                            [member[r.ns][r.who] EXCEPT !.active = FALSE]]
          BY <4>2 DEF RevokeMember, SetMember
        <5> QED
          BY <5>1, <5>2
      <4>3. CASE Accept(s)
        <5>1. /\ r.invitation \in Invitations /\ invite[r.invitation].status = "pending"
              /\ invite[r.invitation].ns = r.ns
          BY <4>3, <2>1 DEF Accept, Writes, StillPending, LiveRequest, WellFormed
        <5>2. invite[r.invitation].role # "owner"
          BY <5>1, CollaborationAssumption DEF IssuedInvitations
        <5>3. member' = [member EXCEPT ![r.ns][r.who] =
                            [role |-> invite[r.invitation].role, active |-> TRUE]]
          BY <4>3, <2>3, <5>1 DEF Accept, SetMember
        <5>4. [role |-> invite[r.invitation].role, active |-> TRUE]
                # [role |-> "owner", active |-> TRUE]
          BY <5>2
        <5> QED
          BY <5>3, <5>4
      <4> QED
        BY <1>4, <4>1, <4>2, <4>3
    <3> QED
      BY <3>1, <2>1, <2>2, <1>3
  <2>4. CASE member' = member
    BY <2>4, <1>1 DEF Owners, IsOwner
  <2> QED
    BY <2>3, <2>4
<1>5. ASSUME NEW s \in Servers, TransferOwnership(s)
      PROVE  \/ Owners(n)' = Owners(n)
             \/ \E p \in Owners(n), q \in People : Owners(n)' = (Owners(n) \ {p}) \cup {q}
  <2> DEFINE r == request[s]
  <2>1. /\ stage[s] = "checked" /\ LiveRequest(s) /\ r.kind = "transfer ownership"
        /\ MayTransferOwnership(r.ns, r.owner, r.who)
        /\ member' = [member EXCEPT ![r.ns] =
                        [@ EXCEPT ![r.owner] = [role |-> "admin", active |-> TRUE],
                                  ![r.who] = [role |-> "owner", active |-> TRUE]]]
    BY <1>5 DEF TransferOwnership, Writes, LiveRequests
  <2>2. /\ r.ns \in Namespaces /\ r.owner \in Owners(r.ns) /\ r.who \in People
        /\ r.owner # r.who
    BY <2>1 DEF LiveRequest, MayTransferOwnership, Owners
  <2>3. CASE n # r.ns
    BY <2>1, <2>3, <1>2 DEF Owners, IsOwner
  <2>4. CASE n = r.ns
    <3>1. \A p \in Principals :
             member'[n][p] = IF p = r.who THEN [role |-> "owner", active |-> TRUE]
                             ELSE IF p = r.owner THEN [role |-> "admin", active |-> TRUE]
                             ELSE member[n][p]
      BY <2>1, <2>2, <2>4, <1>2 DEF Principals, Owners
    <3>2. [role |-> "admin", active |-> TRUE] # [role |-> "owner", active |-> TRUE]
      OBVIOUS
    <3>3. Owners(n)' = (Owners(n) \ {r.owner}) \cup {r.who}
      BY <2>2, <3>1, <3>2 DEF Owners, IsOwner, Principals
    <3> QED
      BY <2>2, <2>4, <3>3
  <2> QED
    BY <2>3, <2>4
<1>6. \/ member' = member
      \/ \E s \in Servers : \/ UpsertMember(s) \/ RevokeMember(s) \/ Accept(s)
                            \/ TransferOwnership(s)
  BY DEF CollaborationNext, Submit, Acquire, Check, Grant, IssueCredential, RevokeGrant,
         TransferProject, Invite, Withdraw, AbortRequest, Lapse, tables
<1> QED
  BY <1>1, <1>4, <1>5, <1>6 DEF Owners, IsOwner

\* Ownership passes from one person to another and is given by nothing else.
THEOREM OwnershipHandedOver == CollaborationSpec => OwnershipIsHandedOver
<1>1. ASSUME CollaborationInv, [CollaborationNext]_collaborationVars
      PROVE  [\A n \in Namespaces :
                 Owners(n)' \subseteq Owners(n)
                 \/ \E p \in Owners(n), q \in People :
                       Owners(n)' = (Owners(n) \ {p}) \cup {q}]_member
  <2>1. CASE UNCHANGED collaborationVars
    BY <2>1 DEF collaborationVars
  <2>2. CASE CollaborationNext
    BY <1>1, <2>2, OwnerSteps
  <2> QED
    BY <1>1, <2>1, <2>2
<1> QED
  BY <1>1, InitCollaboration, NextCollaboration, PTL DEF CollaborationSpec, OwnershipIsHandedOver

\* A revocation that was checked under the lock of the namespace never takes its
\* last owner; neither does a transfer of ownership.
THEOREM LastOwnerOnlyByUpsert == CollaborationSpec => OwnerLostOnlyByUpsert
<1>1. ASSUME CollaborationInv, [CollaborationNext]_collaborationVars
      PROVE  [\A n \in Namespaces :
                 Owners(n) # {} /\ Owners(n)' = {}
                 => \E s \in Servers : /\ stage[s] = "checked"
                                       /\ request[s].kind \in {"upsert member", "accept"}
                                       /\ request[s].ns = n /\ request[s].who \in Owners(n)]_member
  <2>1. CASE UNCHANGED collaborationVars
    BY <2>1 DEF collaborationVars
  <2>2. ASSUME CollaborationNext, NEW n \in Namespaces, Owners(n) # {}, Owners(n)' = {}
        PROVE  \E s \in Servers : /\ stage[s] = "checked"
                                  /\ request[s].kind \in {"upsert member", "accept"}
                                  /\ request[s].ns = n
                                  /\ request[s].who \in Owners(n)
    <3>1. PICK s \in Servers : /\ stage[s] = "checked" /\ request[s].ns = n
                               /\ request[s].kind \in {"upsert member", "accept", "revoke member"}
                               /\ Owners(n)' = Owners(n) \ {request[s].who}
      BY <1>1, <2>2, OwnerSteps
    <3>2. Owners(n) = {request[s].who}
      BY <2>2, <3>1
    <3>3. request[s].kind # "revoke member"
      <4>1. Cardinality(Owners(n)) = 1
        BY <3>2, FS_Singleton
      <4>2. IsOwner(n, request[s].who)
        BY <3>2 DEF Owners
      <4>3. request[s].kind = "revoke member" => Cardinality(Owners(n)) > 1
        BY <1>1, <3>1, <4>2 DEF CollaborationInv, RevocationsSafe, OwnerMutationAllowed
      <4>4. \A c : c = 1 => ~(c > 1)
        OBVIOUS
      <4> QED
        BY <4>1, <4>3, <4>4
    <3> QED
      BY <3>1, <3>2, <3>3
  <2> QED
    BY <1>1, <2>1, <2>2
<1> QED
  BY <1>1, InitCollaboration, NextCollaboration, PTL DEF CollaborationSpec, OwnerLostOnlyByUpsert
===============================================================================
