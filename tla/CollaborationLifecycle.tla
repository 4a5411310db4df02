------------------------ MODULE CollaborationLifecycle ------------------------
(***************************************************************************)
(* Who belongs to a namespace and to its projects: memberships, project    *)
(* grants, invitations and the transfer of ownership and of projects       *)
(* (routes/collaboration-commands.openapi.ts,                              *)
(* routes/collaboration-invitations.openapi.ts,                            *)
(* queries/collaboration-lifecycle.ts).                                    *)
(*                                                                         *)
(* A request reads what names its locks, takes the lock of each namespace, *)
(* checks what it reads under the locks, and writes. A step is one of      *)
(* these; a refusal and a lost connection both roll back (AbortRequest).   *)
(* The row locks are left out: every request that takes one holds the      *)
(* namespace lock. The authority of the actor is taken for granted, except *)
(* that only an owner transfers ownership and only the recipient answers.  *)
(***************************************************************************)
EXTENDS Naturals, FiniteSets

CONSTANTS
    Namespaces, Rank,       \* namespaces and the order of their ids
    Projects, Home,         \* projects and the namespaces they start in
    People, Machines,       \* human principals, agents and services
    FirstOwner,             \* the person each namespace was created for
    MemberRoles,            \* roles a request may assign
    Invitations,
    Submissions,            \* the requests that clients send
    Servers,                \* concurrent executions
    Nobody                  \* no namespace, principal, project, ...

Principals == People \cup Machines

Kinds == {"upsert member", "revoke member", "transfer ownership", "grant", "revoke grant",
          "issue credential", "transfer project", "invite", "revoke invitation",
          "accept", "decline"}

\* ns and late are filled in when the request starts.
Requests ==
    [kind: Kinds, ns: Namespaces \cup {Nobody}, to: Namespaces \cup {Nobody},
     project: Projects \cup {Nobody}, who: Principals \cup {Nobody},
     owner: People \cup {Nobody}, role: MemberRoles \cup {Nobody},
     invitation: Invitations \cup {Nobody}, late: BOOLEAN]

\* What each kind of request names (the parameters and bodies of the routes).
WellFormed(r) ==
    /\ r.kind \in {"upsert member", "revoke member", "transfer ownership"}
          => r.project = Nobody /\ r.ns \in Namespaces /\ r.who \in Principals
    /\ r.kind \in {"upsert member", "invite"} => r.role \in MemberRoles
    /\ r.kind \in {"grant", "revoke grant", "issue credential"}
          => r.project \in Projects /\ r.who \in Principals
    /\ r.kind = "transfer project" => r.project \in Projects /\ r.to \in Namespaces
    /\ r.kind = "invite" => r.who \in People /\ (r.project = Nobody => r.ns \in Namespaces)
    /\ r.kind \in {"revoke invitation", "accept", "decline"}
          => r.project = Nobody /\ r.invitation \in Invitations
    /\ r.kind \in {"accept", "decline"} => r.who \in People

ASSUME CollaborationAssumption ==
    /\ Rank \in [Namespaces -> Nat] /\ \A m, n \in Namespaces : Rank[m] = Rank[n] => m = n
    /\ Home \in [Projects -> Namespaces]
    /\ FirstOwner \in [Namespaces -> People]
    /\ People \cap Machines = {}
    /\ "owner" \notin MemberRoles /\ "admin" \in MemberRoles
    /\ Submissions \subseteq Requests /\ \A r \in Submissions : WellFormed(r)
    /\ Nobody \notin Namespaces \cup Projects \cup Principals \cup Invitations
                       \cup MemberRoles \cup Servers

VARIABLES
    member,     \* namespace_memberships: one row per namespace and principal
    grant,      \* project_grants: one row per project and principal
    home,       \* projects.namespace_id
    invite,     \* collaboration_invitations
    lapsed,     \* invitations whose expiry has passed
    holder,     \* the server that holds each namespace lock
    request,    \* the request each server executes
    stage,      \* how far it is
    conferred   \* history: the times each invitation materialized authority

collaborationVars ==
    <<member, grant, home, invite, lapsed, holder, request, stage, conferred>>
tables == <<member, grant, home, invite, conferred>>

NoMember == [role |-> Nobody, active |-> FALSE]
NoGrant == [ns |-> Nobody, active |-> FALSE]
Unissued ==
    [status |-> "unissued", ns |-> Nobody, project |-> Nobody, to |-> Nobody, role |-> Nobody]

MemberRows == [role: MemberRoles \cup {"owner", Nobody}, active: BOOLEAN]
GrantRows == [ns: Namespaces \cup {Nobody}, active: BOOLEAN]
InviteRows ==
    [status: {"unissued", "pending", "accepted", "revoked"}, ns: Namespaces \cup {Nobody},
     project: Projects \cup {Nobody}, to: People \cup {Nobody}, role: MemberRoles \cup {Nobody}]

CollaborationTypeOK ==
    /\ member \in [Namespaces -> [Principals -> MemberRows]]
    /\ grant \in [Projects -> [Principals -> GrantRows]]
    /\ home \in [Projects -> Namespaces]
    /\ invite \in [Invitations -> InviteRows]
    /\ lapsed \subseteq Invitations
    /\ holder \in [Namespaces -> Servers \cup {Nobody}]
    /\ \A n \in Namespaces : holder[n] # Nobody => stage[holder[n]] # "idle"
    /\ request \in [Servers -> Requests \cup {Nobody}]
    /\ stage \in [Servers -> {"idle", "locking", "checked"}]
    /\ conferred \in [Invitations -> Nat]

\* countActiveHumanOwners: only a human can hold the role.
IsOwner(n, p) == member[n][p] = [role |-> "owner", active |-> TRUE]
Owners(n) == {p \in People : IsOwner(n, p)}

\* insertPersonalNamespace gives a namespace its owner.
CollaborationInit ==
    /\ member = [n \in Namespaces |-> [p \in Principals |->
                    IF p = FirstOwner[n] THEN [role |-> "owner", active |-> TRUE]
                    ELSE NoMember]]
    /\ grant = [j \in Projects |-> [p \in Principals |-> NoGrant]]
    /\ home = Home
    /\ invite = [i \in Invitations |-> Unissued]
    /\ lapsed = {}
    /\ holder = [n \in Namespaces |-> Nobody]
    /\ request = [s \in Servers |-> Nobody]
    /\ stage = [s \in Servers |-> "idle"]
    /\ conferred = [i \in Invitations |-> 0]

(***************************************************************************)
(* Starting, locking and ending a request.                                 *)
(***************************************************************************)
\* What the route reads before its transaction: the namespace of the project or
\* of the invitation, and whether the invitation has expired by now.
Resolved(r) ==
    [r EXCEPT !.ns = IF r.project # Nobody THEN home[r.project]
                     ELSE IF r.invitation # Nobody THEN invite[r.invitation].ns
                     ELSE r.ns,
              !.late = r.invitation \in lapsed]

Submit(s, r) ==
    /\ stage[s] = "idle"
    /\ r.invitation # Nobody => invite[r.invitation].status # "unissued"
    /\ r.kind = "transfer ownership" => r.owner \in Owners(r.ns)
    /\ request' = [request EXCEPT ![s] = Resolved(r)]
    /\ stage' = [stage EXCEPT ![s] = "locking"]
    /\ UNCHANGED <<tables, lapsed, holder>>

\* lockNamespace; the insertion of an API key takes no lock.
LocksOf_NotForRevoke(r) ==      \* fault: a revocation does not serialize
    IF r.kind \in {"issue credential", "revoke member"} THEN {}
    ELSE IF r.kind = "transfer project" THEN {r.ns, r.to} ELSE {r.ns}
LocksOf(r) ==
    IF r.kind = "issue credential" THEN {}
    ELSE IF r.kind = "transfer project" THEN {r.ns, r.to} ELSE {r.ns}

Held(s) == {n \in Namespaces : holder[n] = s}

\* A transfer of a project locks both namespaces in the order of their ids.
LocksNext_SourceFirst(r, left, n) == r.ns \in left => n = r.ns    \* fault: unsorted
LocksNext(r, left, n) == \A m \in left : Rank[n] <= Rank[m]

Acquire(s, n) ==
    LET left == LocksOf(request[s]) \ Held(s)
    IN  /\ stage[s] = "locking"
        /\ n \in left
        /\ LocksNext(request[s], left, n)
        /\ holder[n] = Nobody
        /\ holder' = [holder EXCEPT ![n] = s]
        /\ UNCHANGED <<tables, lapsed, request, stage>>

\* The locks of a transaction go with it.
EndRequest_KeepsLocks(s) ==     \* fault: the advisory locks belong to the session
    /\ request' = [request EXCEPT ![s] = Nobody]
    /\ stage' = [stage EXCEPT ![s] = "idle"]
    /\ UNCHANGED <<lapsed, holder>>
EndRequest(s) ==
    /\ holder' = [n \in Namespaces |-> IF holder[n] = s THEN Nobody ELSE holder[n]]
    /\ request' = [request EXCEPT ![s] = Nobody]
    /\ stage' = [stage EXCEPT ![s] = "idle"]
    /\ UNCHANGED lapsed

AbortRequest(s) ==
    /\ stage[s] # "idle"
    /\ EndRequest(s)
    /\ UNCHANGED tables

(***************************************************************************)
(* What a request checks under its locks.                                  *)
(***************************************************************************)
\* assertOwnerMutationAllowed.
OwnerMutationAllowed(n, p) == IsOwner(n, p) => Cardinality(Owners(n)) > 1

\* buildNamespaceOwnershipTransferPlan.
MayTransferOwnership(n, from, to) ==
    /\ from # to
    /\ IsOwner(n, from)
    /\ to \in People /\ member[n][to].active /\ member[n][to].role # "owner"

\* assertInvitationMayBeAccepted, and again the condition of the UPDATE.
StillPending_NotAgain(i, late) == ~late     \* fault: an answered invitation is accepted
StillPending(i, late) == invite[i].status = "pending" /\ ~late

\* Rows of a project that a transfer would leave behind.
CollaborationHistory(j) ==
    (\E p \in Principals : grant[j][p] # NoGrant) \/ (\E i \in Invitations : invite[i].project = j)

Admissible(r) ==
    CASE r.kind = "revoke member" ->
            member[r.ns][r.who].active /\ OwnerMutationAllowed(r.ns, r.who)
      [] r.kind = "transfer ownership" -> MayTransferOwnership(r.ns, r.owner, r.who)
      [] r.kind = "revoke grant" -> grant[r.project][r.who] = [ns |-> r.ns, active |-> TRUE]
      [] r.kind = "transfer project" -> r.ns # r.to /\ ~CollaborationHistory(r.project)
      [] r.kind = "revoke invitation" -> invite[r.invitation].status # "revoked"
      [] r.kind \in {"accept", "decline"} ->
            StillPending(r.invitation, r.late) /\ invite[r.invitation].to = r.who
      [] OTHER -> TRUE

Check(s) ==
    /\ stage[s] = "locking"
    /\ LocksOf(request[s]) \subseteq Held(s)
    /\ Admissible(request[s])
    /\ stage' = [stage EXCEPT ![s] = "checked"]
    /\ UNCHANGED <<tables, lapsed, holder, request>>

(***************************************************************************)
(* The writes.                                                             *)
(***************************************************************************)
Writes(s, kind) == stage[s] = "checked" /\ request[s].kind = kind

SetMember(n, p, row) == member' = [member EXCEPT ![n][p] = row]
SetGrant(j, p, row) == grant' = [grant EXCEPT ![j][p] = row]

\* The composite foreign key from grants and invitations to projects.
InNamespace_NoForeignKey(j, n) == TRUE      \* fault: the schema has no such key
InNamespace(j, n) == home[j] = n

\* upsertNamespaceMembership: the conflict branch replaces role and status.
UpsertMember(s) ==
    LET r == request[s]
    IN  /\ Writes(s, "upsert member")
        /\ SetMember(r.ns, r.who, [role |-> r.role, active |-> TRUE])
        /\ EndRequest(s)
        /\ UNCHANGED <<grant, home, invite, conferred>>

RevokeMember(s) ==
    LET r == request[s]
    IN  /\ Writes(s, "revoke member")
        /\ SetMember(r.ns, r.who, [member[r.ns][r.who] EXCEPT !.active = FALSE])
        /\ EndRequest(s)
        /\ UNCHANGED <<grant, home, invite, conferred>>

\* applyOwnershipTransfer: one UPDATE that must find both rows as planned.
TransferOwnership_KeepsOwner(s) ==  \* fault: the UPDATE covers the target only
    LET r == request[s]
    IN  /\ Writes(s, "transfer ownership")
        /\ MayTransferOwnership(r.ns, r.owner, r.who)
        /\ SetMember(r.ns, r.who, [role |-> "owner", active |-> TRUE])
        /\ EndRequest(s)
        /\ UNCHANGED <<grant, home, invite, conferred>>
TransferOwnership(s) ==
    LET r == request[s]
    IN  /\ Writes(s, "transfer ownership")
        /\ MayTransferOwnership(r.ns, r.owner, r.who)
        /\ member' = [member EXCEPT ![r.ns] =
                        [@ EXCEPT ![r.owner] = [role |-> "admin", active |-> TRUE],
                                  ![r.who] = [role |-> "owner", active |-> TRUE]]]
        /\ EndRequest(s)
        /\ UNCHANGED <<grant, home, invite, conferred>>

\* upsertProjectGrant, and the grant that createApiKey inserts for a machine.
Grant(s) ==
    LET r == request[s]
    IN  /\ Writes(s, "grant")
        /\ InNamespace(r.project, r.ns)
        /\ SetGrant(r.project, r.who, [ns |-> r.ns, active |-> TRUE])
        /\ EndRequest(s)
        /\ UNCHANGED <<member, home, invite, conferred>>

IssueCredential(s) ==
    LET r == request[s]
    IN  /\ Writes(s, "issue credential")
        /\ grant[r.project][r.who] = NoGrant
        /\ InNamespace(r.project, r.ns)
        /\ SetGrant(r.project, r.who, [ns |-> r.ns, active |-> TRUE])
        /\ EndRequest(s)
        /\ UNCHANGED <<member, home, invite, conferred>>

RevokeGrant(s) ==
    LET r == request[s]
    IN  /\ Writes(s, "revoke grant")
        /\ SetGrant(r.project, r.who, [grant[r.project][r.who] EXCEPT !.active = FALSE])
        /\ EndRequest(s)
        /\ UNCHANGED <<member, home, invite, conferred>>

\* applyProjectTransfer: compare-and-swap on the source namespace; the foreign
\* keys refuse to leave rows behind that were written since the check.
TransferProject(s) ==
    LET r == request[s]
    IN  /\ Writes(s, "transfer project")
        /\ home[r.project] = r.ns
        /\ ~CollaborationHistory(r.project)
        /\ home' = [home EXCEPT ![r.project] = r.to]
        /\ EndRequest(s)
        /\ UNCHANGED <<member, grant, invite, conferred>>

\* createInvitation: at most one pending invitation per target and recipient.
Invite(s, i) ==
    LET r == request[s]
    IN  /\ Writes(s, "invite")
        /\ invite[i].status = "unissued"
        /\ r.project # Nobody => InNamespace(r.project, r.ns)
        /\ ~\E k \in Invitations :
               /\ invite[k].status = "pending" /\ invite[k].to = r.who
               /\ invite[k].ns = r.ns /\ invite[k].project = r.project
        /\ invite' = [invite EXCEPT ![i] = [status |-> "pending", ns |-> r.ns,
                                            project |-> r.project, to |-> r.who, role |-> r.role]]
        /\ EndRequest(s)
        /\ UNCHANGED <<member, grant, home, conferred>>

Answer(i, status) == invite' = [invite EXCEPT ![i].status = status]

\* The recipient's membership or grant and the answer are one transaction.
Accept(s) ==
    LET r == request[s]
        i == r.invitation
    IN  /\ Writes(s, "accept")
        /\ StillPending(i, r.late)
        /\ \/ /\ invite[i].project = Nobody
              /\ SetMember(invite[i].ns, r.who, [role |-> invite[i].role, active |-> TRUE])
              /\ UNCHANGED grant
           \/ /\ invite[i].project # Nobody
              /\ InNamespace(invite[i].project, invite[i].ns)
              /\ SetGrant(invite[i].project, r.who, [ns |-> invite[i].ns, active |-> TRUE])
              /\ UNCHANGED member
        /\ Answer(i, "accepted")
        /\ conferred' = [conferred EXCEPT ![i] = @ + 1]
        /\ EndRequest(s)
        /\ UNCHANGED home

\* The recipient declines, or an administrator revokes: revokeInvitation.
Withdraw(s) ==
    /\ Writes(s, "decline") \/ Writes(s, "revoke invitation")
    /\ invite[request[s].invitation].status = "pending"
    /\ Answer(request[s].invitation, "revoked")
    /\ EndRequest(s)
    /\ UNCHANGED <<member, grant, home, conferred>>

\* The expiry of a pending invitation passes. Nothing writes its status.
Lapse(i) ==
    /\ invite[i].status = "pending"
    /\ lapsed' = lapsed \cup {i}
    /\ UNCHANGED <<tables, holder, request, stage>>

CollaborationNext ==
    \/ \E s \in Servers :
          \/ \E r \in Submissions : Submit(s, r)
          \/ \E n \in Namespaces : Acquire(s, n)
          \/ Check(s)
          \/ UpsertMember(s)
          \/ RevokeMember(s)
          \/ TransferOwnership(s)
          \/ Grant(s)
          \/ IssueCredential(s)
          \/ RevokeGrant(s)
          \/ TransferProject(s)
          \/ \E i \in Invitations : Invite(s, i)
          \/ Accept(s)
          \/ Withdraw(s)
          \/ AbortRequest(s)
    \/ \E i \in Invitations : Lapse(i)

CollaborationSpec == CollaborationInit /\ [][CollaborationNext]_collaborationVars

(***************************************************************************)
(* Properties.                                                             *)
(***************************************************************************)
\* namespace-authority-v1.md: invitations "cannot grant owner: the explicit
\* ownership-transfer workflow remains the only ownership path". A person
\* becomes an owner only in a step in which another one hands ownership over,
\* whatever requests run beside it (applyOwnershipTransfer).
OwnershipIsHandedOver ==
    [][\A n \in Namespaces :
          Owners(n)' \subseteq Owners(n)
          \/ \E p \in Owners(n), q \in People : Owners(n)' = (Owners(n) \ {p}) \cup {q}]_member

\* No interleaving of revocations and transfers takes the last owner of a
\* namespace away: if one goes, an upsert or an accepted invitation has given
\* the owner another role (assertOwnerMutationAllowed under lockNamespace).
OwnerLostOnlyByUpsert ==
    [][\A n \in Namespaces :
          Owners(n) # {} /\ Owners(n)' = {}
          => \E s \in Servers : /\ stage[s] = "checked"
                                /\ request[s].kind \in {"upsert member", "accept"}
                                /\ request[s].ns = n /\ request[s].who \in Owners(n)]_member

\* An invitation gives authority exactly once, when it is accepted, and never
\* after it was declined or revoked, however its answers race (acceptInvitation,
\* revokeInvitation).
InvitationConfersOnce ==
    \A i \in Invitations : conferred[i] = IF invite[i].status = "accepted" THEN 1 ELSE 0

\* Grants and invitations of a project name the namespace it is in, also when a
\* transfer commits between the read of the namespace and the write
\* (project_grants_project_namespace_fk, collaboration_invitations_project_namespace_fk).
GrantsFollowProject ==
    /\ \A j \in Projects, p \in Principals :
          grant[j][p] # NoGrant => grant[j][p].ns = home[j]
    /\ \A i \in Invitations :
          invite[i].project # Nobody => invite[i].ns = home[invite[i].project]

\* Two requests never wait for each other's namespace (applyProjectTransfer
\* sorts the ids it locks).
Awaits(s, n) == stage[s] = "locking" /\ n \in LocksOf(request[s]) \ Held(s)
                /\ LocksNext(request[s], LocksOf(request[s]) \ Held(s), n)
NoLockCycle ==
    ~\E s, t \in Servers, m, n \in Namespaces :
        Awaits(s, n) /\ holder[n] = t /\ Awaits(t, m) /\ holder[m] = s

\* assertOwnerMutationAllowed: "A namespace must retain at least one active
\* human owner"; its test: "prevents revoking or demoting the last active human
\* owner".
LastOwnerKept == \A n \in Namespaces : Owners(n) # {}
===============================================================================
