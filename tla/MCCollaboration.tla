---------------------------- MODULE MCCollaboration ----------------------------
(***************************************************************************)
(* Small instances of CollaborationLifecycle.                              *)
(***************************************************************************)
EXTENDS CollaborationLifecycle

CONSTANTS n1, n2, p1, ann, ben, bot, i1, g1, g2

NamespaceOrder == [n \in Namespaces |-> IF n = n1 THEN 1 ELSE 2]
AllInFirst == [j \in Projects |-> n1]
AnnOwns == [n \in Namespaces |-> ann]

Blank ==
    [kind |-> "grant", ns |-> Nobody, to |-> Nobody, project |-> Nobody, who |-> Nobody,
     owner |-> Nobody, role |-> Nobody, invitation |-> Nobody, late |-> FALSE]

OfMember(kind, who) == [Blank EXCEPT !.kind = kind, !.ns = n1, !.who = who]
OfProject(kind, who) == [Blank EXCEPT !.kind = kind, !.project = p1, !.who = who]
OfInvitation(kind) == [Blank EXCEPT !.kind = kind, !.invitation = i1, !.who = ben]

\* ben is added, promoted, demoted and removed, and answers an invitation.
MemberTraffic ==
    {[OfMember("upsert member", p) EXCEPT !.role = "admin"] : p \in {ann, ben}}
    \cup {OfMember("revoke member", p) : p \in {ann, ben}}
    \cup {[OfMember("transfer ownership", ben) EXCEPT !.owner = ann],
          [OfMember("transfer ownership", ann) EXCEPT !.owner = ben],
          [OfMember("invite", ben) EXCEPT !.role = "admin"]}
    \cup {OfInvitation(k) : k \in {"accept", "decline", "revoke invitation"}}

\* The project moves back and forth and takes a guest, a machine and an invitation.
ProjectTraffic ==
    {[OfProject("transfer project", Nobody) EXCEPT !.to = n] : n \in {n1, n2}}
    \cup {OfProject("grant", ben), OfProject("revoke grant", ben),
          OfProject("issue credential", bot), OfInvitation("accept"),
          OfInvitation("revoke invitation"),
          [OfProject("invite", ben) EXCEPT !.role = "admin"]}

\* The last owner is given another role.
Demotion == {[OfMember("upsert member", ann) EXCEPT !.role = "admin"],
             OfMember("revoke member", ann)}
===============================================================================
