-------------------------- MODULE MCRepositoryServices --------------------------
(***************************************************************************)
(* The services beside the transition control plane, each on a small       *)
(* instance of its own. They share no state, so their interleavings would  *)
(* add nothing: a behaviour chooses one of them and runs it from its       *)
(* initial state.                                                          *)
(***************************************************************************)
EXTENDS MCBranchRegistry, MCEventStream, MCCollaboration, WorkspaceFeed,
        MCPullRequests, MCSemanticMerge

CONSTANTS v1, v2

VARIABLE focus      \* the service a behaviour is about

Traffic == [memberships |-> MemberTraffic, projects |-> ProjectTraffic]
AllTraffic == MemberTraffic \cup ProjectTraffic

\* The requests of a behaviour about memberships or about projects.
OfTraffic(requests) ==
    \A s \in Servers :
        request[s] = Nobody /\ request'[s] # Nobody
        => \E r \in requests : request'[s] = Resolved(r)

ServicesInit ==
    /\ focus \in {"branches", "events", "page", "pulls", "drafts", "merges"}
                \cup DOMAIN Traffic
    /\ Init
    /\ StreamInit
    /\ CollaborationInit
    /\ FeedInit
    /\ PullsInit
    /\ MergeInit
    /\ focus # "page" => view = v1

ServicesNext ==
    /\ \/ /\ focus = "branches"
          /\ Next
          /\ UNCHANGED <<streamVars, collaborationVars, feedVars, pullVars, mergeVars>>
       \/ /\ focus = "events"
          /\ StreamNext
          /\ StreamTraffic'
          /\ UNCHANGED <<vars, collaborationVars, feedVars, pullVars, mergeVars>>
       \/ /\ focus \in DOMAIN Traffic
          /\ CollaborationNext
          /\ OfTraffic(Traffic[focus])
          /\ UNCHANGED <<vars, streamVars, feedVars, pullVars, mergeVars>>
       \/ /\ focus = "page"
          /\ FeedNext
          /\ UNCHANGED <<vars, streamVars, collaborationVars, pullVars, mergeVars>>
       \/ /\ focus \in {"pulls", "drafts"}
          /\ PullsNext
          /\ IF focus = "pulls" THEN PullTraffic' ELSE DraftTraffic'
          /\ UNCHANGED <<vars, streamVars, collaborationVars, feedVars, mergeVars>>
       \/ /\ focus = "merges"
          /\ MergeNext
          /\ UNCHANGED <<vars, streamVars, collaborationVars, feedVars, pullVars>>
    /\ UNCHANGED focus

servicesVars ==
    <<focus, vars, streamVars, collaborationVars, feedVars, pullVars, mergeVars>>

ServicesSpec == ServicesInit /\ [][ServicesNext]_servicesVars

\* The type invariants of the services, with what they say beyond types: locks
\* and switches belong to the executions that are under way, a room counts its
\* listeners, a pull request is merged exactly if it names the merge commit.
ServicesTypeOK ==
    /\ focus = "branches" => TypeOK
    /\ focus = "events" => StreamTypeOK
    /\ focus \in DOMAIN Traffic => CollaborationTypeOK
    /\ focus = "page" => FeedTypeOK
    /\ focus \in {"pulls", "drafts"} => PullsTypeOK
    /\ focus = "merges" => MergeTypeOK
===============================================================================
