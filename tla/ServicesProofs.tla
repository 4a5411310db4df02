----------------------------- MODULE ServicesProofs -----------------------------
(***************************************************************************)
(* The services beside the transition control plane together. A behaviour  *)
(* of ServicesSpec is a behaviour of each service, most of which it only   *)
(* lets stutter: what is proved of a service holds of it.                  *)
(***************************************************************************)
EXTENDS MCRepositoryServices, RepositoryServicesProofs, CollaborationProofs,
        PullRequestProofs, SemanticMergeProofs

\* A step of the services is a step of each service, or leaves it alone.
LEMMA ServicesRunEach ==
    ServicesSpec => /\ Spec
                    /\ StreamSpec
                    /\ CollaborationSpec
                    /\ FeedSpec
                    /\ PullsSpec
                    /\ MergeSpec
<1>1. ServicesInit => /\ Init
                      /\ StreamInit
                      /\ CollaborationInit
                      /\ FeedInit
                      /\ PullsInit
                      /\ MergeInit
  BY DEF ServicesInit
<1>2. [ServicesNext]_servicesVars => /\ [Next]_vars
                                     /\ [StreamNext]_streamVars
                                     /\ [CollaborationNext]_collaborationVars
                                     /\ [FeedNext]_feedVars
                                     /\ [PullsNext]_pullVars
                                     /\ [MergeNext]_mergeVars
  BY DEF ServicesNext, servicesVars
<1> QED
  BY <1>1, <1>2, PTL
  DEF ServicesSpec, Spec, StreamSpec, CollaborationSpec, FeedSpec, PullsSpec, MergeSpec

\* Every service keeps the types of its state, with what they say of locks, switches,
\* listeners and merge commits.
THEOREM ServicesTypes == ServicesSpec => []ServicesTypeOK
<1>1. /\ TypeOK /\ HasCurrent
      /\ StreamTypeOK
      /\ CollaborationTypeOK
      /\ FeedTypeOK
      /\ PullsTypeOK
      /\ MergeTypeOK
      => ServicesTypeOK
  BY DEF ServicesTypeOK
<1> QED
  BY <1>1, ServicesRunEach, AlwaysCurrent, StreamType, CollaborationTypes, FeedType, PullTypes,
     MergeTypes, PTL

\* What each service promises holds when they run together: one branch is current, a
\* connection gets every event once, invitations, grants and owners are kept, a page
\* never goes back, pull requests merge what was reviewed, and merges are three-way
\* (switchBranch, RoomManager, acceptStoredInvitation, useProjectWorkspaces,
\* the merge route of pull requests, executeMerge).
THEOREM ServicesPromises ==
    ServicesSpec =>
        /\ [](HasCurrent /\ SwitchesKeepOneCurrent)
        /\ [](NoGapOnConnection /\ DeliveredOnce)
        /\ [](InvitationConfersOnce /\ GrantsFollowProject /\ NoLockCycle)
        /\ OwnershipIsHandedOver /\ OwnerLostOnlyByUpsert
        /\ []RestingPageHasHeard /\ ShownNeverOlder
        /\ [](MergedAsReviewed /\ ExecutedDecisionRecorded /\ PreparedForSnapshot)
        /\ FinishedIsFinal
        /\ [](MergeTakesEachChange /\ SidesAreInterchangeable /\ PathsStayUnique)
<1>1. ServicesSpec => [](HasCurrent /\ SwitchesKeepOneCurrent)
  BY ServicesRunEach, AlwaysCurrent, OneCurrent, PTL
<1>2. ServicesSpec => [](NoGapOnConnection /\ DeliveredOnce)
  BY ServicesRunEach, ReplayMeetsLive, EventsDeliveredOnce, PTL
<1>3. ServicesSpec => [](InvitationConfersOnce /\ GrantsFollowProject /\ NoLockCycle)
  BY ServicesRunEach, ConfersOnce, GrantsFollow, NoCycle, PTL
<1>4. ServicesSpec => OwnershipIsHandedOver /\ OwnerLostOnlyByUpsert
  BY ServicesRunEach, OwnershipHandedOver, LastOwnerOnlyByUpsert
<1>5. ServicesSpec => []RestingPageHasHeard /\ ShownNeverOlder
  BY ServicesRunEach, RestingPagesHaveHeard, PagesGoForward
<1>6. ServicesSpec => [](MergedAsReviewed /\ ExecutedDecisionRecorded /\ PreparedForSnapshot)
  BY ServicesRunEach, MergesAreReviewed, DecisionsRecorded, DraftsMatchSnapshots, PTL
<1>7. ServicesSpec => FinishedIsFinal
  BY ServicesRunEach, FinishedStays
<1>8. ServicesSpec => [](MergeTakesEachChange /\ SidesAreInterchangeable /\ PathsStayUnique)
  BY ServicesRunEach, MergeIsThreeWay, SidesInterchange, OneNodePerPath, PTL
<1> QED
  BY <1>1, <1>2, <1>3, <1>4, <1>5, <1>6, <1>7, <1>8
=================================================================================
