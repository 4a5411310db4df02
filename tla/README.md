# A formal model of t3x-core

TLA+ specifications of the concurrent core of t3x-core, the TLC configurations
that model-check them on small instances, and TLAPS proofs of their main
theorems for every size of instance. Paths below are relative to
`src/packages/` unless they start with `src/`.

## 1. The system

t3x-core is a repository for structured knowledge. Content lives in *refs*
(branches) whose heads are content-addressed commits. People and agents edit
private *Drafts* in Workspaces; a Draft is frozen into a *Proposal*, observed by
*Statements* (replay, validation, runner, human confirmation), *decided* under
the acceptance policy of its ref, and *committed* by moving the head of the ref.
Several API processes serve the same PostgreSQL database. They share no memory:
everything they agree on is a transaction, a row lock, a compare-and-swap or a
unique key.

### Inventory

Each row names the state a component keeps, its operations, how it meets the
others, and what would make it correct. *M* = modelled, *P* = partly, *-* = not.

| Component | State | Operations | Interaction and hard behaviour | Correct when | |
| --- | --- | --- | --- | --- | --- |
| Transition control plane (`api/src/lib/transition-control-plane/lifecycle.ts`, `application/src/transition`) | none of its own; drives the tables below | `decideTransition`, `commitTransition`, both retryable | reads before its transactions; races other commits, writers, edits, rebinding; replies lost in crashes | one effect per command, a decision on the live review, no edit lost | M |
| Command receipts (`storage/src/queries/transition-command-receipts.ts`) | receipt per (transition, actor, request id) | find, record | duplicate and retried commands, one id for two commands | a client learns only its own command's result | M |
| Acceptance evaluation (`core/src/transition-decisions`) | none (pure) | `evaluateAcceptance` | its inputs are read by the control plane | replay cannot be waived; acceptance and override exclude each other | M |
| Ref policies (`applicable-policy.ts`, `storage/src/queries/transition-policy-bindings.ts`, rules route) | binding per ref | bind, unbind, "require independent review", overlays | read-then-write of the rules route; binding changes between decision and commit | overlays only restrict; custom policies survive | M |
| Ref ledger (`storage/src/queries/transition-commits.ts`) | head per ref, decisions, authorizations, commits, `branch.advanced` events, YOps consumption | authorize, create commit | compare-and-swap of the head | one authorized chain per ref | P |
| Memberships (`storage/src/queries/transition-memberships.ts`) | Proposals, preparations, statements | propose, attach | append-only, under the review lock | a Proposal never changes | P |
| Workspace authoring and reconciliation (`api/src/lib/workspace-*.ts`, `storage/src/queries/drafts.ts`) | Draft per Workspace: revision, basis, action ledger | publish, edit metadata, reconcile, discard, renew, synchronize | revision swap; commits of other Workspaces move the ref | edits are in the Draft or in one commit | P |
| Repository writers (`api/src/lib/repository-state-transition.ts`) | none of its own | State write, merge | read head and binding, then commit | commit under the binding in force | P |
| Branch registry (`storage/src/queries/branches.ts`) | branches, current flag | insert, ensure main, switch, delete | READ COMMITTED statements of concurrent transactions | one current branch | P |
| YOps log (`storage/src/queries/yops-log.ts`, `api/src/ops/yops-apply.ts`) | log rows active, superseded, consumed | insert, replace, repair, undo, delete, consume | advisory lock shared with commits; ids listed outside the lock | no row both consumed and superseded | - |
| Realtime events (`api/src/lib/event-replay.ts`, `realtime-listener.ts`, `room-manager.ts`, `routes/ws.ts`) | events table, rooms and their bus listeners, sockets | append, notify, fetch, replay, join, leave, clean up | ids out of commit order, replay against live delivery, peers that vanish | no event skipped, none delivered twice by a room | P |
| Collaboration (`storage/src/queries/collaboration-lifecycle.ts`, `api/src/routes/collaboration-*.ts`) | memberships, grants, invitations, homes of projects | upsert, revoke, transfer ownership, grant, invite, answer, move a project | routes read before they lock; locks of two namespaces; an invitation answered twice | one owner at least, rows follow their project, an invitation confers once | M |
| Runs (`storage/src/queries/runs.ts`, `api/src/lib/timeout-checker.ts`, `src/apps/runner`) | run rows; workflows at the runner | create, link, callback, ingest, scan, edit, delete | unconditional updates: late and repeated answers against overlapping scans; restarts | a running run ends, an answer is not overwritten by a later scan | P |
| Merge drafts, pull requests (`api/src/routes/pull-requests.openapi.ts`, `merge.openapi.ts`, `storage/src/queries/merge-drafts.ts`, MCP backend) | pull requests, drafts with decision and revision | open, readiness, close, merge; create, decide, commit, abort, delete | pull-request lock on one side, reads outside transactions on the other; heads move under both | a merge joins what was reviewed, under the recorded decision | P |
| Semantic merge (`core/src/semantic/merge.ts`, `tree.ts`) | none (pure) | prepare, execute | decisions overlap above and below each other; trees are rebuilt from paths | each change is in the outcome once | P |
| List of Workspaces (`src/apps/web/src/hooks/workspaces/useProjectWorkspaces.ts`) | rows shown, token of the last request, events seen | load, hear, refresh, reconnect, switch project | answers out of order, events during a request, reconnection without replay | never an older list, nothing heard is lost | M |
| Webhooks, recipes | none | dispatch | fire-and-forget | (no promise) | - |
| Rate limits | counters | consume | one upsert | | - |
| Transition protocol, YOps engine, YSchema, semantic diff and gates (`transition`, `yops`, `yschema`, `core/src/semantic`) | none (pure) | canonicalize, apply, validate, diff | | | - |
| Extraction, leaves, schema studio, archives | various | provider calls, publishing, export | | | - |
| API routes and authentication, API client, MCP, CLI, other web pages, local apps, tools | sessions, UI state | adapters | appear as clients that send and retry commands | | - |

The list of hazards, each at the line where it bites and with the property that
covers it or the reason none does, is in `PROJECT.json`.

## 2. The modules

| Module | What it is |
| --- | --- |
| `AcceptancePolicy` | The pure evaluator and the selection of the policy of a ref: operators over statements, policies and outcomes. |
| `RefLedger` | Abstract specification: each ref is an append-only chain of authorized commits, each commit joins exactly one chain once. |
| `TransitionLifecycle` | The concurrent system: Workspaces, review, bindings, clients, handlers, repository writers. Extends `AcceptancePolicy`, implements `RefLedger`. |
| `BranchRegistry` | The branches of one project and the current flag, statement by statement. |
| `EventStream` | The outbox, the LISTEN relay, one project room, and connections with their replay. |
| `CollaborationLifecycle` | Memberships, grants, invitations, ownership and project transfers under namespace locks. |
| `PullRequests` | Pull requests, merge drafts and the commits that merges make. |
| `RunTimeouts` | Runs at the engine and at the runner, and the timeout scan. |
| `WorkspaceFeed` | The list of Workspaces of one page of the web application. |
| `SemanticMerge` | The three-way merge as operators on contents, with one merge as a behaviour. |
| `MCTransitionLifecycle`, `MCBranchRegistry`, `MCEventStream`, `MCCollaboration`, `MCPullRequests`, `MCSemanticMerge` | Small instances for TLC, one per module. |
| `MCRepositoryServices`, `MCProgress` | The instances that one run checks together. The services share no state, so `focus` chooses one of them per behaviour and the others stay in their initial states; nothing is lost and nothing multiplied. |
| `TransitionLifecycleProofs` | Types, histories and the refinement of `RefLedger`. |
| `TransitionPolicyProofs` | Theorems about the evaluator, and about the bindings that govern it. Extends the former. |
| `TransitionReceiptProofs` | What commands do and answer, and what becomes of edits. Extends the former. |
| `RepositoryServicesProofs` | Branches, runs, the page and the event stream, one section each. |
| `CollaborationProofs`, `PullRequestProofs`, `SemanticMergeProofs` | Theorems about these modules. |
| `ServicesProofs` | The services of `MCRepositoryServices` together: its behaviours are behaviours of each. |

An operator whose name has a suffix `_Word` and which is commented "fault:" is
a plausible bug, defined next to the operator it would replace. No specification
uses it; replacing the operator by it must break the property `PROJECT.json`
pairs it with, which shows that the property depends on that line of the code.

### TransitionLifecycle

A step is one database transaction, or one read outside a transaction.

*State.* `head`, `advances` are `branches.head_commit_hash` and the
`branch.advanced` events; `ledger`, `grants` the decision ledger and its
authorizations; `binding` the policy bindings; `draft` the Workspace drafts;
`proposal`, `observed` the memberships; `receipts` the command receipts. `call`
is what each handler holds in memory between two steps, including what it read.
`command` and `answers` are the client side. `published` and `crashes` are
history: edits whose author has not given them up, and the crash count.

*Naming commits.* A CommitV2 is determined by its Decision and its parent, and
the Decision's Proposal fixes the parent, so a commit is named by the digest of
its Decision. A Decision carries the time it was taken, so its digest is new.

*Actions.*

| Action | Code |
| --- | --- |
| `Publish`, `TouchDraft` | `publishWorkspaceAuthoringAction`, `updateDraft`: swap the revision |
| `Reconcile`, `Discard` | `decideWorkspaceReconciliation` |
| `PrepareReview`, `Materialize` | `prepareWorkspaceAuthoringReview` reads the Draft and, in another transaction, `createTransitionProposalMembership` stores what it read |
| `RecordStatement`, `BindPolicy`, `UnbindPolicy` | statement memberships, policy bindings |
| `PlanRule`, `WriteRule` | the read and the write of the branch rules route |
| `ComposeDecision`, `ComposeCommit`, `Deliver` | a client freezes a command; it is sent, repeated or duplicated |
| `Lookup`, `DecideTransaction` | `decideTransition`: automation checks, receipt lookup, then one transaction under `acquireTransitionReviewLock`, which holds every row the decision depends on |
| `CommitPrecheck`, `CommitTransaction` | `commitTransition`: reads outside, then one transaction whose reads are guarded by the head swap and the draft swap; it renews the Draft and, on some routes, moves the clean Workspaces |
| `ResolveWinner`, `Reply`, `Crash` | the catch blocks, the answer, and a process that dies at any point |
| `PrepareWrite`, `WriteTransaction` | `commitRepositoryYOpsState` and merges: read head and binding, then `commitPreparedRepositoryTransition` |

*Abstractions.* Edits are model values; an edit with generation facts is a member
of `GeneratedEdits`. A policy's selectors are one set of trusted issuers per
check, its claim rules one set of admitted claims. Replay, schema review and
other data checks that pass or fail for reasons outside this state appear only
through the statements. The Proposals are
`structured_yops` requests prepared from an authoring ledger.

### BranchRegistry

PostgreSQL runs these transactions at READ COMMITTED and no constraint restricts
the current flag, so the count and the insert of a creation are two steps, and a
switch is: find the target, start the first UPDATE on the rows visible then, get
their locks, set the target and commit. An UPDATE waits for rows another
transaction holds; which waiting switch goes first is left open. `Abort` is a
rollback, by a lost connection or by a deadlock. `overlapped` is history:
it becomes TRUE when a creation commits inside a switch, or a first creation
commits after another branch appeared.

### EventStream

A row of the events table is the id its INSERT draws; `txn` says whether the
transaction of that INSERT is open, committed or rolled back, so ids become
visible in any order. `CommitEvent` is the commit and its `pg_notify`,
`FetchCompletes` / `FetchFails` the relay that reads the row and broadcasts it,
`Relisten` the loss and return of the LISTEN connection. `Open` joins the room and
asks for a replay when the client has a last id; `ReplayRead` is the SELECT,
`ReplaySend` the loop that sends its rows, `ReplayFails` the logged error. `room`
keeps the members and how many bus listeners the room has, which is where a wrong
join or leave would show. `Vanish` is a dead peer that the server has not noticed,
`CleanupEvent` the retention. `missed` is history: what the relay lost.

### CollaborationLifecycle

A request is `Submit` (what its route reads before the transaction), one
`Acquire` per namespace lock, in the order of ids, `Check` (what it reads under its
locks), and its write, with the conditions and the foreign keys that the tables
add. `AbortRequest` is a refusal or a lost connection. Roles are `owner` and those
a request may assign. The clock appears as `Lapse`: whether an
invitation has expired is read when the request starts. `conferred` is history:
how often an invitation gave authority.

### PullRequests

An agent reads in one step and writes in a later one, and `task` is what it has
read. Pull requests have their advisory lock (`latch`) from the read to the write;
drafts have none: `BeginOnDraft` finds a draft pending, and `StoreDecision`,
`CommitDraft`, `AbortDraft` write without looking at its status again, as the code
does. A commit must find the head it read (`Advances`). A draft's prepared
comparison is determined by its two commits and is the set `Conflicting`; what a
reviewer decides is one of `Choices`, of which `Settling` resolve every conflict.

### SemanticMerge

A node is its path, a tree the set of its paths; a behaviour picks base, source
and target, then a decision the driver would admit, then an outcome.
`SlotConflicts`, `EditedAndDeleted`, `ChangedApart` are `prepareMerge`; `FramesAt`
is what `executeMerge` collects at one path: conflicts are resolved in the order of
their depth, so the edits above a path come before the decision on it, and what is
kept of either side comes last. `OutcomesOf`
rebuilds trees as `unflattenToTrees` does. The reference it is compared with,
`ThreeWay` and `Clash`, knows nothing of frames or trees. All contents name the
same slots at a path; one that a node lacks has a value for that.

### RunTimeouts

Engine and runner: `CreateRun`, `StartWorkflow` / `StartFails`, `LinkRun` are the
creation; `CallBack`, `SendAnswer`, `Ingest`, `LoseDelivery` the answer, delivered
up to `MaxAttempts` times and possibly late; `BeginScan`, `Mark`, `MarkFails` the
timeout checker, whose scans may overlap; `TouchRun`, `RemoveRun` edits and
deletion, `RestartEngine` a restart. `ingested` and `overtaken` are history: an
answer was stored, and it was stored while a scan had the run on its list.

### WorkspaceFeed

The server's list is a version number. `Load` is the numbered request, `AnswerLoad`
and `ApplyLoad` its answer and what the page does with it, `Hear` an event,
`Refresh` focus, another tab or a button, `ConnectFeed` / `DisconnectFeed` the
WebSocket, `SwitchView` another project.

## 3. The runs

| Run | Instance | What it shows |
| --- | --- | --- |
| `lifecycle_race` | 2 Workspaces of one branch, 2 edits, 2 Proposals, 4 commands, 1 handler | `EditsConserved`, `AdvancesKeepEditedDrafts`: two full prepare-decide-commit lifecycles against publications, reconciliations and discards, where a commit finds any of the Workspaces ready to follow |
| `lifecycle_writers` | 2 handlers, 1 control-plane lifecycle, repository writes | `TypeOK`, `LinearHistory`, `AuthorizedHistory`, `ImplementsRefLedger` |
| `lifecycle_retry` | 3 commands, two of them with one request id, 2 handlers, 2 crashes | `OneEffectPerCommand`, `AnswersAreReceipts` |
| `lifecycle_policy` | a human and an agent, all outcomes, 4 kinds of statements, a schema-bound Workspace, rebinding | `AuthorizedHistory`, `GeneratedProposalsUnderOverlay`, `DecisionsOnLiveReview` |
| `ref_administration` | rules, custom binding, a human and an automated writer, 2 handlers | `RulesKeepCustomPolicies`, `OverlaysOnlyRestrict`, `WritersObeyLiveBinding` |
| `repository_services` | one service per behaviour, see below | `ServicesTypeOK` and the safety of six modules |
| `progress` | one of commands, runs and page per behaviour | `LostReplyRecovered`, `RunsEnd`, `HeardIsShown`, and `OutcomeIsFinal`, `AnswerLostOnlyToOlderScan`, `RunsTypeOK` |
| `ref_protection`, `exact_retry`, `generation_overlay`, `last_owner`, `event_replay` | minimal | violated: see section 6 |

`repository_services` asks these questions:

| Focus | Instance | Properties |
| --- | --- | --- |
| branches | 3 branches, 3 handlers, a project without branches | `HasCurrent`, `SwitchesKeepOneCurrent` |
| events | 3 events, 2 connections of one client, replay of at most 2 rows; at most one rollback, one removed row and one event lost by the relay | `NoGapOnConnection`, `DeliveredOnce` |
| memberships | 2 namespaces, 2 people, 1 invitation, 2 servers; adding, demoting, revoking, handing over, inviting | `OwnershipIsHandedOver`, `OwnerLostOnlyByUpsert`, `InvitationConfersOnce` |
| projects | the same with 1 project and 1 machine; grants, credentials, invitations, transfers both ways | `GrantsFollowProject`, `NoLockCycle`, `InvitationConfersOnce` |
| page | 2 projects, 2 changes of each, 3 requests | `ShownNeverOlder`, `RestingPageHasHeard` |
| pulls | 2 branches, 4 commits, 2 pull requests, 2 drafts, 2 agents; opening, readiness, close, merge | `MergedAsReviewed`, `PreparedForSnapshot`, `FinishedIsFinal` |
| drafts | the same with 1 pull request and 1 draft, which is decided, committed, aborted and deleted beside the merge; one stored decision before execution | `ExecutedDecisionRecorded`, `MergedAsReviewed` |
| merges | all triples of 19 contents, every decision on each | `MergeTakesEachChange`, `SidesAreInterchangeable`, `PathsStayUnique` |

Every passing run explores its whole state space. `CHECK_DEADLOCK FALSE` is set
since the system may stop: clients have no more commands, edits, ids and digests are used up.

*Bounds and why they are enough.* `Digests` bounds the decisions and with them the
commits: two of them give a winner and a loser of one head, and a commit on top of
another. `MaxRevision` bounds only edits of draft metadata
(`TouchDraft`), which occur in `lifecycle_retry` and `progress`, where it is 2;
with 1 they do not occur, and the theorems of section 4 cover them. Publications are
bounded by `Edits`, reconciliations by head moves. Each command slot composes one
command but delivers it any number of times, so retries and duplicates are not
bounded. `MaxCrashes` is named in each run; two crashes lose the replies of two executions of
one command. Two handlers, servers or agents are the smallest number in which
every pair of steps of two executions interleaves, three for a switch, which sees
rows of one and misses those of another; the runs with one handler ask
about clients, Workspaces and policy instead, and their handler still interleaves
at each of its steps with everything that is not a handler. Three events and a
replay of two give an id that is seen before a smaller one and a replay that is
cut off. A server executes any number of requests in turn, so the requests of the collaboration runs
are bounded only by their kinds. Four commits are a merge and a move of each
branch. `MaxVersion` and `MaxLoads` give a change during a request and an answer
that is overtaken twice. In `SmallContents` a node is three levels deep, has a
sibling and two slots, which are changed in two ways, added and removed, and a
second tree has the key of an inner node of the first. Model values that the specification treats
alike are symmetric where the configuration says so; the runs with liveness use no symmetry.

*Synchronization.* `CommitSyncs` is the set of the sets of Workspaces that a
commit may find ready to follow its ref. The empty set is a route that does not
synchronize (merge drafts, presentations, source Workspaces). On the others
(transition, workspace, commit and pull-request routes) a Workspace is not ready
while a schema edit is pending in it, which the model does not keep; so
`lifecycle_race` lets a commit find every subset ready, and `lifecycle_writers` its
Workspace or none. That each Workspace without edits follows its ref is not a property of
this code (section 6). What holds on every route is `AdvancesKeepEditedDrafts`.

*Fairness* (`ProgressSpec`). `LostReplyRecovered` assumes weak fairness of each handler's next step
(an execution that has started keeps running: Node's event loop and PostgreSQL
make progress, and nothing here waits for a client), and strong fairness of the
delivery of a command whose client has learned no result yet (the client retries
and is served infinitely often, though handlers are busy in between). `RunsEnd`
assumes that time passes (`Age`), that the timer of the checker keeps firing
(`BeginScan`, weak; it is a `setInterval`, set up again by a restart) and that not
every attempt to mark a run fails (`Mark`, strong, since restarts and failures
may come in between). `HeardIsShown` assumes that the current request of the page ends with
an answer or an error and that the page handles it (`AnswerLoad`, `ApplyLoad`,
weak: `fetch` settles). Nothing is assumed of authors, administrators, writers, reviewers,
the runner, the network or clients with no command.

## 4. What is proved

TLAPS checks the following for all values of the constants that satisfy the
named assumptions: `ActorsAssumption`, `LifecycleAssumption` and
`NullAssumption`, `RegistryAssumption`, `CollaborationAssumption`,
`PullAssumption`, `RunAssumption`, `FeedAssumption`, `StreamAssumption`,
`MergeAssumption`. They say that the null values are no digests, policies, people
or decisions, that configured policies, statements, requests and branches have
their types, that the two well-known service actors exist, that the ids of namespaces are
ordered, that "owner" is no role a request may assign, that bounds are
numbers (a replay returns at least one row, an answer is sent at least once),
that a path is a sequence with a key at least, a tree has the ancestors of its nodes, and contents name the same slots at a path
(a slot a node lacks has a value of its own). TLC evaluates each of them.

- *Types* (`TypeCorrect`): `TypeOK` is inductive only together with
  `ServesCommands`: a handler works on a command that was composed, of the kind
  its position asks for, on a Proposal that exists.
- *History* (`HistoryIsLinear`, `HistoryIsAuthorized`): neither property is
  inductive, because a commit enters the history on the strength of reads made
  outside its transaction. `HistoryInv` adds what survives from the read to the
  transaction. Recorded decisions are sound under the policy they name
  (`LedgerSound`), only decisions for the ref that are no rejections are granted
  (`GrantsSound`), the events form a chain (`Chained`), each entry's decision
  names its parent (`EntriesGranted`), heads do not repeat (`HeadsDistinct`), and
  a handler about to commit has compared its decision with the Proposal
  (`CommitsChecked`). The central step: a decision that is already in a history
  names a parent that already has a successor there, and the swap requires that
  parent to be the head, so no commit enters twice.
- *Refinement* (`LifecycleImplementsRefLedger`): a decision is a `Grant` or a
  stutter, a commit or a repository write is an `Advance`, and every other step is
  a stutter of `RefLedger`, under `IndInv`.
- *Live reviews* (`DecidesLiveReviews`): the transaction of a decision reads
  under the review lock what the property demands, and a commit or a write
  decides on nothing that is under review. `TransactionEffects` first reduces
  every transaction to three effects (`Decides`, `CommitsNow`, `Writes`) or none;
  the following proofs speak of these only.
- *Receipts and answers* (`CommandsActOnce`, `AnswersComeFromReceipts`):
  `ReceiptInv` adds that a receipt's result exists, as a Decision or as a commit,
  so that the new digest of an effect is the result of no older receipt.
  `AnswerInv` adds what a handler holds between its transaction and its reply: the
  result of a receipt of the very command it serves, also when it only found the receipt
  after it lost the race for it.
- *Edits* (`EditsAreConserved`): `EditInv` adds where each edit belongs: a
  Draft has only edits published in its Workspace, no edit is published in two,
  and what is committed was published. A commit that takes a Proposal's content must
  find the Draft at the revision the Proposal was made from.
- *Generated content* (`GeneratedContentIsOverlaid`): the longest argument. Two
  Proposals with the same Effect share their Decisions, so one that forgot
  that its content is generated could lend its Decision to one that knows.
  `FrozenInv` shows that they agree: a Proposal fits the Draft it was made from
  while its ref has not moved (`FrozenCurrent`); edits lose their mark only when
  the basis of the Draft changes, and a ref never returns to a head it had
  (`MarksAgree`); on the empty ref nothing has been reconciled
  (`EmptyRefMarks`). `GeneratedInv` carries this to Decisions and commits.
- *Advances* (`AdvancesSpareEdits`): `AdvancesKeepEditedDrafts` for every
  `CommitSyncs`. That a commit takes exactly the Draft of its Workspace, on the basis it has,
  rests on `FrozenCurrent`: the ref has not moved since the Proposal was made, or the
  swap fails, and while it has not, the Draft keeps that basis. That a
  commit moves the Workspaces of no other ref rests on `ProposalsOnTarget`: a
  Proposal is for the ref of its Workspace.
- *Policy* (`AcceptExcludesOverride`, `ReplayIsLoadBearing`,
  `PostureIsLoadBearing`, `ApplicableOnlyRestricts`, `BranchRuleIsExact`): facts
  about the evaluator for every policy, statement set and actor; the reachable
  bindings (`RulesKeepPolicies`), what overlays do under each of them
  (`OverlaysRestrictEveryBinding`), and the binding writers obey
  (`WritersObeyBindings`).
- *Branches* (`AlwaysCurrent`, `OneCurrent`): `HasCurrent` needs that rows are
  never removed, so that a count or a found target stays true; at most one
  current branch needs that, while no creation overlaps a switch, the rows a
  switch has seen are all the rows there are, so that its update unsets every
  other branch.
- *Runs* (`RunsType`, `AnswersLostToOlderScans`, `OutcomesAreFinal`): no write of
  a run looks at its status, so the order of messages must protect an outcome.
  `LinkOrder` states it: an answer, a delivery and a listing by a scan exist only for a
  run that was linked, and linking, the one write that sets a run to running, is
  done once. `AnswersKept` says that a scan which lists a run with an answer
  had listed it before.
- *Page* (`FeedType`, `RestingPagesHaveHeard`, `PagesGoForward`): requests are answered in
  any order, so `FeedInv` is about the number of the current one: what it
  returns is no older than what is shown, and has every change the page has
  heard of, since each change it hears of begins a newer request
  (`LoadsInOrder`, `CurrentAnswer`, `NothingFromTheFuture`).
- *Events* (`StreamType`, `EventsDeliveredOnce`, `ReplayMeetsLive`): `StreamInv` has
  one bus listener for a room that exists (`OneListener`), which makes delivery
  single; events are committed before they are fetched and fetched before they are
  delivered (`FetchedFirst`); and an open connection will get what
  was committed after it opened, or the relay has lost it (`Hears`). The replay
  joins it without a gap because a read that stays below its limit returned every row after
  the client's pointer (`ReplayInOrder`); this rests on facts about finite sets of
  numbers (`LargestId`, `WholeReplay`).
- *Merges* (`MergeTypes`, `MergeIsThreeWay`, `SidesInterchange`, `OneNodePerPath`): a
  behaviour is short, so the invariant (`MergeInv`) only says that the outcome is
  one of those that the sides and the decision admit. The work is in what such an
  outcome is. `PickedIsThreeWay` and `ComparisonIsSymmetric` settle the comparison:
  what is picked for a node is its three-way merge, and neither that nor the
  conflicts depend on which branch is the source. Each path belongs to one class of
  the comparison (kept, conflicting, or on one side only), which settles the frames
  collected there (`FramesWithoutConflict`, `FramesOfConflict`, `FramesPerPath`,
  `FramesAreSymmetric`). The nodes of an outcome are the frames below the root of their tree
  (`NodesFromFrames`), and roots and ancestors that the reference wants are there
  (`WantedIsFilled`, `WantedRootStays`, `WantedIsAttached`).
- *Services together* (`ServicesTypes`, `ServicesPromises`): a step of `ServicesSpec`
  is a step or a stutter of each service (`ServicesRunEach`), so what is proved of
  each holds of the specification that `repository_services` checks.
- *Collaboration*: `CollaborationInv` is the type invariant (`CollaborationTypes`)
  with `LiveRequests` (a server that is not idle executes a well-formed request),
  `LocksKept` (a request holds only namespaces it asks for, of smaller rank than
  those it still waits for, and all of them once it has checked),
  `IssuedInvitations`, `RevocationsSafe`, `GrantsFollowProject` and
  `InvitationConfersOnce`. `NoCycle` follows from the ranks. `GrantsFollow` rests
  on the foreign keys, `ConfersOnce` on the condition of the answering UPDATE.
  `RevocationsSafe` is the heart of `LastOwnerOnlyByUpsert`: a revocation that
  has been checked leaves another owner, because every write that could take that
  one away needs the lock the revocation holds. `OwnershipHandedOver` is read off the writes.
- *Pull requests*: `PullsInv` says what each agent's memory still guarantees when it
  writes (`Sound`): the row it holds the lock of is the row it read, its draft has
  the commits it read, and a conflict is decided. Commits fork no branch since
  each must find its first parent at the head (`CommitsOK`), and a pull request
  and its draft agree on the commits under review (`PullOK`). From it:
  `PullTypes`, `MergesAreReviewed`, `DecisionsRecorded`, `DraftsMatchSnapshots`,
  `FinishedStays`.

*Only model-checked:* the liveness properties `LostReplyRecovered`, `RunsEnd`,
`HeardIsShown`, since liveness is beyond the prover. Every safety property of a run that
passes is proved.
The properties of the runs that expect a violation are false, of course.

## 5. What is not modelled

Per component, with the reason, in `PROJECT.json`.

Within the modelled components: reuse of a Proposal by request id, undo and compensation
actions, the documents and their three-way merge, Workspace creation and deletion,
schema snapshots (and that a following Workspace whose schema rejects the new State
makes the commit fail), projections of source Workspaces at commit, YOps consumption,
the explicit-policy mode of the writers, `deleteBranch`, and the Workspace and policy
binding that a new branch inherits; authentication of sockets, presence, cursors and
conversation rooms; titles, comments and check rows of pull requests; traces,
evaluations and assertions of the runner; semantic diff, gates, the merge of schemas.
Pure encodings (canonical JSON, digests) are identities of model values.

The YOps log is left out on purpose. Superseding, repair and undo are reached
only through `yopsApplyOp`, which no route or tool calls. What production does is insert a row and consume
it in the transaction of one Workspace commit, which checks the rows again under
the project lock; a model of the rest would be about code that does not run.

Most of the repository's lines are user interface, schemas of routes, provider
calls, rendering, exports and tooling: sequential code over data, where a model
would repeat the program and its unit tests.

## 6. Where documents and code disagree

1. `ref_protection`: `src/docs/architecture/reliable-workspace-gate-1.md:52-54`
   says ref protection is enforced when the ref advances. `commitTransition`
   compares the decision's policy with the live binding only for generated
   Proposals (`lifecycle.ts:698`), so a binding made after the decision does not
   hold up its commit. What does hold is `AuthorizedHistory`: each commit was
   permitted by the policy in force when it was decided.
2. `exact_retry`: the same document (line 94) says exact retries reuse the
   receipt. A duplicate that looked up before and reads the head after the winner
   commits is refused (`lifecycle.ts:708` is outside the `try` that resolves
   winners). A later retry does get the receipt.
3. `generation_overlay`: the comment at `lifecycle.ts:695` says generated
   Proposals are always decided against the overlay. Reconciliation replaces the
   generated action by an imported one without generation facts, and its Proposal
   is decided without the overlay.
4. `event_replay`: `storage/REALTIME-SYNC.md:107-111` says that replay after the last
   id makes delivery resilient to disconnects. Ids are drawn before commit: a
   client that has seen 2 and reconnects after 1 has committed never gets 1.
   On one connection nothing is skipped (`NoGapOnConnection`).
5. `last_owner`: `application/src/identity/collaboration-lifecycle.ts:229` says that a namespace
   retains an active human owner. The member route upserts the role of whoever is
   named, the last owner included, and so does an accepted invitation. Every other
   way is excluded (`LastOwnerOnlyByUpsert`).
6. Two first branches: the comment of `insertBranch` says its transaction prevents
   both from becoming current. READ COMMITTED does not. `SwitchesKeepOneCurrent`
   therefore excepts it by the history variable `overlapped`; `AtMostOneCurrent` is the
   form without the exception.
7. Semantic merge: a node that a decision keeps is lost or becomes a tree of its
   own when its parent is removed, and "both" on a conflict at a root keeps the
   frame of the source alone (`core/src/semantic/tree.ts:84`). The tests
   "keeps selected target-only nodes" and "resolves conflict with both" say otherwise for the cases they
   try. `MergeTakesEachChange` therefore speaks of decisions for one side, demands a
   node only where all its ancestors stay, and says of the others
   where they can come from: a node is moved only if the root of its tree goes.
8. Synchronization: the comment at `workspace-reconciliation.ts:782` says that
   `synchronizeCleanBranchWorkspaces` is called inside each Commit transaction. Merge
   drafts (`merge.openapi.ts:812-832`), presentations and source Workspaces commit
   without it, and it leaves a Workspace with a pending schema edit behind (704-710);
   the test `workspace-reconciliation.test.ts:131-133` sees a Workspace without edits behind.
   `AdvancesKeepEditedDrafts` therefore allows such a Workspace to stay or to follow.
9. Background rewrites: `reliable-workspace-gate-1.md:228-230` says that a ref advance
   never rewrites another principal's Draft in the background, and rule 7 (44-46)
   and RW-06 (95) that a Workspace whose ref advanced is only marked behind. The same
   function lists the Workspaces of all principals and moves those without edits to the new
   head, with a new revision. What the document promises is kept for
   Drafts with edits: `AdvancesKeepEditedDrafts`.

## 7. Plan

Ordered by what matters most for the system.

1. *Done:* acceptance policy, ref ledger, transition lifecycle with writers and
   administration, branch registry; event stream, collaboration, pull requests and
   merge drafts, runs, the list of Workspaces, the semantic merge; the theorems of section 4.
2. Extensions of existing modules: retry of proposals by request id, branch
   creation with inherited policy (with the MCP tool that inherits nothing), undo
   and compensation actions, reviews and comments of pull requests.
3. Proofs: every safety property of the runs is proved. Left are further abstract
   specifications, such as an outbox that `EventStream` would implement and a
   register of one current branch for the switches of `BranchRegistry`.
4. `SchemaStudio` (publication under the lock of a name) and the archive, as far
   as they have concurrency of their own.
5. `YOpsLog`, if a caller of its supersede and undo paths appears: rows active,
   superseded, deleted, consumed, under the advisory lock shared with commits.

## 8. Running it

    tlc -config lifecycle_race.cfg MCTransitionLifecycle
    tlc -config repository_services.cfg MCRepositoryServices
    tlapm TransitionReceiptProofs.tla

| Module | Configurations |
| --- | --- |
| `MCTransitionLifecycle` | `lifecycle_race`, `lifecycle_writers`, `lifecycle_retry`, `lifecycle_policy`, `ref_administration`, `ref_protection`, `exact_retry`, `generation_overlay` |
| `MCRepositoryServices` | `repository_services` |
| `MCProgress` | `progress` |
| `MCCollaboration` | `last_owner` |
| `MCEventStream` | `event_replay` |
