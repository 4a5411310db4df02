CONSTANTS
    main = main w1 = w1 w2 = w2 e1 = e1 e2 = e2 t1 = t1 t2 = t2
    d1 = d1 d2 = d2 d3 = d3 h1 = h1 h2 = h2 r1 = r1 r2 = r2 r3 = r3 r4 = r4 k1 = k1 k2 = k2
    alice = alice bob = bob robot = robot verifier = verifier replayer = replayer
    plain = plain
    Actors <- MCActors
    Humans <- MCHumans
    Claims = {plain}
    Claim = plain
    PostureVerifier = verifier
    ReplayService = replayer
    NoPolicy = NoPolicy
    None = None
    Refs = {main}
    Workspaces = {w1}
    TargetRef <- OneWorkspaceTarget
    Edits = {}
    GeneratedEdits = {}
    Transitions = {t1}
    Digests = {d1, d2}
    Requests = {}
    ActorOf <- SameActor
    RequestIdOf <- OwnIds
    AskedOutcomes = {"accepted"}
    Handlers = {h1, h2}
    Evidence <- ThreeEvidence
    BindablePolicies <- CustomBinding
    RuleChanges = {TRUE, FALSE}
    SchemaBound = {}
    Proposers = {alice}
    Writers = {bob, robot}
    CommitSyncs = {{}}
    WriterEvidence <- OneEvidence
    WriterPolicy <- Unprotected
    MaxRevision = 1
    MaxCrashes = 0
SPECIFICATION Spec
SYMMETRY HandlerSymmetry
INVARIANTS
    RulesKeepCustomPolicies
    OverlaysOnlyRestrict
PROPERTIES
    WritersObeyLiveBinding
CHECK_DEADLOCK FALSE
