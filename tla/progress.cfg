CONSTANTS
    main = main w1 = w1 w2 = w2 e1 = e1 e2 = e2 t1 = t1 t2 = t2
    d1 = d1 d2 = d2 d3 = d3 h1 = h1 h2 = h2 r1 = r1 r2 = r2 r3 = r3 r4 = r4 k1 = k1 k2 = k2
    alice = alice bob = bob robot = robot verifier = verifier replayer = replayer
    plain = plain
    Actors <- MCActors
    Humans <- MCHumans
    Claims = {plain}
    Claim = plain
    PostureVerifier = verifier
    ReplayService = replayer
    NoPolicy = NoPolicy
    None = None
    Refs = {main}
    Workspaces = {w1}
    TargetRef <- OneWorkspaceTarget
    Edits = {e1}
    GeneratedEdits = {}
    Transitions = {t1}
    Digests = {d1, d2}
    Requests = {r1, r2}
    ActorOf <- SameActor
    RequestIdOf <- OwnIds
    AskedOutcomes = {"accepted"}
    Handlers = {h1, h2}
    Evidence <- OneEvidence
    BindablePolicies <- NoBindings
    RuleChanges = {}
    SchemaBound = {}
    Proposers = {alice}
    Writers = {}
    CommitSyncs = {{}}
    WriterEvidence <- OneEvidence
    WriterPolicy <- Unprotected
    MaxRevision = 2
    MaxCrashes = 1
    u1 = u1 k3 = k3 k4 = k4 v1 = v1
    Runs = {u1}
    Scans = {k3, k4}
    MaxAttempts = 2
    MaxTouches = 1
    Views = {v1}
    MaxVersion = 2
    MaxLoads = 3
SPECIFICATION ProgressSpec
INVARIANTS
    RunsTypeOK
    AnswerLostOnlyToOlderScan
PROPERTIES
    OutcomeIsFinal
    LostReplyRecovered
    RunsEnd
    HeardIsShown
CHECK_DEADLOCK FALSE
