CONSTANTS
    main = main b1 = b1 b2 = b2 h1 = h1 h2 = h2 h3 = h3
    Branches = {main, b1, b2}
    Main = main
    Existing = {}
    Handlers = {h1, h2, h3}
    s1 = s1 s2 = s2 s3 = s3 c1 = c1 c2 = c2
    MaxEvents = 3
    Connections = {s1, s2}
    Clients = {c1}
    ClientOf <- TwoClients
    ReplayLimit = 2
    n1 = n1 n2 = n2 p1 = p1 ann = ann ben = ben bot = bot i1 = i1 g1 = g1 g2 = g2
    Nobody = Nobody
    Namespaces = {n1, n2}
    Rank <- NamespaceOrder
    Projects = {p1}
    Home <- AllInFirst
    People = {ann, ben}
    Machines = {bot}
    FirstOwner <- AnnOwns
    MemberRoles = {"admin"}
    Invitations = {i1}
    Submissions <- AllTraffic
    Servers = {g1, g2}
    v1 = v1 v2 = v2
    Views = {v1, v2}
    MaxVersion = 2
    MaxLoads = 3
    feature = feature trunk = trunk a1 = a1 a2 = a2
    Lines = {feature, trunk}
    FirstOf <- TrunkFirst
    Pairs <- FeatureToTrunk
    MaxCommits = 4
    MaxPulls = 2
    MaxDrafts = 2
    MaxDecisions = 1
    Conflicting <- FirstConflict
    Choices = {"both", "mine"}
    Settling = {"mine"}
    Default = "both"
    Missing = Missing
    Agents = {a1, a2}
    Contents <- SmallContents
    EditTree <- SmallEdit
SPECIFICATION ServicesSpec
INVARIANTS
    ServicesTypeOK
    HasCurrent
    SwitchesKeepOneCurrent
    NoGapOnConnection
    DeliveredOnce
    InvitationConfersOnce
    GrantsFollowProject
    NoLockCycle
    RestingPageHasHeard
    MergedAsReviewed
    ExecutedDecisionRecorded
    PreparedForSnapshot
    MergeTakesEachChange
    SidesAreInterchangeable
    PathsStayUnique
PROPERTIES
    OwnershipIsHandedOver
    OwnerLostOnlyByUpsert
    ShownNeverOlder
    FinishedIsFinal
CHECK_DEADLOCK FALSE
