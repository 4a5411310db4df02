CONSTANTS
    n1 = n1 n2 = n2 p1 = p1 ann = ann ben = ben bot = bot i1 = i1 g1 = g1 g2 = g2
    Nobody = Nobody
    Namespaces = {n1}
    Rank <- NamespaceOrder
    Projects = {p1}
    Home <- AllInFirst
    People = {ann, ben}
    Machines = {bot}
    FirstOwner <- AnnOwns
    MemberRoles = {"admin"}
    Invitations = {i1}
    Submissions <- Demotion
    Servers = {g1, g2}
SPECIFICATION CollaborationSpec
INVARIANTS
    LastOwnerKept
CHECK_DEADLOCK FALSE
