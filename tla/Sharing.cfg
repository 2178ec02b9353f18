SPECIFICATION KnowledgeSpec
CONSTANTS
    owner = owner peer = peer admin = admin f1 = f1
    People = {owner, peer, admin}
    RoleOf <- MCRoleOf
    NewRoles = {"business_user"}
    Emails = {e1}
    Requests = {p1, p2, p3}
    Workers = 2
    OwnerOf <- MCOwnerOf
    Scopes = {"team", "org"}
    Parts = {1}
    Promoted = {f1}
    Nobody = Nobody
CHECK_DEADLOCK FALSE
SYMMETRY Symm
INVARIANTS TypeOK OneActivePerSignIn RolesAudited RequestsDecidedOnce ReadersWereGranted OrphansCanBeDemoted
