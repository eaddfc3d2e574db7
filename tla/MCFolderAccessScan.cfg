SPECIFICATION AccessSpec
CONSTANTS
    r1 = r1
    r2 = r2
    g1 = g1
    g2 = g2
    u1 = u1
    Depth = 4
    TypeOf <- MCTypeOf
    Sensitive = {4}
    CegNamed = {2}
    Role = {r1, r2}
    Neu = {}
    Finance = {}
    PartnerAdmin = {r2}
    Level = {1, 2}
    Rule <- MCRule
    Group = {g1, g2}
    Link = Link
    GroupsOf <- MCGroupsOf
    User = {u1}
    MemberOf <- MCMemberOf
    Exception <- MCException
    Scanned = 2
    MaxRows = 2
    MaxPermissions = 2
PROPERTIES
    CleanMeansInSync
CHECK_DEADLOCK FALSE
