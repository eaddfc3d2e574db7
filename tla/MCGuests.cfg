SPECIFICATION Spec
CONSTANTS
    Session = {s1, s2}
    Group = {g1}
    RoleGroup = {g1}
    MaxDays = 2
    MaxExtensions = 2
    GraceDays = 1
    InvitationLife = 1
    MaxInvites = 2
    MaxGraces = 1
    MaxTime = 3
INVARIANTS
    TypeOK
    AccessBounded
    AcceptedRedeemed
PROPERTIES
    RevokedLeaves
SYMMETRY Symmetry
