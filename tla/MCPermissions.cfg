SPECIFICATION Spec
CONSTANTS
    b1 = b1
    b2 = b2
    a1 = a1
    a2 = a2
    user = user
    group = group
    read = read
    write = write
    Batch = {b1, b2}
    Assignment = {a1, a2}
    Principal = {user, group}
    Permission = {read, write}
    Id = {1, 2, 3}
    PrincipalOf <- MCPrincipalOf
    RoleOf <- MCRoleOf
    Users = {user}
    Unique = {a1}
    Content <- MCContent
    Kinds <- MCKinds
    Before <- MCBefore
    PageSize = 2
    Processor = {p1, p2}
    MaxConcurrent = 1
    MaxAttempts = 2
    LastHour = 1
INVARIANTS
    TypeOK
PROPERTIES
    NoLeftovers
    BatchesEnd
CHECK_DEADLOCK FALSE
