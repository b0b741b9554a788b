SPECIFICATION Spec
CONSTANTS
    u1 = u1
    u2 = u2
    n1 = n1
    k3 = k3
    Users = {u1, u2}
    Names = {n1}
    ShareOf <- MCShareOf
    GroupOf <- MCGroupOf
    Conns = {k1, k2, k3}
    UserOf <- MCUserOf
    Sharing = {k1, k3}
    Asking = {k2, k3}
    MaxReq = 1
INVARIANTS RegistryFollows OwnAnswer
PROPERTIES RequestsServed
CHECK_DEADLOCK FALSE
