SPECIFICATION MCSpec
CONSTANTS
    Users = {u1, u2}
    Invites = {i1}
    MemberCalls = {c1, c2}
    Background = {b}
    Savers = {c1, c2, b}
    Clerks = {c1, c2, b}
    Defaults = {"member"}
    KeyRoles = {"owner"}
    GivenRoles = {"admin", "owner"}
    MemberOps = {"invite", "patch", "remove", "mint", "withdraw", "accept", "scim"}
    Nil = Nil
    Keys = {k1}
    Grace = 1
    Ttl = 1
    MaxGen = 3
    MaxClock = 2
    Sids = {s1, s2}
    HardCap = 1
    PolicyCaps = {0, 1}
    Retention = 1
SYMMETRY Symmetry
INVARIANTS  OwnersMadeByOwners EndedSecretsFail 
INVARIANTS RevokedSessionFailsForADay OffboardedIsOut
