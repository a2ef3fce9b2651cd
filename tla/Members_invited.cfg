SPECIFICATION MemberSpec
CONSTANTS
    Users = {u1, u2}
    Nil = Nil
    Invites = {i1}
    MemberCalls = {c1}
    Defaults = {"member"}
    KeyRoles = {"owner"}
    GivenRoles = {"admin"}
    MemberOps = {"mint", "accept"}
INVARIANT InvitedRoleIsGranted
