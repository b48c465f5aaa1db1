CONSTANTS
    Users = {u1, u2}
    Senders = {s1, s2, s3}
    Addresses = {"default", "other"}
    Accounts = {"box1", "box2"}
    Passwords = {"p1", "p2"}
    Processes = {"api", "worker"}
    Provider <- MCProvider
    NoPassword = NoPassword
    DefaultRow <- MCDefaultRow
    Inputs <- MCInputs
    Patches <- MCPatches
    Calls = {c1, c2, c3}
    Absent = Absent
SPECIFICATION Spec
INVARIANT StaleOnlyUntilRestart
PROPERTIES OwnerControls ProvisionSettles
SYMMETRY Symmetry
