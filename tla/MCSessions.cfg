SPECIFICATION SessionSpec
CONSTANTS
    alice = alice
    bob = bob
    ta = ta
    tb = tb
    Users = {alice, bob}
    Tokens = {ta, tb}
    Clients = {c1, c2}
    Owner <- MCOwner
    System = System
    Unowned = Unowned
    Actions = {"product.matches.read", "admin.identity.role.change"}
    RolesGiven = {"administrator"}
    IdleTime = 1
    LastTick = 1
    MaxRows = 2
SYMMETRY MCSymmetry
INVARIANTS
    AllowedIsCurrent
    ActorIsAdministrator
PROPERTIES
    LogoutIsFinal
