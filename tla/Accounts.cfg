\* Credential store: startup verification, requests and seeding commands.
CONSTANTS
    Names = {"admin ", "bob"}
    Stripped <- MCStripped
    Passwords = {"p"}
    Seeds <- MCSeeds
    HomeTargets = {"memory", "accounts"}
    Memory = {"memory"}
    Admin = "admin"
    Requests = {r1}
    Queries = 1
    TokenLife = 1
    MaxTime = 1
    MaxBindings = 1
SPECIFICATION Spec
CHECK_DEADLOCK FALSE
INVARIANTS AccountInvariant AbandonedWorkStops AdmittedWasEnabled BindingRestored
PROPERTIES AbandonedDrains
