\* Preflight of one hosted project while administrators work on it.
CONSTANTS
    Files <- MCFiles
    SqlTokens <- MCSqlTokens
    ReceiptTimes <- MCReceipts
    LoopbackUrls = {}
    HostedUrls <- MCHosted
    Logins <- MCLogins
    OtherRoles = {"extra", "owner"}
    Manifest <- MCManifest
    Permits <- MCPermits
    Heads = {"h1", "dirty"}
    ProjectOf <- MCProjectOf
    Configs <- MCConfigs
    LoginOf <- MCLoginOf
    Owner = "owner"
    ProviderObjects = {"extensions"}
    Deviations <- MCDeviations
    MaxChanges = 2
SPECIFICATION Spec
CHECK_DEADLOCK FALSE
INVARIANTS PreflightInvariant PassIsHonest DriftIsProven AuthorityIsExact
