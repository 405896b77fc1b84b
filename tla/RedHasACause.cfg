CONSTANTS
    Files <- MCFiles
    Inputs <- CloneInputs
    Guarantees <- MCGuarantees
    Leak = "identity"
    Scanned <- Logs
    Quotes = "evidence-quotes"
    Committed <- MCCommitted
    Chains <- ModeChains
    Loose <- LooseScripts
    Breaks <- MCBreaks
    Touchable = {}
    Manifest <- MCManifest
    Audited = {"full", "values", "check"}
    Published <- MCPublished
    Replayed <- MCReplayed
    HandTyped <- Measured
    Regenerated <- MCRegenerated
    MaxEvents = 2
    MaxRuns = 2
SPECIFICATION PipelineSpec
CHECK_DEADLOCK FALSE
INVARIANT RedHasACause
