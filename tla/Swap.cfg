SPECIFICATION MCSpec
CONSTANTS
    Newest = 2
    MaxUpdates = 2
    MaxReloads = 1
    Packages = {openai, requests}
    MaxTyped = 2
    MaxCrashes = 1
    MaxFailures = 1
    MaxLoads = 8
INVARIANTS PreviousKept OneRepairAtATime SuccessIsLoaded
PROPERTY ClaimsAreTrue
