SPECIFICATION BenchSpec
CONSTANTS
    Mentions <- MCMentions
    Campaigns <- MCCampaigns
    ScenarioTime = 2
    ReadyTime = 2
    CampaignTime = 2
    QuietTime = 1
    CleanupTime = 1
    ScenarioCost = 2
    ReadyCost = 2
    TotalCost = 3
    MaxScenarios = 2
    MaxMachines = 2
    MaxEntries = 2
    CallTime = 1
CHECK_DEADLOCK FALSE
INVARIANT EstimateIsUpper
