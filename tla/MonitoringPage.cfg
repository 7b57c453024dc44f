SPECIFICATION PageSpec
CONSTANTS
    FileNames <- MCFileNames
    SecretOf <- MCSecretOf
    MaskedTexts = {"se***et"}
    Configs <- MCConfigs
    FileLists <- MCFileLists
    Details <- MCDetails
    Models <- MCModels
    Prices <- MCPrices
    PriceLists <- MCPriceLists
    AllCards <- MCAllCards
    Scenarios <- MCScenarios
    Now = 12
    DayLength = 8
    HourLength = 2
    WindowLength = 3
    Blocks = 3
    BlockLength = 2
    PatternLength = 2
    Points = 24
    StatsLimit = 4
    LogLimit = 4
    Retention = 2
    TrimBuffer = 1
INVARIANTS
  MetaSettles
  QuotaSettles
  PricesAsSaved
CHECK_DEADLOCK FALSE
