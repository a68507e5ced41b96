SPECIFICATION MCSpec
CONSTANTS
  AllowPublic = FALSE
  AlwaysAllowed = {}
  Adapters <- Deployed
  CallUrls <- OneUrl
  DriverChecks = TRUE
  AdapterChecks = TRUE
  Endpoints = {"ollama", "vllm", "elsewhere"}
  PortProvider <- Ports
  Names = {"qwen2.5:7b"}
  NoModel = ""
  ModelNames <- AllNames
  Canon <- Spelling
  EmbedNames = {"nomic-embed-text"}
  Recommended <- RecommendedModels
  Listings <- Served
  Settings <- Wishes
  AsrKeys <- ThreeModels
  Size <- Sizes
  Gated <- GatedModels
  Graphs <- AllGraphs
  MaxAttempts = 4
  BaseDelay = 1
  MaxDelay = 3
  SdkRetries = 2
INVARIANTS HarnessTypeOK LadderDescends ResultIsHonest FailsClosed ReachableIffAnswered
  OllamaIsProven ChoiceIsKept PickIsSound RetriesAreSound ResolutionIsSound ConsentIsHonest
PROPERTIES HarnessEnds
CHECK_DEADLOCK FALSE
