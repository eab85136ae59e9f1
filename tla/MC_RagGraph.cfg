SPECIFICATION FairSpec
CONSTANTS
  MaxRetrievalLoops = 3
  MaxVerifyLoops = 2
  MaxRewrites = 2
  ReflectionDepth = 2
  MaxToolLoops = 5
  ReflectionEnabled = TRUE
  HallucinationCheckEnabled = TRUE
  SelfCritiqueEnabled = TRUE
INVARIANTS GenerationBudget
PROPERTIES TerminatesWhenFound
