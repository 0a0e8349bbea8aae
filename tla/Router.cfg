SPECIFICATION FairSpec
CONSTANTS
  Calls = {c1}
  Requests <- AllRequests
  Policies <- AllPolicies
  Cloud <- MCCloud
  Local = {ollama}
  Order <- MCOrder
  Catalog <- MCCatalog
  claude = claude
  gemini = gemini
  ollama = ollama
  None = None
INVARIANTS SensitiveStaysLocal OtherSideIsFallback OneAnswers NoProviderMeansAllDown
PROPERTIES EveryChatEnds
