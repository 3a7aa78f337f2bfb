\* The workbench's session and its requests.
SPECIFICATION RequestsSpec
CONSTANTS
  Accounts = {"ann", "bob"}
  Nobody = "nobody"
  ApiKeys = {1, 2, 3}
  NoKey = 0
  Owner <- MCOwner
  Offers <- MCOffers
  ImageModels = {"image1", "image2"}
  FallbackModel = "image1"
  Slots = {1, 2}
  MaxActs = 3
  Asks = {1}
  NodeModels <- MCNodeModels
  Settings <- MCSettings
  Scripts <- MCScripts
  MaxPolls = 2
INVARIANTS SessionSound RequestsSound AnswersExact
PROPERTY WorkbenchSettles
CHECK_DEADLOCK FALSE
