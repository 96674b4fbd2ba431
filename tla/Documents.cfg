SPECIFICATION Spec
CONSTANTS
  UploadPages = 2
  MaxLength = 4
  MaxCalls = 2
  Selections <- MCSelections
  MaxWorkers = 2
  Threshold = 1
  Crop <- MCCrop
  Picture <- MCPicture
  StampTexts <- MCStamps
  FontSize = 4
  LineStep = 5
  Margin = 4
  TextObjects <- MCTexts
  Images <- MCImages
  FormWord = "draft"
  FormPlace = "top"
  Texts = {"draft"}
  Saying <- MCSaying
  MaxOps = 4
  TileCount = 2
  MaxTargets = 1
  Words = {"a", "b"}
  Pages = 2
  Width = 2
  Styles = {"black", "blurred"}
  Passwords = {"p", "q"}
  Fields = {"f"}
  Values = {"v"}
  Languages = {"eng", "deu", "ara"}
  English = "eng"
  ScriptPacks <- MCScripts
  MaxLanguages = 3
  SamplePages = 2
  MaxTools = 2
  MaxPdfPages = 2
  MinParallel = 2
  MaxConvertWorkers = 3
  PropertyOrder <- MCProperties
  ForeignTags = {"x", "y"}
  MaxTags = 3
  Uploads <- MCUploads
  Callers = {"ann", "bob"}
  PlanOf <- MCPlans
  PlanLimits <- MCLimits
  MaxInputs = 3
CHECK_DEADLOCK FALSE
INVARIANTS
  StampsFit
  TheRestIsKept
  RemovalIsHonest
  AdmittedWithinPlan
  NoResultIsLost
PROPERTIES
  ImagesAreThePages
  RedactionIsExact
  ConversionKeepsAll
