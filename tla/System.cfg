SPECIFICATION MCSpec
CONSTANTS
  Items = {a, b}
  Values = {v1, v2}
  v1 = v1
  v2 = v2
  Accepts <- MCAccepts
  Bare = {v1}
  Classes = {"PURCHASE_ORDER"}
  MaxEdits = 2
  None = None
  u1 = u1
  u2 = u2
  n1 = n1
  n2 = n2
  Docs = {u1, u2}
  Names = {name}
  Numbers = {n1, n2}
  Contents <- MCContents
  FusionCall = FusionCall
  Nothing = Nothing
  Certainties = {0, 72, 91, 97, 130}
  ItemNumbers = {n1, n2}
  Unset = Unset
  Prose = Prose
  Shapeless = Shapeless
  Raised = Raised
  ToolRounds = 2
  NoTool = NoTool
  RuleCodes = {c1, c2}
  Heavy = 1
  TooMany = 1
  Missing = Missing
  Null = Null
  Unreadable = Unreadable
  DefaultDestination = "US"
  Logic <- MCLogic
  Goods <- MCGoods
  Inches = {5, 12}
  MaxSymbols = 4
  MaxWarnings = 5
  NoVerdict = NoVerdict
  AgentKeys = {"protocol", "checklist"}
  Jobs = {u1, u2}
  NoResult = NoResult
  MaxOverlap = 2
  MaxStops = 1
  Edits = {r1, r2, r3}
  Fields = {"panel_layouts", "brand_treatment"}
  NoBytes = NoBytes
  LabelCalls = {r1, r2, r3}
  Texts = {x, y}
  Tokens = {t1}
  PortalCalls = {r1, r2, r3}
  Sockets = {u1, u2}
  MaxChanges = 2
  Dispatches = {w}
  Registered = {"email", "slack", "in_app"}
  MaxRetries = 1
  MaxSettings = 1
  PaidCalls = {u1, u2}
  Prompts = {p}
  Costs = {1, 2}
  Limit = 2
  Warn = 1
  Providers = 2
  Artists = {a, b, n1}
  Strokes = {x, y}
  Savers = {r1}
  MaxStrokes = 2
  Nobody = Nobody
SYMMETRY Symmetry
INVARIANTS
  SystemTypeOK ComposedIsStored UsesAreRecorded LiveViewsAreSound ResultsAreTrue
  ExtractedIsKept LayoutIsClean DryRunPredicts AnswersAreChecked
PROPERTIES
  OnlyCleanIsValidated FreshCommitsAreSound MixedIsStaleOrImported ProfilesAreKept
  OvershootIsOverlap
CHECK_DEADLOCK FALSE
