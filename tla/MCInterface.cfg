CONSTANTS
  Prompts = {p1, p2, s1}  Shells = {s1}  None = None
  MaxTyped = 3  MaxBreaks = 1
  Overlays = {o1, o2}  NonCapturing = {o2}  Dialogs = {d1}  View = View  NoFocus = NoFocus
  Lines = {la, lb}  MaxLines = 3  Sizes <- TwoSizes  Blank = Blank  Mixed = Mixed
  Requesters = {r1, r2}  MaxTimers = 3  MaxQueue = 2
  Answers <- SomeAnswers  SteerTexts = {x, y}  MaxRuns = 2  MaxTurns = 2  MaxSteers = 2
  Width = 3  MaxText = 4  MaxUndo = 2  MaxKills = 2  MaxPrompts = 1  MaxPastes = 2  MaxEdits = 5
  MaxRows = 3  Heights = {1, 2}  Budgets <- SomeBudgets  MaxGenerations = 5
SPECIFICATION Spec
INVARIANTS
  TypeOK
  
  TypedKept
  FramesKept
  ViewKept
CHECK_DEADLOCK FALSE
