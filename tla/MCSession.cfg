CONSTANTS
  small = small
  large = large
  foreign = foreign
  strict = strict
  Actions = {small, large, foreign}
  Policies = {strict}
  Policy = strict
  Denied <- DeniedIn
  AsksConsent <- AskingIn
  Deadline = 1
  NoAction = NoAction
  NoPlan = NoPlan
  Malformed = Malformed
  Allowance <- AllowanceOf
  MaxSteps = 3
  MaxOutput = 3
  MaxRequests = 2
  MaxDiagnostics = 1
  MaxParts = 1
  Capacity = 2
SPECIFICATION SidesSpec
INVARIANTS
  EveryLaunchIsAccounted
  CompletionIsEarned
  ReturnedDialogueIsWhole
PROPERTIES
  NothingStartsOnceStopped
  CallsFollowQuiet
  ImplementsMediatedDialogue
  SessionEnds
  DialogueEnds
CHECK_DEADLOCK FALSE
