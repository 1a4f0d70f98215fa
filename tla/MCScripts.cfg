CONSTANTS
  load = load
  sig = sig
  new1 = new1
  new2 = new2
  Empty = empty
  Stored = stored
  Mode = "viewer"
  LoadLua = load
  SubName = sig
  NewNames <- MCNewNames
  OtherNames <- MCOtherNames
  Answers = {"save", "discard"}
  Texts = {t1}
  MaxScripts = 2
  MaxChanges = 2

SPECIFICATION Spec
INVARIANTS ListsAgree  CurrentIsRun TypeOK
CHECK_DEADLOCK FALSE
