CONSTANTS
  NoParent = NoParent  NoThread = NoThread
  MaxId = 3
  MaxExecs = 1
  Calls = {"fork", "exec", "exit_group"}
  Targets <- MCAny
  Options = {"none"}
SPECIFICATION Spec
PROPERTIES VerifyChildKnown

