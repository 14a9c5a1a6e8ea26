CONSTANTS
  NoParent = NoParent  NoThread = NoThread
  MaxId = 3
  MaxExecs = 2
  Calls = {"thread", "fork", "vm", "vfork", "refused", "exec", "exit", "exit_group", "tgkill", "wait4"}
  Targets <- MCAllTargets
  Options = {"none", "nohang", "untraced"}
SPECIFICATION FairSpec
INVARIANTS TidsAreUnique ParentIsSuspended NobodyIsForgotten
PROPERTIES OldestServedFirst ChildrenLive PassesEnd
