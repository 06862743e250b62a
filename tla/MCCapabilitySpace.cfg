CONSTANTS
  linux1 = linux1  linux2 = linux2  obj = obj
  N = 3
  MaxGen = 3
  MaxDelegationDepth = 2
  Rights = {"delegate"}
  RootOnly = {}
  Pids = {linux1, linux2}
  LinuxPids = {linux1, linux2}
  Objects = {obj}
  MaxPending = 1
SPECIFICATION Spec
INVARIANTS DelegationTree NamesCurrent
PROPERTIES RevokesDescendants HandlesStable
SYMMETRY ProcessSymmetry
