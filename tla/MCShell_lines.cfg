\* What goes wrong with single lines.  One invariant at a time: the others are
\* FirstBlocksGivenBack and FreedIsSet.
SPECIFICATION Spec
CONSTANTS
  Scripts <- SomeScripts
  MaxLine = 11
  MaxProcs = 4
  MaxFd = 6
  Capacity = 1
INVARIANT UnendedIsMeaning
