\* Pipelines in the background use up the processes, and the shell runs one.
SPECIFICATION Spec
CONSTANTS
  Scripts <- Background
  MaxLine = 11
  MaxProcs = 3
  MaxFd = 6
  Capacity = 1
PROPERTY BackgroundBesideShell
