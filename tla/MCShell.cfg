\* Any short line, and some sequences of lines.
SPECIFICATION FairSpec
CONSTANTS
  Scripts <- SomeScripts
  MaxLine = 11
  MaxProcs = 4
  MaxFd = 6
  Capacity = 1
INVARIANTS ShellTypeOK BuildIsMeaning ArgumentsFit BlocksGivenBack ParsersAgree
INVARIANTS Plumbed ReaderSeesEnd HoldsReadEnds PromptMeansDone
PROPERTIES FullPipeStays PipelinesEnd
