SPECIFICATION Spec
CONSTANTS
  MAXMSG = 4
  MAXPARAMS = 3
  Inputs <- ChircInputs
  MaxInput = 6
  MaxMessage = 4
  Side = {"client", "server"}
  Other <- OtherEnd
  Char <- SomeChars
  Names <- SomeNames
  Contents <- SomeFiles
  FileByte = {"x"}
  MaxLength = 3
  MaxRequests = 2
  CLIENT_BUF = 2
  SERVER_BUF = 2
INVARIANTS LinesKept ParamsKept FileFaithful PromptInStep
PROPERTIES DialogueEnds
CHECK_DEADLOCK FALSE
