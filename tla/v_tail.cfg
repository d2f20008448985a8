CONSTANTS
  Resources = {"f"}
  DryRun = FALSE
  Path = "f"
  FromBeginning = FALSE
  CodecFails = FALSE
  MaxLines = 2
  MaxLives = 2
SPECIFICATION TLSpec
INVARIANT SeenFileResumes
CHECK_DEADLOCK FALSE
