SPECIFICATION FairSpec
CONSTANTS
  Runs <- MCRuns
  Directory = "dir"
  Policy = "file"
INVARIANTS
  TypeOK
  RoutersMatchFiles
  
  AnswersAgree
PROPERTY RunEnds
