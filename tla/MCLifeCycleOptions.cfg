SPECIFICATION Spec
CONSTANTS
  Runs <- MCRuns
  Directory = "dir"
  Policy = "file"
INVARIANT RunOptionsOptional
