\* Every argument list of up to four words, and the lists of MCStartup.
SPECIFICATION Spec
CONSTANTS
  ArgLists <- MCArgLists
  Files <- MCFiles
  OtherDashed = {"-x"}
INVARIANTS
  OpensOnlyWellFormed
  LastAssignmentWins
  RunFollowsLoad
