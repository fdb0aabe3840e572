SPECIFICATION HotSpec
CONSTANTS
  Files <- MCFiles
  Content <- MCContent
INVARIANTS RestIsTold CurrentStarts
PROPERTY ChangeIsTold
