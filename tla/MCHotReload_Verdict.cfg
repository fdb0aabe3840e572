SPECIFICATION HotSpec
CONSTANTS
  Files <- MCFiles
  Content <- MCContent
INVARIANT SameVerdict
