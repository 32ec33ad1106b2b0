SPECIFICATION Spec
CONSTANTS
  Budget = 2
  IfNest = 16
  StackMax = 16
  Unroll = 1
  Grammar <- Rules
  Batches <- TheBatches
  FilesOf <- TheFiles
  TextsOf <- TextsOfFiles
INVARIANTS
  DeclarationsRead
  ExpressionsRead
  StatementsRead
  WholeTextRead
  NothingLeft
