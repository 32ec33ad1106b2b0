SPECIFICATION Spec
CONSTANTS
  Files <- MCFiles
  Inputs <- MCInputs
  MaxMacros = 5
  MaxCond = 4
  MaxRecursion = 2
  MaxInclude = 3
  MaxIter = 6
  Word = 16
INVARIANTS Preprocessed Expanded Owned Linked
