CONSTANTS
  Agents = {1, 2, 3}
  MaxSources = 2
SPECIFICATION FairSpec
INVARIANTS SortedIsTopological CyclicIsACycle
PROPERTY Terminates
