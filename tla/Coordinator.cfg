SPECIFICATION FairSpec
CONSTANTS
  Searches = {s1}
  Queries = {q}
  Capacity = 1
  EmbeddingCapacity = 1
  Lifetime = 1
  MaxVectors = 2
  MaxHost = 1
  MaxGen = 2
  None = None

INVARIANTS ServedIsCurrent ServedKnowsTheHost NothingOfTheCancelled
PROPERTIES StaleEnds
