SPECIFICATION FairSpec
CONSTANTS
  Shows <- MCShows
  Queries <- MCQueries
  TimeLimit = 30
  Infinity = 1000
  Resolution = 2
INVARIANTS KnowsWhereItIs AnswersAreOnCurve SearchesFind BoxIsTight
PROPERTY QueriesReturn
