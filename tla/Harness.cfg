CONSTANTS
  Recipes <- ThreeRecipes
  Builds = {"A-full", "A-gzip"}
  OthersAsk = {"other", ""}
  MaxVisits = 3
SPECIFICATION Spec
INVARIANTS EachRecipeOnItsOwnGuest OneBuildEach AnswersToTheirCells BannerIsLive
PROPERTY EveryVisitEnds
CHECK_DEADLOCK FALSE
