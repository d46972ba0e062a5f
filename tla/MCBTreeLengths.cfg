SPECIFICATION Spec
CONSTANTS
  Key = {1, 2, 3, 4}
  Payload = {"short", "long", "huge"}
  Length <- MCMixed
  Absent = Absent
  PageSpace = 42
  MaxPageId = 6
INVARIANTS NoStaleRead LatestInChain ChainIsComplete SpoiledLinksAreDead PagesFit
