SPECIFICATION Spec
CONSTANTS
  Evenings = {1, 2, 3}
  Words <- SomeWords
  Offers <- SomeOffers
  Shown = 2
  Polled = 2
  Polls = {1, 2}
  MostVotes = 2
  Scenes <- InternalScenes
  Events = {1, 2}
  Hands = {left, right}
SYMMETRY HandsAlike
INVARIANTS InternalKeepsNoDetails
CHECK_DEADLOCK FALSE
