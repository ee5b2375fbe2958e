SPECIFICATION Spec
CONSTANTS
  Managers = {1, 2}
  User = 1
  Players = {1, 2, 3, 4}
  Squad <- MCSquad
  Current <- MCCurrent
  Lineups <- MCLineups
  Position <- MCPosition
  Club <- MCClub
  ClubLimit = 2
  Starting = 2
  Gameweeks <- MCGameweeks
  Projected <- MCProjected
  Absence <- MCAbsence
  MaxAutosubs = 1
  Replacement = 1
  Scale = 2
  Kept <- MCKept
  Points = {0, 3}
  Adjustments = {0}
  Bonuses = {0, 5}
  Shortlist = 2
  None = None
CHECK_DEADLOCK FALSE
INVARIANTS
  CaptaincyAnswersHold
  ScenariosMeasureTheMove
