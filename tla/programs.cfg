SPECIFICATION Spec
CONSTANTS
  GRID_W = 12
  GRID_H = 3
  FOOD <- MC_FOOD
  SNAKE_KEYS = {"1", "2", "w", "s", "a", "up", "left", "r", "F1"}
  COLS = 4
  ROWS = 3
  RANDOM <- MC_RANDOM
  CONWAY_KEYS = {"F1", "enter", "space", "r", "c", "s", "d"}
  DEMO_KEYS = {"q", "bs", "+", "-", "enter"}
  DEMO_DIGITS = {0, 1, 3, 8, 9}
  LOADS <- MC_LOADS
  VGA_COLS = 3
  VGA_ROWS = 4
  SHELL_LINE_SIZE = 4
  LETTERS = {"x", "y"}
  SCENARIOS <- MC_SCENARIOS
INVARIANTS
  TypeOK BodiesSound FoodFree GameShown PopulationExact GridShown MuxFollowsDemo NttExact LineShown
PROPERTIES
  ImplementsLife ImplementsPaper
CHECK_DEADLOCK FALSE
