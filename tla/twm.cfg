SPECIFICATION Spec
CONSTANTS
  TILE_MAX = 5
  NULL = NULL
INVARIANT IsBinaryTree
