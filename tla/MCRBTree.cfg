SPECIFICATION Spec
CONSTANTS
  Node = {0, 1, 2, 3, 4, 5, 6, 7, 8, 9, 10}
  Keys = 10
  NULL = NULL
INVARIANT RedBlack
PROPERTY IsOrderedSet
