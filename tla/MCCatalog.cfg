CONSTANTS
  Tile <- MCTile
  Place <- MCPlace
  HardLinks = FALSE
  MaxVersion <- MCMaxVersion
SPECIFICATION Spec
INVARIANTS LinksResolve ItemsDescribeTheCogs
CHECK_DEADLOCK FALSE
