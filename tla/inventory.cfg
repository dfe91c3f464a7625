\* Orders line by line, an administrator who updates, renames, deletes and posts
\* items, and restarts, from shops with and without items.
SPECIFICATION StartupSpec
CONSTANTS
  headphones = headphones
  mouse = mouse
  Products <- MCProducts
  Carts <- MCCarts
  InitRows <- MCShop
  LowStockThreshold = 1
  Admins = {a1}
  AdminOps = {"update", "rename", "remove"}
  NewProducts = {mouse}
  Quantities = {1}
  NoProduct = NoProduct
  Seeds <- MCSeeds
CONSTRAINT NoneParted
INVARIANTS
  TypeOK
  ReadsStayValid
  SeededCatalogueIsWhole
PROPERTIES
  CommitsAreWholeOrders
  MisfitSavesUnbalance
  SeedingSparesItems
CHECK_DEADLOCK FALSE
