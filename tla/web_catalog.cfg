\* Three runs of the pages' effects over two products.
SPECIFICATION CatalogSpec
CONSTANTS
  p1 = p1
  p2 = p2
  Products <- MCProducts
  Static <- MCStatic
  MaxCompare = 1
  MaxRuns = 3
INVARIANTS
  ShowsWhatIsAsked
  ProductLinesAreLive
PROPERTIES
  LoadingEnds
CHECK_DEADLOCK FALSE
