CONSTANTS
  MaxOrders = 2
  Catalogues <- Sold
  Wishes <- Events
  MaxWork = 2
  Histories <- Traded
  Principal = 1
  MaxRecords = 2
  Reviewers = {"r1"}
  Batch = 2
SPECIFICATION MarketplaceSpec
INVARIANTS
  
  BooksAreTrue
CHECK_DEADLOCK FALSE
PROPERTIES
  PaidIsDelivered
  RecordsArePublished
