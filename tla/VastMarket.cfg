CONSTANTS
  MaxRenters = 2
  MaxRestarts = 1
  MaxTimeouts = 2
SPECIFICATION FairSpec
CHECK_DEADLOCK FALSE
INVARIANT RentalsAreBooked
PROPERTIES CloseIsDrained WishIsCarriedOut
