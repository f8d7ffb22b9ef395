SPECIFICATION Spec
CONSTANTS
  Alpns = {"h2", "h3"}
  Snis = {"a"}
  Offers <- MCOffers
  Cap = 1
  MaxData = 2
  MaxSsn = 1
  MaxRecords = 1
INVARIANT NoStall
INVARIANT AlpnCurrent
INVARIANT OwnedOnce
CHECK_DEADLOCK FALSE
