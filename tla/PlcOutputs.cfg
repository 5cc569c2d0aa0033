SPECIFICATION Spec
CONSTANTS
  Outputs = 3
  MaxScans = 3
INVARIANTS
  TypeOK
  SplitOfTwoCopies
  FailedScanHeldBack
PROPERTIES
  PinsNeverGoBack
  WholeImageShown
