SPECIFICATION LiveSpec
CONSTANTS
  N = 2
  MaxUps = 3
INVARIANTS
  TypeOK
  ReportIsTrue
  NoReportAfterFailure
  OneReportPerTest
  ReportIsComing
PROPERTIES
  ResultsAreReported
CHECK_DEADLOCK FALSE
