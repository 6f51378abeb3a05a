\* Two workers, and the twelve units that the program has for them.
SPECIFICATION FairSpec
CONSTANTS
  Main = Main
  Workers = {w1, w2}
  num_work_units = 12
  INT_MAX = 20
INVARIANTS TypeOK NoDataRace IndexDoesNotOverflow
PROPERTIES MainReturns ImplementsJob
