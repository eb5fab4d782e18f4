CONSTANTS
  Users = {u1, u2}
  Instruments <- MCInstrumentSet
  Histograms <- MCHistograms
  MaxInstruments = 2
  MaxEpoch = 1
  Nobody = Nobody
SPECIFICATION FairSpec
INVARIANTS
  InstrumentsBounded
  NoOrphanInstrument
  RecordsWhereBegun
PROPERTY
  GetReturns
