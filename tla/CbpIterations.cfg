SPECIFICATION Spec
CONSTANTS
  Number <- Numerals
  Huge <- HugeNumerals
  Parts <- Compounds
  IdSpan = 16
  AddrSpan = 64
  TraceFiles <- Files
  buffer_size = 4
  Opens <- Quotes
  Closes <- Unquotes
  HIST_LEN = 2
  PREDICTOR <- GsharePredictor
  GetPrediction <- GshareGetPrediction
  UpdatePredictor <- GshareUpdatePredictor
  TrackOtherInst <- GshareTrackOtherInst
  HeartBeats <- Beats
  MaxSequence = 8
INVARIANT OneIterationPerBranch
