SPECIFICATION FairSpec
CONSTANTS
  Input <- TwoChunks
  Window = 1
  MaxRetransmits = 1
  DupAcks = 1
  MaxAcks = 1
  MayAbort = FALSE
PROPERTIES WriterResumes WritingSettles
CHECK_DEADLOCK FALSE
