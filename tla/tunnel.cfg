SPECIFICATION FairSpec
CONSTANTS
  Visitors = {v1}
  Conns = {k1, k2}
  None = None
  OutRoom = 2
  BackRoom = 2
  BodyRoom = 1
  UploadRoom = 1
  MaxUpload <- TwoChunks
  MaxReply <- TwoChunks
INVARIANTS NoOrphan WholeIsWhole HeadIsHonoured
 
CHECK_DEADLOCK FALSE
