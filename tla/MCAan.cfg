SPECIFICATION FairSpec
CONSTANTS
  Nbuf = 2
  MaxSend <- Requests
  MaxBreaks = 2
  Answering = {"server"}
  Closing = {"client"}
 
PROPERTIES InOrderOnce Carried ClientLeaves
CHECK_DEADLOCK FALSE
