\* One message of up to three fragments, everything scheduled fairly.
CONSTANTS
  Sizes = {1, 3}
  SeqSpace = 6
  FragSpace = 3
  AckStyles = {"multi"}
  MaxJobs = 1
  MaxWire = 2
  MaxAcks = 2
SPECIFICATION FairSpec
PROPERTIES EverythingArrives
CHECK_DEADLOCK FALSE
