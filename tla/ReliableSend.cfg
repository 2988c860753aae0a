\* Two messages in parallel, of up to as many fragments as there are fragment
\* ids; no sequence id is used twice.
CONSTANTS
  Sizes = {1, 2}
  SeqSpace = 6
  FragSpace = 2
  AckStyles = {"multi"}
  MaxJobs = 2
  MaxWire = 1
  MaxAcks = 2
SPECIFICATION Spec
INVARIANTS TypeOK NeverForgotten MessageComplete
CHECK_DEADLOCK FALSE
