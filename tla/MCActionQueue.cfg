\* One server, up to two file errors, and two stops, power failures or
\* edits of the model.
SPECIFICATION Spec
CONSTANTS
  Ids = {"i1", "i2"}
  Actions = {"a"}
  Models = {"m1", "m2"}
  Journals <- MCJournals
  Calls <- MCCalls
  MaxFaults = 2
  MaxEvents = 2
INVARIANTS ToldIsDurable OneAnswer Repairable
PROPERTIES Answered
CHECK_DEADLOCK FALSE
