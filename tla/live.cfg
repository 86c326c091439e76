SPECIFICATION LiveSpec
CONSTANTS
  Contexts = {11, 20}
  Prompts = {1, 7}
  Replies = {1}
  SummarizeAt = 55
  TargetAt = 35
  SummaryMax = 20
  RequestOverhead = 2
  NotesOverhead = 3
  KeepRecent = 2
  Undershoot = 4
  MaxEntries = 8
INVARIANTS LiveTypes SummaryCoversPrefix WindowFits SummarySound EndsTruthfully
PROPERTIES FoldingEnds RequestsEnd TabsAgree
CHECK_DEADLOCK FALSE
