SPECIFICATION FairSpec
CONSTANTS
  Pairs = {p1}
  Configs = {{"always_increase", "increase", "always_decrease", "decrease"},
             {"always_increase", "always_decrease"}, {"decrease"},
             {"decrease", "garbage_collect"}}
  MinSize = 1
  MaxSize = 4
  MaxFailures = 2
INVARIANTS
  IInv
  ReversedOnlyByStaleRead
PROPERTIES
  RoundEndsBalanced
  UnevenIsRepaired
