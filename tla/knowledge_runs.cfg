SPECIFICATION MCSpec
CONSTANTS
  Commands = {"awk", "dd", "ls"}
  NoOne = "nobody"
  Threads = 2
  BatchSize = 2
  SaveEvery = 2
  MaxAttempts = 2
  CommandNames = {"dd", "jq"}
  NoRule = "unlisted"
  RuleOf <- MCRules
  RuleFlags <- MCFlags
  Answers <- MCAnswers
  FlagAnswers <- MCFlagAnswers
  MaxProcessed = 2
INVARIANT KnownAreAnalysed
INVARIANT ListKeepsAll
INVARIANT AllCounted
INVARIANT RulesPrevail
INVARIANT FindingsAreEncoded
PROPERTY RunEnds
