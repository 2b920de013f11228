SPECIFICATION Spec
CONSTANTS
  WordBits = 18
  DepthLimit = 9
  Broken = {"not UTF-8"}
  skipValue <- SkipValue
  Calls = {1, 2}
  Scripts <- MCScripts
  Answers <- MCAnswers
INVARIANTS
  StoredAsWritten RefusesExactly SentIsAccepted ForeignReadExactly
  HostSurvives AnswerIsTheHandlers
CHECK_DEADLOCK FALSE
