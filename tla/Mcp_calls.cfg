SPECIFICATION McpSpec
CONSTANTS
  Calls = {"c1", "c2"}
  Streams <- ServerStreams
  MaxRedirects = 1
  MaxCut = 3
INVARIANTS
  AnswersItsRequest
  ReplyIsTaken
CHECK_DEADLOCK FALSE
