SPECIFICATION FairSpec
CONSTANTS
  Methods = {"GET", "POST", "PUT", "HEAD", "TRACE", "DELETE", "OPTIONS"}
  ReqSize = 13
  RspSize = 16
  ReqMax = 24
  RspMax = 24
  MaxSegment = 8
  Torn = FALSE
  Conversations <- MCConversations
  Answers <- MCAnswers
CHECK_DEADLOCK FALSE
INVARIANTS InBuffer  AnswersMatch RefusesInvalid
PROPERTIES EachAnswered
