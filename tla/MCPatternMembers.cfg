CONSTANTS
  None = None
  MaxLba = 35
  LbaXor <- MCXor
  Captures <- MCCaptures
  Questions <- MCQuestions
SPECIFICATION MembersSpec
INVARIANTS ReadersAgree DamageIsFound Decides
CHECK_DEADLOCK FALSE
