SPECIFICATION FairSpec
CONSTANTS
  Absent = Absent
  Senders = {w1, w2, w3}
  Tokens = {t1, t2, t3, t4}
  ClaimTicks = 2
  AcceptedTicks = 3
PROPERTIES AnswersAreTrue ClaimsEnd
