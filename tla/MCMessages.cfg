SPECIFICATION Spec
CONSTANTS
  m1 = m1
  m2 = m2
  t1 = t1
  u1 = u1
  q1 = q1
  q2 = q2
  NoText = NoText
  Messages <- MCMessages
  Plain <- MCPlain
  Texts <- MCTexts
  Blank = Blank
  Sent = Sent
  Users <- MCUsers
  Author <- MCAuthor
  Requests <- MCRequests
  Bodies <- MCBodies
SYMMETRY MCSymmetry
INVARIANTS
  OriginalKept
  ReadsAnswered
PROPERTIES
  KeepsBoard
