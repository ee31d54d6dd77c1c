\* A dispute opened beside a confirmation.
SPECIFICATION Spec
CONSTANTS
  m1 = m1  m2 = m2  q1 = q1  q2 = q2  q3 = q3  w1 = w1  w2 = w2
  None = None
  Missions = {m1, m2}
  Quotes = {q1, q2, q3}
  Workers = {w1, w2}
  Of <- MCOf
  Gross <- MCGross
  Opening = 4
CHECK_DEADLOCK FALSE
PROPERTIES DisputeSuspends
