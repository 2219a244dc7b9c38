SPECIFICATION StreamingSpec
CONSTANTS
  Absent = Absent
  Sessions = {s1, s2}
  Tailers = {t1, t2}
  MaxLines = 2
 
PROPERTIES CancelledEnds 
CHECK_DEADLOCK FALSE
