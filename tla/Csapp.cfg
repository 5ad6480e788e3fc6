SPECIFICATION CsappSpec
CONSTANTS
  Total = 4
  Newlines = {2}
  RIO_BUFSIZE = 2
  PIPE_BUF = 3
  WriteSizes = {1, 3}
  ReadSizes = {1, 3}
  LineSizes = {2, 4}
  MaxLen = 4
  MaxAddrs = 3
  Fds = {3, 4}
CHECK_DEADLOCK FALSE
INVARIANTS WroteAll InOrder Accounted ShortMeansEOF LineAnswered OnlyTheAnswer Answers
PROPERTIES NeverStuck Termination
