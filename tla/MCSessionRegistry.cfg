SPECIFICATION FairSpec
INVARIANTS NoMissedMeeting
PROPERTIES ImplementsRendezvous NothingStays
CONSTANTS
  r1 = r1
  r2 = r2
  s1 = s1
  s2 = s2
  s3 = s3
  a1 = a1
  a2 = a2
  NoMessage = NoMessage
  RequestIds = {r1, r2}
  Streams = {s1, s2, s3}
  Appends = {a1, a2}
  IdOfStream <- MCIdOfStream
  IdOfAppend <- MCIdOfAppend
  RunRequests = {a2}
CHECK_DEADLOCK FALSE
