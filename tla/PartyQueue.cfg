SPECIFICATION PlayFairSpec
CONSTANTS
  Songs = {"short", "live"}
  Length <- MCLength
  MaxItem = 3
  MaxQueue = 3
  Seed <- MCSeed
  MaxLag = 3
  MaxPos = 3
  MaxRev = 5
PROPERTY NoRewind
PROPERTY EditsKeepSong
PROPERTY SongEnds
