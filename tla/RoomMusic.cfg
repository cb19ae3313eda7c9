SPECIFICATION RoomFairSpec
CONSTANTS
  Songs = {song}
  Length <- MCLength
  MaxItem = 2
  MaxQueue = 2
  Seed <- MCSeed
  MaxLag = 1
  MaxPos = 1
  MaxRev = 2
  Users = {host, ann, bob}
  Tabs = {t1}
  Peers = {bob}
  MaxUsers = 2
  GuestsQueue = TRUE
INVARIANT PlaysForSomebody
INVARIANT PlayingIsTicked
PROPERTY PlacesAreKept
PROPERTY MusicStops
