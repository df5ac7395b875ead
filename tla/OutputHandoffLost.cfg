SPECIFICATION FairSpec
CONSTANTS
  MaxMade = 2
  Torn = Torn
PROPERTY AnnouncedIsForwarded
