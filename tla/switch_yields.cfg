CONSTANTS
  s1 = s1  s2 = s2  NoSpec = NoSpec
  both = both  single = single  None = None
  Specs <- MCSpecs
  Playlists <- MCPlaylists
  EntriesOf <- MCEntries
  Choices <- NoChoices
  MaxEvents = 5
SPECIFICATION FairSpec
PROPERTIES OwnRendererGivesWay
