CONSTANTS
  s1 = s1  s2 = s2  NoSpec = NoSpec
  both = both  single = single  None = None
  Specs <- MCSpecs
  Playlists <- MCPlaylists
  EntriesOf <- MCEntries
  Choices <- MCChoices
  MaxEvents = 5
SPECIFICATION FairSpec
INVARIANTS OneTransaction
PROPERTIES  RefusedNotRetried PlaylistFollowed
