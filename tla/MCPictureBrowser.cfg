SPECIFICATION Spec
CONSTANTS
  jpeg = jpeg
  gif = gif
  Picture = {jpeg, gif}
  Lists <- MCLists
  GifOrigin = {gif}
  GifThumbnail = {}
  SourceShown = {gif}
  MaxBrowsers = 2
  MaxPages = 3
INVARIANTS
  TypeOK
  OneLoad
  CurrentTagged
  SourcesShown
  TagsReturn
PROPERTIES
  StatusForward
\* The host may not open another browser.
CHECK_DEADLOCK FALSE
