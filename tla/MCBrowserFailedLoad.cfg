SPECIFICATION Spec
CONSTANTS
  jpeg = jpeg
  gif = gif
  Picture = {jpeg, gif}
  Lists <- MCLists
  GifOrigin = {gif}
  GifThumbnail = {}
  SourceShown = {gif}
  MaxBrowsers = 2
  MaxPages = 2
INVARIANTS
  LoadingIsLoading
\* The host may not open another browser.
CHECK_DEADLOCK FALSE
