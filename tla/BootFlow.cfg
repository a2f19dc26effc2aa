\* Two books, two images that can be rolled back.
SPECIFICATION Spec
CONSTANTS
  Book = {b1, b2}
  NoBook = NoBook
  Digest = {d1, d2}
  NoDigest = NoDigest
INVARIANT UpdatesNeedConsent
PROPERTIES
  NoResumeLoop WakeResumesBook SplashlessOncePerSleep WakeShowsItsFrame
  SleepIsFinal
