SPECIFICATION Spec
CONSTANTS
  Threads = {t1, t2}
  Words = {"hey"}
  Configs <- MCConfigs
  VoiceRate = 16000
  PlaceholderRate = 22050
  Cooldown = 2
  MaxStreams = 2
  MaxTime = 2
  None = None
SYMMETRY Symmetry
INVARIANTS StreamsAreShown SoundKeepsItsLength
PROPERTIES WakesAreSpaced
