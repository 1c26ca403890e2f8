SPECIFICATION TypesSpec
CONSTANTS
  PTs = {1, 2, 3, 4}
  Profiles = {"42e01f", "42001f"}
  H264_90000_PT = 3
  RED_90000_PT = 2
  MaxFormats = 3
INVARIANT SentAsAnswered
