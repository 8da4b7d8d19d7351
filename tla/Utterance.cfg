SPECIFICATION UtteranceSpec
CONSTANTS
  Providers = {"open_ai", "openai_realtime", "xiaomi_aivs"}
  ChunkBlocks = 2
  PreRoll = 2
  Silence = 2
  MinSpeech = 2
  MaxSpeech = 5
  Cooldown = TRUE
  Attempts = 2
  Capacity = 2
  MaxChunks = 6
  Turns = 2
INVARIANTS TranscriptIsTheUtterance SlotIsTheRequests
PROPERTY CommandAnswered
CHECK_DEADLOCK FALSE
