SPECIFICATION SvcSpec
CHECK_DEADLOCK FALSE
CONSTANTS
  RefCount = 2
  Payloads = {"p", "q"}
  Uuid = "uuid"
  Login = "login"
  Commands = {"INVOKE_COMMAND"}
  Freq = 7
  Nanos = 10
  Word = 512
  MaxTicks = 60
  TpmSessions = {1, 2, 3}
  MtlChannels = {"LOW", "HIGH", "SECURE"}
  ResponseTimeOut = 250
  PollWaitTime = 100
  MaxMessages = 3
  SccRegisters = TRUE
  CfgFunctions = {"OSC_SITE1", "OSC_SITE2", "MUXFPGA", "OSC", "SCC", "RTC", "SHUTDOWN"}
  CfgValues = {"v", "w"}
  FbNumbers = {1, 2}
  FbValues = {1, 2}
  FbSizes = {1, 2}
  FbKept = {"boot", "system"}
  FbRests = {"", "x"}
  LcdTable = 3
  LcdMaxMode = 2
  LcdClocks = 3
  HdLcdClock = 1
INVARIANTS OutputsReturned ExactBeforeWrap TpmMeasuredAtExit MtlOwnAnswer ScCarriedOut FbWritesNamed LcdConsistent
