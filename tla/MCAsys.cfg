SPECIFICATION AsysSpec
CONSTANTS
  NoPath = NoPath
  NoPid = NoPid
  NoPidC = NoPid
  NoArg = NoArg
  NotInt = NotInt
  a1 = a1
  a2 = a2
  Tracer = {a1, a2}
  Self = a1
  Target = {p}
  TidOf <- MCTid
  CheckBinMaxTimeout = 1
  CheckBinDefaultTimeout = 1
  Request <- MCRequest
  MaxRequest = 1
  MaxDeviceId = 3
  OutName = "asys_output"
  None = "none"
  FirmwareDir <- MCFirmware
  AppDir <- MCApp
  EventDir <- MCEvent
  JsonFile <- MCJson
  ObjectFile <- MCObject
  ObjectOf <- MCObjectOf
  GeGraph <- MCGe
  TfGraph <- MCTf
  BinFile <- MCBin
  TxtOf <- MCTxtOf
  MagicOf <- MCMagic
  StackName <- MCStack
  CoreName <- MCCore
  TxtFile <- MCTxt
  Chips <- MCChips
  HandlerOf <- MCHandler
  StlChips = {"950"}
  ConfigTable <- MCConfig
  Scenario <- MCScenario
INVARIANTS NothingLost OutsideUntouched NothingRunsOn EveryDeviceReported FramesResolved StackTraces
PROPERTIES TraceKept

