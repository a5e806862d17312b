SPECIFICATION Spec
CONSTANTS
  None = None
  NoneC = None
  NameOf <- MCNameOf
  StemOf <- MCStemOf
  WordsOf <- MCWordsOf
  DecimalOf <- MCDecimalOf
  NativeType <- MCNativeType
  ScalarCode <- MCScalarCode
  ShellCode <- MCShellCode
  JsonOf <- MCJsonOf
  ChipOfCce <- MCChipOfCce
  OverflowCode = "0x800000"
  Described <- MCDescribed
  Scenario <- MCScenario
INVARIANTS
  TensorsFreedOnce
  ExitZeroWasRerun
  NotReproducedMeansRan
  CustomStaysApart
  GroupsKeepTheirOwnPc
  ReportTellsTheRun
