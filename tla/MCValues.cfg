CONSTANTS
  NULL = NULL
  SimpleSize = 256
  ControlSize = 128
  MaxFloat = 100
  ShortNames = {"Object", "Format", "Props", "audio", "raw", "S16_LE", "F32_LE"}
  Invalid = Invalid
  MaxUint = 15
  Pending = Pending
  Inputs <- MCInputs
  Memory <- MCMemory
SPECIFICATION VSpec
INVARIANTS BuiltPods ReadsWholePods NamesResolve AudioIsExact
CHECK_DEADLOCK FALSE
