SPECIFICATION Spec
CONSTANTS
  Setups <- MCSetups
  Arrivals <- MCArrivals
  Cases <- MCCases
  NonceSize = 2
  ReadSizes = {1, 4}
CHECK_DEADLOCK FALSE
INVARIANTS SecureEndsAgree DataInOrder HandedOverWhole ServedAsItSpeaks
PROPERTIES GoodConnectionWorks
