\* A buffer of two bytes.
CONSTANTS
  DigitBits = 2
  Dollar <- MCDollar
  Star <- MCStar
  Return <- MCReturn
  Digits <- MCDigits
  DigitValue <- MCDigitValue
  MaxSentenceLength = 2
  Body <- MCBody
  Noise <- MCNoise
SPECIFICATION Spec
INVARIANTS TypeOK EmittedAsSent AcceptedOnce IntactIsAccepted
