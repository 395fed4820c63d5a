SPECIFICATION Spec
CONSTANTS
  Values <- SomeWords
  Terms <- SomeTerms
INVARIANTS PatternsRight ArithmeticRight
