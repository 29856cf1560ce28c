CONSTANTS
    Base = 2
    Digits = 3
SPECIFICATION Spec
INVARIANTS ArithmeticExact ComparesNumbers RoundTrip
