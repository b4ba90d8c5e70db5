SPECIFICATION Spec
CONSTANTS
    Modulus = 16
    Period = 5
    MaxWait = 40
INVARIANT WaitBounded
PROPERTY ExportsSpaced
