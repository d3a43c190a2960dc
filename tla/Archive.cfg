CONSTANTS
  Key <- MCKey
  Keys = 12
  Degrees = {2, 3}
SPECIFICATION Spec
INVARIANTS Audited OperationsAgree
