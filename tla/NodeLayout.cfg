CONSTANTS
  Key <- MCKey
  Val <- MCVal
  KeyBytes <- MCKeyBytes
  ValBytes <- MCValBytes
  Ptr <- MCPtr
  PageSize = 48
  MaxAllowedKVLen = 5
SPECIFICATION Spec
INVARIANTS LayoutAgrees SizeAgrees TailIsClear
