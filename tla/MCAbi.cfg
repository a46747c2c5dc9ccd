CONSTANTS
  Methods <- MCMethods
  Layout <- MCLayout
  Types <- AllTypes
  Encode <- MCEncode
SPECIFICATION AbiSpec
INVARIANT
  SendArrives
PROPERTY
  ClassifiesRight
CHECK_DEADLOCK FALSE
