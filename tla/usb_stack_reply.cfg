SPECIFICATION Spec
CONSTANTS
  Mps = 2
  DescLengths = {1}
  WLengths = {4}
  Eps = {"CDC_ECM_CMD_EP"}
INVARIANTS
  ReplyIntact
