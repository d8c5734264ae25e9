\* All requests; replies of one to five bytes in packets of two.
SPECIFICATION Spec
CONSTANTS
  Mps = 2
  DescLengths = {2, 4}
  WLengths = {0, 3, 5}
  Eps = {"CDC_ECM_CMD_EP"}
INVARIANTS
  TypeOK
  SuspendMatchesBus
  ConfigAgreed
  ReplyComplete
  StallMeansRefused
  Answered
  ControlOnce
  NotificationsInOrder
  NotificationUnderWay
  HaltTracked
PROPERTIES
  DeviceSpec
