SPECIFICATION FairSpec
CONSTANT Receivers = 4
PROPERTY CloseWakesReceiver
CHECK_DEADLOCK FALSE
