SPECIFICATION TransferFairSpec
CONSTANTS
  eth = eth
  bh = bh
  other = other
  i1 = i1
  i2 = i2
  hexForm = hexForm
  bhForm = bhForm
  Submission = {s1, s2, s3}
  ID = {i1, i2}
  Chain = {eth, bh, other}
  Supported = {eth, bh}
  Form = {hexForm, bhForm}
  FormOf <- Forms
  Requests <- ToRelayChain
  None = None
PROPERTIES SeenForward MonitoredCompletes
CHECK_DEADLOCK FALSE
