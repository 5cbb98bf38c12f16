SPECIFICATION Spec
CONSTANTS
  MaxPayload = 16
  PLD_INDEX = 2
  Addresses <- NextHops
  NumPackets = 3
  NumEntries = 2
  LinkAddress <- MyAddress
  Boot <- BootConf
  Written <- WrittenValues
  Payloads <- Rules
  Nets = {1, 5}
  Rssi = {50}
  MaxReplies = 1
  MaxCount = 256
  Unwritten = Unwritten
INVARIANTS RepliesTrue ListWhole AnswersTo
PROPERTIES DeafUntilRestart
