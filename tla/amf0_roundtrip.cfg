SPECIFICATION Spec
CONSTANTS
  Radix = 3
  Garbled = 255
  Values <- SomeValues
  Unreadable <- SomeUnreadable
  Forms <- SomeForms
  MaxValues = 2
  Commands <- SomeCommands
  Infos <- SomeInfos
  Pairs <- SomePairs
  MaxPairs = 2
INVARIANT ValuesComeBack
INVARIANT CommandsAreUnderstood
CHECK_DEADLOCK FALSE
