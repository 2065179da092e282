SPECIFICATION FairSpec
CONSTANTS
  Commands <- MtkCommands
  Chips <- AllChips
  Script <- MtkScript
INVARIANTS
  TypeOK
  NoJoinDeadlock
  CompletionAwaited
  SuccessMeansConfigured
  ThreadWithinSession
  AddressSettled
PROPERTIES
  TerminateSticks
  StartIsAnswered
