SPECIFICATION FairSpec
CONSTANTS
  a1 = a1
  a2 = a2
  a3 = a3
  b1 = b1
  a4 = a4
  NoTicket = NoTicket
  Tickets <- MCTickets
  Keys <- MCKeys
  KeyOf <- MCKeyOf
  QueueMaxSize = 2
  Cancellable <- MCTickets
INVARIANTS
  TypeOK
  OnlyHolderRuns
  SlotsConsistent
  NoLostCaller
PROPERTIES
  MergedMeansExecuted
  ImplementsSerialQueue
  EveryCallerAnswered
