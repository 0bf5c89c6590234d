CONSTANTS
  Exchange <- MCExchange
  DefaultEx <- MCDefaultEx
  Queue <- MCQueue
  Key <- MCKey
  ClientId <- MCClientId
  ExchangeRequests <- MCExchangeRequests
  QueueRequests <- MCQueueRequests
  DlqRequests <- MCDlqRequests
  BindRequests <- MCBindRequests
  Publications <- MCPublications
  NoQueue = NoQueue
  Unbound = Unbound
  MaxPublish = 3
SPECIFICATION Spec
INVARIANT TypeOK
INVARIANT Integrity
INVARIANT UniqueIds
PROPERTY NackIsAMove
