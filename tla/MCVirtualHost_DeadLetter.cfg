CONSTANTS
  Exchange <- MCExchange
  DefaultEx <- MCDefaultEx
  Queue <- MCQueue
  Key <- MCKey
  ClientId <- MCClientId
  ExchangeRequests <- MCExchangeRequests
  QueueRequests <- MCQueueRequests
  DlqRequests <- MCDlqRequestsOther
  BindRequests <- MCBindRequests
  Publications <- MCPublications
  NoQueue = NoQueue
  Unbound = Unbound
  MaxPublish = 3
SPECIFICATION Spec
PROPERTY DeadLetterArrives
