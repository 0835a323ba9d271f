SPECIFICATION FairSpec
CONSTANTS
  Request = {r1}
  Endpoint = {e1, e2}
  Uri = {u1}
  COAP_MAX_OPEN_TRANSACTIONS = 2
  COAP_MAX_OBSERVERS = 2
  COAP_MAX_RETRANSMIT = 1
  MaxMid = 4
  MaxBlock = 1
  NULL = NULL
INVARIANT TimersServe
PROPERTIES TransactionCloses RequestFinishes
