SPECIFICATION FairSpec
CONSTANTS
  Addr = {all, x, y}
  Broadcast = all
  Packet = {a, b, c}
  MAX_NEIGHBOR_QUEUES = 2
  QUEUEBUF_NUM = 2
  MAX_PACKET_PER_NEIGHBOR = 2
  MaxTransmissions = {0, 1}
  MAX_FRAME_RETRIES = 1
  MAX_BACKOFF = 1
  SeqWrap = 3
INVARIANTS PoolsConserved QueuesServed AttemptsBounded ReportedOnce
PROPERTIES ReportsFirst EventuallyReported
