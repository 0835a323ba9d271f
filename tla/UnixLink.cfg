SPECIFICATION LinkFairSpec
CONSTANTS
  Addr = {all, peer}
  Broadcast = all
  Packet = {a, b}
  MAX_NEIGHBOR_QUEUES = 2
  QUEUEBUF_NUM = 2
  MAX_PACKET_PER_NEIGHBOR = 2
  MaxTransmissions = {0}
  MAX_FRAME_RETRIES = 1
  MAX_BACKOFF = 0
  SeqWrap = 3
  FirstSeqno = {2}
  Me = me
  Peer = peer
  Other = {o}
  ForeignDest = {all, me, peer}
  ForeignSeqno = {1, 2}
  MAX_SEQNOS = 1
  Medium = 2
  Noise = 1
INVARIANTS LinkTypeOK RadioReady CountedOnce ConfirmedDelivered
PROPERTIES TransmitReturns DuplicateExplained
