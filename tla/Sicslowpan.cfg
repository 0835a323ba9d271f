SPECIFICATION LowpanSpec
CONSTANTS
  three = three
  two = two
  whole = whole
  other = other
  peer = peer
  Addr = {all, peer}
  Broadcast = all
  Packet <- MCPacket
  MAX_NEIGHBOR_QUEUES = 1
  QUEUEBUF_NUM = 5
  MAX_PACKET_PER_NEIGHBOR = 5
  MaxTransmissions = {0}
  MAX_FRAME_RETRIES = 1
  MAX_BACKOFF = 0
  SeqWrap = 2
  Datagram <- MCDatagram
  Size <- MCSize
  Dest <- MCDest
  Foreign = other
  max_payload = 102
  uncomp_hdr_len = 40
  packetbuf_hdr_len = 10
  REASS_CONTEXTS = 2
  FRAGMENT_BUFFERS = 2
  TagWrap = 4
  MaxRestarts = 1
INVARIANTS LowpanTypeOK ReassemblyAccounts DeliveredWhole
PROPERTY AllOrNone
CHECK_DEADLOCK FALSE
