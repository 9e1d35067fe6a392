SPECIFICATION FairSenderSpec
CONSTANTS
  Slots = 2
  SlotCapacity = 2
  BufferCapacity = 2
  d1 = d1
  d2 = d2
  Data = {d1, d2}
  Encoded <- MCEncoded
  Garbage = garbage
  MaxSequence = 1
  Numbers = 7
  Datagrams <- MCDatagrams
  MaxInbox = 1
  MaxRestarts = 1
PROPERTY RelayedRequestRead
