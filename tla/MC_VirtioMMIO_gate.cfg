\* Any sequence of register writes by the guest to the block device:
\* feature selectors, feature words, status values with and without
\* FEATURES_OK, resets, queue selectors past MAX_QUEUE, queue sizes including
\* 0, a non-power of two and one above MAX_QUEUE_NUM; and config-space reads
\* and writes of every size the code handles, at offsets inside, at and past
\* the end of the 16-byte config space and at the last offset of the 4 KiB
\* window (0xFFF - 0x100).
CONSTANTS
  DeviceFeatures <- BlkFeatures
  ConfigSize = 16
  MaxQueue = 1
  MaxQueueNum = 16
  AccessSizes = {0, 1, 2}
  ConfigOffsets <- CfgOffsets
  SelVals = {0, 1, 2}
  WordVals <- GateWords
  StatusVals <- GateStatus
  QueueNumVals <- GateQueueNums
  AddrVals = {0}
  AckVals = {{"vring"}}
SPECIFICATION Spec
INVARIANT TypeOK FeaturesOkSound ConfigAccessInBounds
