\* two local readers and a remote one; the writer stops after MaxObjects
SPECIFICATION FairSpec
CONSTANTS
  NumReader = 2
  RemoteReaders = {9}
  MaxChunks = 2
  MaxObjects = 3
INVARIANT NoOverwriteWhileRead
PROPERTY RefinesBroadcast
PROPERTY EverythingIsDelivered
CHECK_DEADLOCK FALSE
