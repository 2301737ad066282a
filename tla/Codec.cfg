\* The real limits of the protocol, but for the length of a batch and of a
\* handler's error (bounds of the model, 256 and 4096 in the code): a batch of
\* five still meets the limit of a frame exactly.
CONSTANTS
  MaxFrame = 1048576
  MaxPayload = 262144
  MaxFetchBytes = 524288
  MaxBatch = 5
  MaxError = 5
SPECIFICATION Spec
INVARIANTS SdkUnderstood FormDecides
\* A body is read once.
CHECK_DEADLOCK FALSE
