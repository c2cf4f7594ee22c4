\* Supported: what encoders and decoders register. Replies: whatever a coder
\* may answer that keeps the contract asserted at the end of lzma_code_impl,
\* never BUF_ERROR by itself.
SPECIFICATION Spec
CONSTANTS
  MaxIn = 2
  Supported = {{"RUN", "SYNC_FLUSH", "FULL_FLUSH", "FULL_BARRIER", "FINISH"}, {"RUN", "FINISH"}}
  Replies = {"OK", "TIMED_OUT", "SEEK_NEEDED", "STREAM_END", "NO_CHECK", "UNSUPPORTED_CHECK", "GET_CHECK",
             "MEMLIMIT_ERROR", "MEM_ERROR", "FORMAT_ERROR", "OPTIONS_ERROR", "DATA_ERROR", "PROG_ERROR"}
INVARIANTS
  FlushInputFrozen
  BufErrorIsSecondIdleCall
PROPERTIES
  FlushNotDropped
