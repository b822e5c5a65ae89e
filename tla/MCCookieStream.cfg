SPECIFICATION FairSpec
CONSTANTS
  Data = {b1, b2}
  PipeCapacity = 2
  BufSize = 2
  MaxBytes = 4
INVARIANTS NothingLost EofIsComplete KilledOnlyByBrokenPipe
PROPERTIES CallbacksStopAtClose FlushedInTheEnd ImplementsChannel
