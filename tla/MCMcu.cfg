\* Bytes both ways, a channel of one byte that overflows, a timer that counts from
\* one or stops, and every write to the registers of the two peripherals.
SPECIFICATION Spec
CONSTANTS
  MaxReload = 1
  RxSize = 1
  MaxReceived = 2
  MaxWritten = 1
  MaxTransmitted = 2
INVARIANTS NoInterruptIsLost ReceptionIsOrderly TransmissionIsExact
PROPERTIES TicksAreRegular
