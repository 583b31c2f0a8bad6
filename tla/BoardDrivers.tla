---------------------------- MODULE BoardDrivers ----------------------------
(***************************************************************************)
(* Drivers that share their state with an interrupt or with the data       *)
(* transfer controller: the I2C channel of the EEPROM, the buffered UARTs, *)
(* the fan tachometers and the debounced inputs.  An action is one         *)
(* interrupt, or one piece of main-loop code between two points where an   *)
(* interrupt can make a difference.  What the peripherals do is external.  *)
(***************************************************************************)
EXTENDS ControlUnits, Integers, Sequences

CONSTANTS
    WriteSizes, ReadSizes,      \* bytes of an I2C transfer
    BufferSize, SequenceModulus,\* DTC_RECEIVE_BUFFER_SIZE_BYTES; numbers of received bytes
    PacketSizes,                \* bytes of a UART transmission
    CounterModulus, Intervals,  \* 2^16 in the code; counts between two edges
    PollsToOff,                 \* InputCapturePollCountToSetToOff
    OffToOnCount, OnToOffCount  \* debounce counts of an input

ASSUME BoardDriversAssumption ==
    /\ WriteSizes \subseteq Nat \ {0} /\ ReadSizes \subseteq Nat \ {0, 1}
    /\ BufferSize \in Nat \ {0, 1} /\ SequenceModulus \in Nat /\ SequenceModulus > BufferSize
    /\ PacketSizes \subseteq Nat \ {0}
    /\ CounterModulus \in Nat \ {0} /\ Intervals \subseteq Nat
    /\ {PollsToOff, OffToOnCount, OnToOffCount} \subseteq Nat \ {0}

-----------------------------------------------------------------------------
(* I2c_Rx130SerialChannel0.c.  wire is what the peripheral is busy with: a *)
(* byte that goes out, a byte that came in and is still acknowledged, or   *)
(* nothing; request, the condition it generates.  rie, tie and ackt are    *)
(* its receive and transmit interrupt enables and its answer to a byte;    *)
(* callback is the member of the union of callbacks that was set last,     *)
(* told the one that was called, acks the answers of the last read.        *)
(* client is what the caller may do next: everything after a start, a Stop *)
(* after an error, nothing before its callback.                            *)

I2cStates ==
    [op |-> "Idle", callback |-> "none", index |-> 0, readSize |-> 0, writeSize |-> 0,
     dataHasBeenRead |-> FALSE, busBusy |-> FALSE, rie |-> FALSE, tie |-> TRUE,
     ackt |-> "Nack", wire |-> "none", request |-> "none",
     told |-> "none", acks |-> <<>>, client |-> "free"]

WriteByteToTransmitRegister(s) == [s EXCEPT !.wire = "out"]
SendDummyData(s) == WriteByteToTransmitRegister(s)

\* The caller hears of the end of what it asked for; after an error it goes on
\* waiting for a condition that has not been generated.
CallerHears(s, kind) ==
    [s EXCEPT !.told = kind,
              !.client = CASE kind = "error" -> IF s.request = "none" THEN "failed" ELSE @
                           [] kind = "condition" -> IF s.busBusy THEN "started" ELSE "free"
                           [] OTHER -> "owner"]

\* SetCurrentOperation(Idle) and the callback.
NotifyCaller(s, kind) == CallerHears([s EXCEPT !.op = "Idle"], kind)

\* What every operation sets.
I2cAsked(s, op, callback) == [s EXCEPT !.op = op, !.callback = callback, !.client = "waiting"]

I2c_Write(s, size) ==
    WriteByteToTransmitRegister(
        [I2cAsked(s, "Write", "write") EXCEPT !.writeSize = size, !.index = 0,
                                              !.dataHasBeenRead = FALSE])

I2c_WriteByte(s) ==
    WriteByteToTransmitRegister(
        [I2cAsked(s, "WriteByte", "write") EXCEPT !.writeSize = 0, !.index = 0])

I2c_Read(s, size) ==
    WriteByteToTransmitRegister(
        [I2cAsked(s, "ReadFirstByte", "read") EXCEPT !.readSize = size, !.index = 0,
                                              !.dataHasBeenRead = FALSE, !.acks = <<>>])

I2c_ReadByte(s) ==
    WriteByteToTransmitRegister(
        [I2cAsked(s, "ReadByte", "readByte") EXCEPT !.readSize = 0, !.index = 0,
                                              !.dataHasBeenRead = FALSE, !.acks = <<>>])

\* The answer turns to Nack, and a stop is requested, for any operation that
\* is neither a start nor a restart.
GenerateCondition(s) ==
    CASE s.op = "Start" -> [s EXCEPT !.rie = FALSE, !.request = "start"]
      [] s.op = "Restart" -> [s EXCEPT !.request = "restart"]
      [] OTHER -> [s EXCEPT !.ackt = "Nack", !.request = "stop"]

I2c_Start(s) == GenerateCondition([I2cAsked(s, "Start", "condition") EXCEPT !.busBusy = TRUE])
I2c_Stop(s) == GenerateCondition(I2cAsked(s, "Stop", "condition"))
I2c_Restart(s) == GenerateCondition(I2cAsked(s, "Restart", "condition"))
I2c_Cancel(s) == GenerateCondition(I2cAsked(s, "Idle", "condition"))

\* An address goes out after a start or a restart, further bytes after bytes
\* that were written.
I2cTransfer ==
    /\ Runs("i2c") /\ st.op = "Idle"
    /\ \/ st.client = "started" /\ \E n \in WriteSizes : st' = I2c_Write(st, n)
       \/ st.client = "started" /\ \E n \in ReadSizes : st' = I2c_Read(st, n)
       \/ st.client = "started" /\ st' = I2c_ReadByte(st)
       \/ /\ st.client = "started" \/ (st.client = "owner" /\ st.told = "write")
          /\ st' = I2c_WriteByte(st)

I2cCondition ==
    /\ Runs("i2c") /\ st.op = "Idle"
    /\ \/ st.client = "free" /\ st' = I2c_Start(st)
       \/ st.client \in {"started", "owner"} /\ st' = I2c_Restart(st)
       \/ st.client \in {"started", "owner", "failed"} /\ st' = I2c_Stop(st)

\* A caller that has waited too long for a transfer.
I2cCancel ==
    /\ Runs("i2c") /\ st.client = "waiting" /\ st.request = "none"
    /\ st' = I2c_Cancel(st)

\* The receive interrupt.
ByteIsRead(s) ==
    CASE s.op = "ReadByte" -> [s EXCEPT !.dataHasBeenRead = TRUE, !.acks = Append(@, s.ackt)]
      [] s.op \in {"ReadFirstByte", "ReadAdditionalBytes"} ->
            [s EXCEPT !.dataHasBeenRead = TRUE, !.index = @ + 1, !.acks = Append(@, s.ackt)]
      [] OTHER -> s

\* It comes before the transmit interrupt of the same byte.  An overrun ends
\* what the driver does, whatever that is.
SCI0_RXI0 ==
    /\ Runs("i2c") /\ st.wire = "out" /\ st.rie
    /\ LET s == [st EXCEPT !.wire = "in"] IN
       \/ st' = NotifyCaller(s, "error")
       \/ st' = ByteIsRead(s)

AllBytesHaveBeenWritten(s) == s.index >= s.writeSize
AllBytesHaveBeenRead(s) == s.index >= s.readSize

\* Mutant: the byte before the last one is refused.
TheNextByteIsTheLastByteToBeReadEarly(s) == s.index + 2 = s.readSize

TheNextByteIsTheLastByteToBeRead(s) == s.index + 1 = s.readSize

\* The transmit interrupt, ack telling whether the byte was acknowledged.
AfterTransmission(s, ack) ==
    CASE s.op \in {"Write", "WriteByte"} ->
            IF ~ack THEN NotifyCaller(s, "error")
            ELSE IF AllBytesHaveBeenWritten(s) THEN NotifyCaller(s, "write")
            ELSE WriteByteToTransmitRegister([s EXCEPT !.index = @ + 1])
      [] s.op = "ReadFirstByte" ->
            IF ~ack THEN NotifyCaller(s, "error")
            ELSE SendDummyData([s EXCEPT !.ackt = "Ack", !.rie = TRUE, !.op = "ReadAdditionalBytes"])
      [] s.op = "ReadAdditionalBytes" ->
            IF AllBytesHaveBeenRead(s) THEN NotifyCaller(s, "read")
            ELSE SendDummyData(
                    [s EXCEPT !.ackt = IF TheNextByteIsTheLastByteToBeRead(s) THEN "Nack" ELSE @])
      [] s.op = "ReadByte" ->
            IF s.dataHasBeenRead THEN NotifyCaller(s, "readByte")
            ELSE IF ~ack THEN NotifyCaller(s, "error")
            ELSE SendDummyData([s EXCEPT !.ackt = "Nack", !.rie = TRUE])
      [] OTHER -> s

SCI0_TXI0 ==
    /\ Runs("i2c") /\ st.tie /\ (st.wire = "in" \/ (st.wire = "out" /\ ~st.rie))
    /\ \E ack \in BOOLEAN : st' = AfterTransmission([st EXCEPT !.wire = "none"], ack)

\* A condition has been generated: a start or a restart opens the transmit
\* interrupt, a stop closes the bus.
ConditionIsGenerated(s) ==
    CASE s.op \in {"Start", "Restart"} -> [s EXCEPT !.rie = FALSE, !.tie = TRUE]
      [] s.op \in {"Idle", "Stop"} -> [s EXCEPT !.rie = FALSE, !.tie = FALSE, !.busBusy = FALSE]
      [] OTHER -> s

\* A condition waits for the byte on the wire.
SCI0_TEI0 ==
    /\ Runs("i2c") /\ st.request # "none" /\ st.wire = "none"
    /\ st' = NotifyCaller(ConditionIsGenerated([st EXCEPT !.request = "none"]), "condition")

-----------------------------------------------------------------------------
(* The BufferedUart_Channels.  The DTC writes received bytes into a ring;  *)
(* cral is its count, read by DtcRingBuffer_GetCount.  A received byte is  *)
(* its number.  cra and tdre are the registers of a transmission of packet *)
(* bytes, of which sent have left the data register.                       *)

UartStates ==
    [cral |-> BufferSize, tail |-> 0, ring |-> [i \in 0 .. BufferSize - 1 |-> 0],
     next |-> 0, expected |-> 0, left |-> 0,
     waiting |-> FALSE, cra |-> 0, dtce |-> FALSE, tdre |-> TRUE, packet |-> 0, sent |-> 0]

Unread(s) == (s.next - s.expected) % SequenceModulus
RingHead(s) == BufferSize - s.cral

\* Mutant: the head is taken for the wrapped one.
DtcRingBuffer_GetCountUnwrapped(s) ==
    IF RingHead(s) > s.tail THEN RingHead(s) - s.tail ELSE BufferSize - (s.tail - RingHead(s))

DtcRingBuffer_GetCount(s) ==
    IF RingHead(s) >= s.tail THEN RingHead(s) - s.tail ELSE BufferSize - (s.tail - RingHead(s))

\* The buffer holds twice the bytes that come between two calls of Run.
DtcReceives ==
    /\ Runs("uart") /\ Unread(st) < BufferSize - 1
    /\ st' = [st EXCEPT !.ring[RingHead(st)] = st.next, !.next = (@ + 1) % SequenceModulus,
                        !.cral = IF @ = 1 THEN BufferSize ELSE @ - 1]

\* Run takes the count, then the bytes one by one.
UartRunCounts ==
    /\ Runs("uart") /\ st.left = 0 /\ DtcRingBuffer_GetCount(st) > 0
    /\ st' = [st EXCEPT !.left = DtcRingBuffer_GetCount(st)]

UartRunTakes ==
    /\ Runs("uart") /\ st.left > 0
    /\ st' = [st EXCEPT !.left = @ - 1, !.tail = (@ + 1) % BufferSize,
                        !.expected = (@ + 1) % SequenceModulus]

\* Mutant: the transfer count includes the byte that starts the transfer.
TransmitCountsAll(s, n) ==
    [s EXCEPT !.waiting = TRUE, !.cra = n, !.dtce = n > 1, !.tdre = FALSE,
              !.packet = n, !.sent = 0]

Transmit(s, n) ==
    [s EXCEPT !.waiting = TRUE, !.cra = n - 1, !.dtce = n > 1, !.tdre = FALSE,
              !.packet = n, !.sent = 0]

UartTransmit ==
    /\ Runs("uart") /\ ~st.waiting
    /\ \E n \in PacketSizes : st' = Transmit(st, n)

TransmitRegisterEmpties ==
    /\ Runs("uart") /\ ~st.tdre
    /\ st' = [st EXCEPT !.tdre = TRUE, !.sent = @ + 1]

DtcTransmits ==
    /\ Runs("uart") /\ st.tdre /\ st.dtce
    /\ st' = [st EXCEPT !.tdre = FALSE, !.cra = @ - 1, !.dtce = st.cra > 1]

UartRunCompletes ==
    /\ Runs("uart") /\ st.waiting /\ st.cra = 0 /\ st.tdre
    /\ st' = [st EXCEPT !.waiting = FALSE]

-----------------------------------------------------------------------------
(* DataSource_InputCapture.c, one channel.  counter is the capture         *)
(* register at the last edge; real and fedReal are the true intervals of   *)
(* the counts that are kept and of the ones that were fed; filter is the   *)
(* last value fed to the moving average.                                   *)

\* UINT32_MAX in the code: more than any interval.
OffCounts == CounterModulus

CaptureStates ==
    [counter |-> 0, previous |-> 0, firstCaptureCompleted |-> FALSE, dataReady |-> FALSE,
     feedbackCounts |-> 0, real |-> 0, polls |-> 0, filter |-> OffCounts, fedReal |-> 0,
     polling |-> FALSE, silent |-> 0]

CalculateFeedbackCounts(previous, current) == (current - previous) % CounterModulus

\* Mutant: an edge that is not used does not start a new interval.
InputCaptureCompareMatchKeepsPrevious(s, d) ==
    LET use == s.firstCaptureCompleted /\ ~s.dataReady
    IN [s EXCEPT !.previous = IF s.dataReady THEN @ ELSE s.counter,
                 !.firstCaptureCompleted = TRUE, !.dataReady = @ \/ use,
                 !.feedbackCounts = IF use THEN CalculateFeedbackCounts(s.previous, s.counter) ELSE @,
                 !.real = IF use THEN d ELSE @]

\* The interrupt of an edge that comes d counts after the last one.
InputCaptureCompareMatch(s, d) ==
    LET use == s.firstCaptureCompleted /\ ~s.dataReady
    IN [s EXCEPT !.previous = s.counter,
                 !.firstCaptureCompleted = TRUE, !.dataReady = @ \/ use,
                 !.feedbackCounts = IF use THEN CalculateFeedbackCounts(s.previous, s.counter) ELSE @,
                 !.real = IF use THEN d ELSE @]

Edge ==
    /\ Runs("input capture")
    /\ \E d \in Intervals :
          st' = InputCaptureCompareMatch(
                   [st EXCEPT !.counter = (@ + d) % CounterModulus, !.silent = 0], d)

\* PollInputCapture, up to the point where it clears dataReady.  The count of
\* silent polls stops one above the largest that matters.
PollInputCapture ==
    /\ Runs("input capture") /\ ~st.polling
    /\ LET s == [st EXCEPT !.silent = IF @ > PollsToOff + 1 THEN @ ELSE @ + 1]
           polls == IF s.polls > PollsToOff THEN s.polls ELSE s.polls + 1
       IN st' = IF s.dataReady
                THEN [s EXCEPT !.filter = s.feedbackCounts, !.fedReal = s.real, !.polling = TRUE]
                ELSE [s EXCEPT !.polls = polls,
                               !.filter = IF polls > PollsToOff THEN OffCounts ELSE @]

PollInputCaptureEnds ==
    /\ Runs("input capture") /\ st.polling
    /\ st' = [st EXCEPT !.dataReady = FALSE, !.polls = 0, !.polling = FALSE]

-----------------------------------------------------------------------------
(* DataSource_Gpio.c and Asymmetrical_Debouncer_bool.c, one input.         *)
(* published is the value of the last publication, overtaken that the      *)
(* input changed while its last change was being published.                *)

GpioStates ==
    [pin |-> FALSE, count |-> 0, debounced |-> FALSE, dirty |-> FALSE,
     published |-> FALSE, publishing |-> FALSE, overtaken |-> FALSE]

PinChanges ==
    /\ Runs("gpio")
    /\ st' = [st EXCEPT !.pin = ~@]

Asymmetrical_Debouncer_bool_Process(s) ==
    LET count == s.count + 1
        changed == s.pin # s.debounced
                     /\ count >= IF s.debounced THEN OnToOffCount ELSE OffToOnCount
    IN IF s.pin = s.debounced THEN [s EXCEPT !.count = 0]
       ELSE [s EXCEPT !.count = IF changed THEN 0 ELSE count,
                      !.debounced = IF changed THEN ~@ ELSE @,
                      !.dirty = @ \/ changed, !.overtaken = @ \/ (changed /\ s.publishing)]

\* The tick interrupt.
DebounceCallback ==
    /\ Runs("gpio")
    /\ st' = Asymmetrical_Debouncer_bool_Process(st)

\* DataSource_Gpio_Run, which clears the flag after the publication.
DataSource_Gpio_Run ==
    /\ Runs("gpio") /\ ~st.publishing /\ st.dirty
    /\ st' = [st EXCEPT !.published = st.debounced, !.publishing = TRUE, !.overtaken = FALSE]

DataSource_Gpio_RunEnds ==
    /\ Runs("gpio") /\ st.publishing
    /\ st' = [st EXCEPT !.publishing = FALSE, !.dirty = FALSE]

-----------------------------------------------------------------------------

BoardDriversInit ==
    \/ unit = "i2c" /\ st = I2cStates
    \/ unit = "uart" /\ st = UartStates
    \/ unit = "input capture" /\ st = CaptureStates
    \/ unit = "gpio" /\ st = GpioStates

BoardDriversNext ==
    \/ I2cTransfer \/ I2cCondition \/ I2cCancel \/ SCI0_RXI0 \/ SCI0_TXI0 \/ SCI0_TEI0
    \/ DtcReceives \/ UartRunCounts \/ UartRunTakes
    \/ UartTransmit \/ TransmitRegisterEmpties \/ DtcTransmits \/ UartRunCompletes
    \/ Edge \/ PollInputCapture \/ PollInputCaptureEnds
    \/ PinChanges \/ DebounceCallback \/ DataSource_Gpio_Run \/ DataSource_Gpio_RunEnds

-----------------------------------------------------------------------------
(* Properties.                                                             *)

\* A caller of the I2C driver that waits is always owed an interrupt that is
\* enabled, in every order of transfers, errors, overruns and cancellations;
\* it is called back through the member of the union it set; a read that
\* completes took all its bytes and refused exactly the last one, so that the
\* memory lets the bus go; and the bus is busy from the start to the stop.
I2cTransfersAreWhole ==
    unit = "i2c" =>
        /\ (st.client = "waiting") <=>
              (st.request # "none" \/ (st.op # "Idle" /\ st.wire # "none" /\ st.tie))
        /\ (st.client \in {"started", "owner", "free"} /\ st.told # "none") => st.told = st.callback
        /\ (st.told = "read" /\ st.client = "owner" /\ st.op = "Idle") =>
              st.acks = [i \in 1 .. st.readSize |-> IF i = st.readSize THEN "Nack" ELSE "Ack"]
        /\ st.client = "free" => ~st.busBusy
        /\ st.client \in {"started", "owner", "failed"} => st.busBusy

\* Every byte the DTC received is taken by Run once and in order, also while
\* more bytes arrive, and a transmission completes when its last byte has left
\* the data register.
UartBytesAreExact ==
    unit = "uart" =>
        /\ DtcRingBuffer_GetCount(st) = Unread(st) /\ st.left <= Unread(st)
        /\ \A i \in 0 .. Unread(st) - 1 :
              st.ring[(st.tail + i) % BufferSize] = (st.expected + i) % SequenceModulus
        /\ st.waiting \/ st.sent = st.packet

\* What is fed to the filter of a tachometer is one whole interval between two
\* edges that follow each other, whenever the interrupt falls into a poll; and
\* a fan that stands still is seen to.
IntervalsAreWhole ==
    unit = "input capture" =>
        /\ (st.filter # OffCounts) => (st.filter = st.fedReal % CounterModulus)
        /\ st.silent > PollsToOff + 1 => st.filter = OffCounts

\* The last publication of an input is its debounced value once the flag is
\* clear, unless it changed again during that very publication.
InputsArePublished ==
    unit = "gpio" => (st.dirty \/ st.overtaken \/ st.published = st.debounced)

DriversKeepTheirData ==
    I2cTransfersAreWhole /\ UartBytesAreExact /\ IntervalsAreWhole /\ InputsArePublished

=============================================================================
