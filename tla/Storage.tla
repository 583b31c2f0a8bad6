------------------------------- MODULE Storage -------------------------------
(***************************************************************************)
(* The two EEPROM drivers written for this product.  "eeprom": the page    *)
(* by page driver with its retries                                         *)
(* (HardwareEeprom_DelayedPageOperationWrapper.c) on the blocking I2C      *)
(* driver (HardwareEeprom_I2c.c), with the eraser that resets the board    *)
(* (EepromEraser.c).  "personalityEeprom": Eeprom_AT21CS11.c on the bit   *)
(* banged wire of OneWire_AT21CS11.c.  Writing, both devices wrap around   *)
(* inside a page and take cells in order.  The I2C bus may stall: every    *)
(* wait of its driver gives up in silence.  The power may fail between any *)
(* two steps.                                                              *)
(***************************************************************************)
EXTENDS ControlUnits, Integers, FiniteSets, FiniteSetsExt

CONSTANTS
    MemorySize,     \* cells; EepromSize, AT21CS11_SizeInBytes
    PageSize,       \* cells of a page; 64 and 8 bytes
    MaxRetryCount,  \* EepromMaxRetryCount
    Data            \* what clients write

ASSUME StorageAssumption ==
    /\ MemorySize \in Nat \ {0} /\ PageSize \in Nat \ {0} /\ MaxRetryCount \in Nat \ {0}
    /\ "erased" \notin Data

Cells == 0 .. MemorySize - 1
NoJob == [kind |-> "none"]
StorageClients == {"dataSource", "eraser"}
Nothing == [a \in Cells |-> "nothing"]

\* What a client has heard of the job it waits for.
Unheard == [job |-> NoJob, result |-> "nothing", contents |-> Nothing]

Span(from, to) == from .. to - 1

-----------------------------------------------------------------------------
(* The devices.                                                            *)

\* The cell that the k-th byte of a transfer starting at a reaches.
WrappedCell(a, k) == (a \div PageSize) * PageSize + ((a + k) % PageSize)

\* The memory after the first k bytes of a transfer to a.
Stored(mem, a, k, value) ==
    [b \in Cells |-> IF \E i \in 0 .. k - 1 : WrappedCell(a, i) = b THEN value ELSE mem[b]]

\* RIIC0_RXI0: the buffer for the cells from a on, k bytes into a transfer
\* that the device starts at its cell from.
Fetched(contents, mem, a, from, k) ==
    [b \in Cells |-> IF b \in Span(a, a + k) THEN mem[(from + (b - a)) % MemorySize]
                     ELSE contents[b]]

\* A write of n bytes to a that meets a stalled bus.  A byte that finds the
\* transmit buffer full is left out (TDRE), so that the device gets a first
\* part of the data or, where a byte of the address is left out, takes data
\* for the rest of the address.
StalledWrites(a, n) == {t \in [cell : Cells, bytes : 0 .. n] : t.cell = a \/ t.bytes < n}

\* Mutant: a byte that is not acknowledged does not make an error.
WriteIgnoresNack(mem, a, n, value) ==
    {[ok |-> TRUE, stalled |-> FALSE, mem |-> Stored(mem, a, k, value)] : k \in 0 .. n}

\* Write_Eeprom_Hardware of n bytes: all of them and an acknowledgement; an
\* error after any number of them (NACKF); or, the bus stalled, a loop that
\* counts the bytes it leaves out and ends without an error unless the device
\* refused one.
Write_Eeprom_Hardware(mem, a, n, value) ==
    {[ok |-> TRUE, stalled |-> FALSE, mem |-> Stored(mem, a, n, value)]}
      \union {[ok |-> FALSE, stalled |-> FALSE, mem |-> Stored(mem, a, k, value)] : k \in 0 .. n}
      \union {[ok |-> acknowledged, stalled |-> TRUE, mem |-> Stored(mem, t.cell, t.bytes, value)] :
                acknowledged \in BOOLEAN, t \in StalledWrites(a, n)}

\* How far the interrupt has come with n bytes when a wait ends:
\* receiveDataCount starts with the dummy byte, and stays at n when the last
\* byte comes.
Receptions(n) ==
    {t \in [receiveDataCount : 0 .. n, bytes : 0 .. n] :
        \/ t.receiveDataCount = t.bytes + 1
        \/ t.receiveDataCount = t.bytes /\ t.bytes \in {0, n}}

\* Read_Eeprom_Hardware: all n bytes; none, the address refused; or, the bus
\* stalled, some, from where the device took the address to be.  A read
\* whose last byte does not come counts as complete (AllBytesHaveBeenRead).
Read_Eeprom_Hardware(contents, mem, a, n) ==
    {[ok |-> TRUE, stalled |-> FALSE, contents |-> Fetched(contents, mem, a, a, n)],
     [ok |-> FALSE, stalled |-> FALSE, contents |-> contents]}
      \union {[ok |-> t.receiveDataCount = n, stalled |-> TRUE,
               contents |-> Fetched(contents, mem, a, from, t.bytes)] :
                from \in Cells, t \in Receptions(n)}

\* HardwareEeprom_I2c's Erase: page after page until one fails; cells that a
\* stalled bus leaves out may be anywhere.
EraseI2c(mem) ==
    {[ok |-> TRUE, stalled |-> FALSE, mem |-> [a \in Cells |-> "erased"]]}
      \union {[ok |-> FALSE, stalled |-> FALSE,
               mem |-> [a \in Cells |-> IF a < p * PageSize + k THEN "erased" ELSE mem[a]]] :
                p \in 0 .. (MemorySize \div PageSize) - 1, k \in 0 .. PageSize}
      \union {[ok |-> acknowledged, stalled |-> TRUE,
               mem |-> [a \in Cells |-> IF a \in taken THEN "erased" ELSE mem[a]]] :
                acknowledged \in BOOLEAN, taken \in SUBSET Cells}

\* Whose job a stalled transfer is of.
Stalls(r, client) == IF r.stalled THEN {client} ELSE {}

-----------------------------------------------------------------------------
(* The page by page driver.                                                *)

\* Mutant: the page boundary is rounded up from the next cell.
NextPageStartsLate(offset) == ((offset + 1) \div PageSize + 1) * PageSize

GetNextPageStartAddress(offset) == (offset \div PageSize + 1) * PageSize

GetSlicedNumberOfBytes(s) == Min({GetNextPageStartAddress(s.offset), s.endOffset}) - s.offset

OperationIncomplete(s) == s.offset < s.endOffset /\ s.tries < MaxRetryCount

\* UpdateWriteStatus and UpdateReadStatus.
UpdateStatus(s) == [s EXCEPT !.offset = @ + GetSlicedNumberOfBytes(s), !.tries = 0]

\* Mutant: a slice that fails prepares the whole operation again.
SliceCompletedStartsOver(s, ok) ==
    LET t == [IF ok THEN UpdateStatus(s)
              ELSE [s EXCEPT !.offset = Min(s.job["dataSource"].cells), !.tries = 0] EXCEPT !.ok = ok]
    IN IF OperationIncomplete(t) THEN [t EXCEPT !.timer = "slice"]
       ELSE [t EXCEPT !.state = "Idle", !.timer = s.state]

\* Completion of a slice: Signal_EepromWriteCompleted in State_Write,
\* Signal_EepromReadCompleted in State_Read.  The delay timer counts to the
\* next slice or, once the state is left, to the report.
SliceCompleted(s, ok) ==
    LET t == [IF ok THEN UpdateStatus(s) ELSE s EXCEPT !.ok = ok]
    IN IF OperationIncomplete(t) THEN [t EXCEPT !.timer = "slice"]
       ELSE [t EXCEPT !.state = "Idle", !.timer = s.state]

\* The I2C driver answers while it is called, unless it blocks writing.
WriteASlice(s) ==
    LET t == [s EXCEPT !.tries = @ + 1]
    IN IF s.blockWriteRequests THEN {t}
       ELSE {SliceCompleted([t EXCEPT !.mem = r.mem,
                                      !.stalled = @ \union Stalls(r, "dataSource")], r.ok) :
                r \in Write_Eeprom_Hardware(s.mem, s.offset, GetSlicedNumberOfBytes(s), s.value)}

ReadASlice(s) ==
    {SliceCompleted([s EXCEPT !.tries = @ + 1, !.contents = r.contents,
                              !.stalled = @ \union Stalls(r, "dataSource")], r.ok) :
        r \in Read_Eeprom_Hardware(s.contents, s.mem, s.offset, GetSlicedNumberOfBytes(s))}

Slice(s) == IF s.state = "Write" THEN WriteASlice(s) ELSE ReadASlice(s)

\* PrepareForWrite, PrepareForRead and the entry of the state.
EnterSlices(s, state, from, to, value) ==
    Slice([s EXCEPT !.state = state, !.offset = from, !.endOffset = to, !.value = value,
                    !.tries = 0, !.contents = Nothing])

State_Erase(s) ==
    {[s EXCEPT !.blockWriteRequests = TRUE, !.mem = r.mem, !.ok = r.ok,
               !.state = "Idle", !.timer = "Erase",
               !.stalled = @ \union Stalls(r, "eraser")] : r \in EraseI2c(s.mem)}

Started(mem, present) ==
    [mem |-> mem, job |-> [c \in StorageClients |-> NoJob],
     heard |-> [c \in StorageClients |-> Unheard],
     state |-> "Idle", offset |-> 0, endOffset |-> 0, value |-> "erased", tries |-> 0,
     contents |-> Nothing, ok |-> TRUE, timer |-> "none",
     blockWriteRequests |-> FALSE, devicePresent |-> present,
     stalled |-> {}]    \* the clients whose job has met a stalled bus

StorageInit ==
    /\ unit \in {"eeprom", "personalityEeprom"}
    /\ \E present \in BOOLEAN :
        /\ unit = "eeprom" => present
        /\ st = Started([a \in Cells |-> "erased"], present)

Store(from, to, value) == [kind |-> "store", cells |-> Span(from, to), value |-> value]
Fetch(from, to) == [kind |-> "fetch", cells |-> Span(from, to)]

Asked(client, j) == [st EXCEPT !.job[client] = j, !.heard[client] = Unheard]

Heard(s, client, result) ==
    [s EXCEPT !.job[client] = NoJob, !.stalled = @ \ {client},
              !.heard[client] = [job |-> s.job[client], result |-> result,
                                 contents |-> s.contents]]

\* Write and Read.  State_Idle alone takes the request.
DataSourceAsks ==
    /\ Runs("eeprom") /\ st.job["dataSource"] = NoJob
    /\ \E from \in Cells : \E to \in from + 1 .. MemorySize :
        \/ \E v \in Data :
            LET s == Asked("dataSource", Store(from, to, v))
            IN IF st.state = "Idle" THEN st' \in EnterSlices(s, "Write", from, to, v) ELSE st' = s
        \/ LET s == Asked("dataSource", Fetch(from, to))
           IN IF st.state = "Idle" THEN st' \in EnterSlices(s, "Read", from, to, "erased") ELSE st' = s

\* EepromEraser's OnEepromEraseSignalChanged: lost unless the driver is idle.
EraserAsks ==
    /\ Runs("eeprom") /\ st.job["eraser"] = NoJob
    /\ LET s == Asked("eraser", Store(0, MemorySize, "erased"))
       IN IF st.state = "Idle" THEN st' \in State_Erase(s) ELSE st' = s

\* The delay between slices is over.
NextSlice ==
    /\ Runs("eeprom") /\ st.timer = "slice"
    /\ st' \in Slice([st EXCEPT !.timer = "none"])

Result(s) == IF s.ok THEN "done" ELSE "failed"

\* EventWrittenPublishCallback and EventReadPublishCallback.
PublishToDataSource ==
    /\ Runs("eeprom") /\ st.timer \in {"Write", "Read"}
    /\ st' = [Heard(st, "dataSource", Result(st)) EXCEPT !.timer = "none"]

\* EventErasePublishCallback: OnEepromEraseComplete resets the board,
\* whatever the result.
PublishToEraser ==
    /\ Runs("eeprom") /\ st.timer = "Erase"
    /\ st' = Started(st.mem, TRUE)

PowerIsLost ==
    /\ unit' = unit
    /\ st' = Started(st.mem, st.devicePresent)

-----------------------------------------------------------------------------
(* The personality EEPROM.  ok is FALSE once the device has refused a      *)
(* byte; the events say nothing of it.                                     *)

AT21Bytes(s) == Min({s.endOffset - s.offset, PageSize - (s.offset % PageSize)})

\* OneWire's Write: bytes after a refused one do not count.
OneWireWrite(s) ==
    {[bytes |-> k, mem |-> Stored(s.mem, s.offset, k, s.value)] : k \in 0 .. AT21Bytes(s)}

\* WriteBlock and EraseBlock: a block of which nothing was taken ends the job.
WriteBlock(s) ==
    {[s EXCEPT !.mem = r.mem, !.ok = @ /\ r.bytes = AT21Bytes(s),
               !.offset = @ + r.bytes,
               !.endOffset = IF r.bytes > 0 THEN @ ELSE s.offset] : r \in OneWireWrite(s)}

\* State_WriteBlock and State_Erase on entry: Wait follows.
EnterWriteBlock(s) == {[t EXCEPT !.state = "Write", !.timer = "wait"] : t \in WriteBlock(s)}

\* OneWire's Read of a block at a counts all its bytes, or none when the device
\* did not acknowledge: where a read of several blocks can stop.
OneWireReadStops(s) ==
    {a \in Span(s.offset, s.endOffset) : a = s.offset \/ a % PageSize = 0} \union {s.endOffset}

\* Mutant: the read of a block is not cut at the end of the page.
OneWireReadPastPage(s, b) == s.mem[WrappedCell(s.offset, b - s.offset)]

\* OneWire's Read of the block that holds b: its transfer wraps around too, but
\* starts at the read's first cell or at the beginning of a page.
OneWireRead(s, b) ==
    LET start == Max({s.offset, (b \div PageSize) * PageSize})
    IN  s.mem[WrappedCell(start, b - start)]

\* State_ReadBlock: block after block at once, into a buffer that was cleared.
EnterReadBlock(s) ==
    {[s EXCEPT !.contents = [b \in Cells |-> IF b \in Span(s.offset, a)
                                             THEN OneWireRead(s, b) ELSE "nothing"],
               !.ok = a = s.endOffset, !.offset = a] : a \in OneWireReadStops(s)}

\* What OnReadEvent, OnWrittenEvent and OnEraseEvent, published with no
\* arguments, allow to conclude.
Concluded(s) == IF s.ok THEN "done" ELSE "ended"

Prepared(j, from, to, value) ==
    [Asked("dataSource", j) EXCEPT !.offset = from, !.endOffset = to, !.value = value,
                                    !.ok = TRUE, !.contents = Nothing]

WithoutDevice(s) == Heard([s EXCEPT !.ok = FALSE], "dataSource", "ended")

AT21Asked ==
    /\ Runs("personalityEeprom") /\ st.job["dataSource"] = NoJob
    /\ \E from \in Cells : \E to \in from + 1 .. MemorySize :
        \/ \E v \in Data \union {"erased"} :
            LET s == Prepared(Store(from, to, v), from, to, v)
            IN /\ v = "erased" => from = 0 /\ to = MemorySize
               /\ IF st.devicePresent THEN st' \in EnterWriteBlock(s) ELSE st' = WithoutDevice(s)
        \/ LET s == Prepared(Fetch(from, to), from, to, "erased")
           IN IF st.devicePresent
              THEN st' \in {Heard(t, "dataSource", Concluded(t)) : t \in EnterReadBlock(s)}
              ELSE st' = WithoutDevice(s)

\* Signal_WaitOver.
AT21WaitOver ==
    /\ Runs("personalityEeprom") /\ st.timer = "wait"
    /\ IF st.offset < st.endOffset THEN st' \in EnterWriteBlock(st)
       ELSE st' = Heard([st EXCEPT !.state = "Idle", !.timer = "none"], "dataSource", Concluded(st))

StorageNext ==
    \/ DataSourceAsks \/ EraserAsks \/ NextSlice \/ PublishToDataSource \/ PublishToEraser
    \/ AT21Asked \/ AT21WaitOver
    \/ PowerIsLost

\* The timer module calls a timer that has expired.
StorageFairness ==
    WF_unitVars(NextSlice \/ PublishToDataSource \/ PublishToEraser \/ AT21WaitOver)

-----------------------------------------------------------------------------
StorageJobs ==
    {Store(from, to, v) : from \in Cells, to \in 1 .. MemorySize, v \in Data \union {"erased"}}
      \union {Fetch(from, to) : from \in Cells, to \in 1 .. MemorySize}

Promise == INSTANCE BlockStore
             WITH Clients <- StorageClients, Jobs <- StorageJobs, NoJob <- NoJob,
                  mem <- st.mem, job <- st.job, heard <- st.heard, stalled <- st.stalled

\* Both drivers keep the promise of BlockStore: slices, retries, a refused
\* byte, an erase behind a write and a power failure between two slices never
\* touch a cell outside the job, and no event reports a job done that is not,
\* unless the bus has stalled during that very job.  A job that finds the bus
\* in order owes nothing to the stalls of those before it.
DriversKeepThePromise == Promise!StoreSpec

\* HardwareEeprom_I2c.c:459, "Set the status to true if all data have been
\* sent", and HardwareEeprom_I2c.c:311, "Wait until all expected data has been
\* received": an operation that reports no error has stored or fetched all of
\* its cells, whatever the bus did.
ReportedJobsAreDone ==
    [][\A c \in StorageClients :
          st'.heard[c] # st.heard[c] /\ st'.heard[c].result = "done"
            => Promise!IsDone(st'.heard[c].job, st'.heard[c].contents, st'.mem)]_unitVars

\* Unless the memory has been erased, every job of the data source ends: it
\* is reported, or the board restarts.  The wrapper's retries are bounded and
\* the one wire driver gives up at a block that takes nothing.  After an
\* erase the I2C driver answers no write, and a read that takes the delay
\* timer over from the erase takes the reset with it.
JobsEnd ==
    (st.job["dataSource"] # NoJob)
      ~> (st.job["dataSource"] = NoJob \/ st.blockWriteRequests)
=============================================================================
