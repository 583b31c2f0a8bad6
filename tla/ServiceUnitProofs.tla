------------------------- MODULE ServiceUnitProofs -------------------------
(***************************************************************************)
(* The units of the service side and the memory drivers, which share no    *)
(* state: each has its invariant and its theorem, for all values of the    *)
(* constants.                                                              *)
(*                                                                         *)
(*   Storage           both EEPROM drivers implement BlockStore            *)
(*   CabinetServices   the auger's relays are spared                       *)
(*   PanAndIceCabinet  the votes are those of the moment                   *)
(*   BoardDrivers      interrupts and the main loop lose no data           *)
(***************************************************************************)
EXTENDS Storage, CabinetServices, PanAndIceCabinet, BoardDrivers,
        SequenceTheorems, WellFoundedInduction, TLAPS

(***************************************************************************)
(* Storage: both EEPROM drivers implement BlockStore, for every size of    *)
(* the memory and of its pages, every number of retries and all data: the  *)
(* safety part of DriversKeepThePromise.  The invariant says of a job that *)
(* is under way which of its cells are done, and that those that are left  *)
(* are cells of the job.                                                   *)
(***************************************************************************)

(* Addresses.                                                              *)

\* Division with remainder, and its only result.
LEMMA Division ==
    ASSUME NEW a \in Nat, NEW p \in Nat \ {0}
    PROVE  /\ a \div p \in Nat /\ a % p \in 0 .. p - 1
           /\ a = p * (a \div p) + (a % p)
BY Z3

\* A multiple of p is followed by the next one only after p.
LEMMA Multiples ==
    ASSUME NEW p \in Nat \ {0}, NEW q \in Int, NEW r \in Int
    PROVE  /\ p * q \in Int
           /\ q < r => p * q + p <= p * r
           /\ p * (q + 1) = p * q + p
           /\ p * q = q * p
BY Z3

\* There is only one way to divide with a remainder.
LEMMA DivisionIsUnique ==
    ASSUME NEW a \in Nat, NEW p \in Nat \ {0}, NEW q \in Int, NEW x \in 0 .. p - 1,
           a = p * q + x
    PROVE  q = a \div p /\ x = a % p
<1> DEFINE r == a \div p
           y == a % p
<1>1. r \in Int /\ y \in 0 .. p - 1 /\ a = p * r + y
  BY Division, SMTT(60)
<1> HIDE DEF r, y
<1>2. p * q \in Int /\ p * r \in Int
  BY <1>1, Multiples
<1>3. ~(q < r) /\ ~(r < q)
  BY <1>1, <1>2, Multiples
<1>4. q = r
  BY <1>1, <1>3
<1>5. x = y
  BY <1>1, <1>2, <1>4
<1> QED BY <1>4, <1>5 DEF r, y

\* A transfer that stays within the page of its first cell does not wrap.
LEMMA WithinAPage ==
    ASSUME NEW a \in Nat, NEW k \in Nat, a + k < GetNextPageStartAddress(a)
    PROVE  WrappedCell(a, k) = a + k
<1> DEFINE q == a \div PageSize
           x == a % PageSize
<1>0. PageSize \in Nat \ {0}
  BY StorageAssumption
<1>1. q \in Nat /\ x \in 0 .. PageSize - 1 /\ a = PageSize * q + x
  BY <1>0, Division
<1>2. GetNextPageStartAddress(a) = (q + 1) * PageSize
  BY DEF GetNextPageStartAddress
<1> HIDE DEF q, x
<1>3. /\ PageSize * q \in Int /\ PageSize * q = q * PageSize
      /\ (q + 1) * PageSize = PageSize * q + PageSize
  <2>1. q + 1 \in Int /\ q \in Int
    BY <1>1
  <2>2. PageSize * (q + 1) = (q + 1) * PageSize
    BY <1>0, <2>1, Multiples
  <2> QED BY <1>0, <2>1, <2>2, Multiples
<1>4. a + k = PageSize * q + (x + k) /\ x + k \in 0 .. PageSize - 1
  BY <1>0, <1>1, <1>2, <1>3
<1>5. a + k \in Nat /\ q \in Int
  BY <1>1
<1> DEFINE b == a + k
           z == x + k
<1>6. z = b % PageSize
  <2>1. b \in Nat /\ z \in 0 .. PageSize - 1 /\ b = PageSize * q + z
    BY <1>4, <1>5
  <2> HIDE DEF b, z
  <2> QED BY <1>0, <1>5, <2>1, DivisionIsUnique
<1>7. WrappedCell(a, k) = q * PageSize + z
  BY <1>6 DEF WrappedCell, q
<1> QED BY <1>1, <1>3, <1>4, <1>7

\* The page of a cell begins at or before it and ends behind it, and every
\* cell in between is of the same page.
LEMMA PageFacts ==
    ASSUME NEW b \in Nat
    PROVE  LET page == (b \div PageSize) * PageSize IN
           /\ page \in Nat /\ page <= b
           /\ GetNextPageStartAddress(b) \in Nat
           /\ b < GetNextPageStartAddress(b)
           /\ \A a \in page .. b :
                 GetNextPageStartAddress(a) = GetNextPageStartAddress(b)
<1> DEFINE q == b \div PageSize
           x == b % PageSize
           page == q * PageSize
<1>0. PageSize \in Nat \ {0}
  BY StorageAssumption
<1>1. q \in Nat /\ x \in 0 .. PageSize - 1 /\ b = PageSize * q + x
  BY <1>0, Division
<1>2. GetNextPageStartAddress(b) = (q + 1) * PageSize
  BY DEF GetNextPageStartAddress
<1> HIDE DEF q, x
<1>3. /\ PageSize * q \in Int /\ PageSize * q = page
      /\ (q + 1) * PageSize = page + PageSize
  <2>1. q + 1 \in Int /\ q \in Int
    BY <1>1
  <2>2. PageSize * (q + 1) = (q + 1) * PageSize
    BY <1>0, <2>1, Multiples
  <2> QED BY <1>0, <2>1, <2>2, Multiples
<1>4. page \in Nat
  <2>1. b - x = page /\ page \in Int
    BY <1>0, <1>1, <1>3
  <2>2. CASE q = 0
    BY <1>0, <2>2
  <2>3. CASE q # 0
    <3>1. 0 < q /\ 0 \in Int /\ q \in Int
      BY <1>1, <2>3
    <3>2. PageSize * 0 + PageSize <= PageSize * q /\ PageSize * 0 = 0
      BY <1>0, <3>1, Multiples
    <3> QED BY <1>0, <1>3, <2>1, <3>2
  <2> QED BY <2>2, <2>3
<1>5. ASSUME NEW a \in page .. b
      PROVE  GetNextPageStartAddress(a) = GetNextPageStartAddress(b)
  <2> DEFINE y == a - page
  <2>1. /\ a \in Nat /\ y \in 0 .. PageSize - 1 /\ a = PageSize * q + y
    BY <1>0, <1>1, <1>3, <1>4
  <2> HIDE DEF y
  <2>2. q \in Int
    BY <1>1
  <2>3. q = a \div PageSize
    BY <1>0, <2>1, <2>2, DivisionIsUnique
  <2> QED BY <1>2, <2>3 DEF GetNextPageStartAddress
<1> HIDE DEF page
<1>6. page <= b /\ page + PageSize \in Nat /\ b < page + PageSize
  BY <1>0, <1>1, <1>3, <1>4
<1> QED BY <1>2, <1>3, <1>4, <1>5, <1>6 DEF page, q

\* The larger and the smaller of two.
LEMMA MinMaxFacts ==
    ASSUME NEW a \in Int, NEW b \in Int
    PROVE  /\ Min({a, b}) \in {a, b} /\ Min({a, b}) <= a /\ Min({a, b}) <= b
           /\ Max({a, b}) \in {a, b} /\ Max({a, b}) >= a /\ Max({a, b}) >= b
<1>1. \E x \in {a, b} : \A y \in {a, b} : x <= y
  BY SMT
<1>2. \E x \in {a, b} : \A y \in {a, b} : x >= y
  BY SMT
<1>3. Min({a, b}) \in {a, b} /\ \A y \in {a, b} : Min({a, b}) <= y
  BY <1>1 DEF Min
<1>4. Max({a, b}) \in {a, b} /\ \A y \in {a, b} : Max({a, b}) >= y
  BY <1>2 DEF Max
<1> QED BY <1>3, <1>4

\* A slice is not empty, ends with the operation or its page, and reaches the
\* cells it is for.
LEMMA SliceFacts ==
    ASSUME NEW s, s.offset \in Nat, s.endOffset \in Nat, s.offset < s.endOffset
    PROVE  LET n == GetSlicedNumberOfBytes(s) IN
           /\ n \in Nat /\ n > 0 /\ s.offset + n <= s.endOffset
           /\ \A k \in 0 .. n - 1 : WrappedCell(s.offset, k) = s.offset + k
<1> DEFINE n == GetSlicedNumberOfBytes(s)
           next == GetNextPageStartAddress(s.offset)
<1>1. next \in Nat /\ s.offset < next
  BY PageFacts
<1>2. n = Min({next, s.endOffset}) - s.offset
  BY DEF GetSlicedNumberOfBytes
<1>3. /\ Min({next, s.endOffset}) \in {next, s.endOffset}
      /\ Min({next, s.endOffset}) <= next /\ Min({next, s.endOffset}) <= s.endOffset
  <2> DEFINE end == s.endOffset
  <2>1. next \in Int /\ end \in Int
    BY <1>1
  <2> HIDE DEF next, end
  <2>2. /\ Min({next, end}) \in {next, end}
        /\ Min({next, end}) <= next /\ Min({next, end}) <= end
    BY <2>1, MinMaxFacts
  <2> QED BY <2>2 DEF end
<1>4. /\ n \in Nat /\ n > 0 /\ s.offset + n <= s.endOffset
      /\ s.offset + n <= next
  BY <1>1, <1>2, <1>3
<1> HIDE DEF n
<1>5. ASSUME NEW k \in 0 .. n - 1
      PROVE  WrappedCell(s.offset, k) = s.offset + k
  <2>1. k \in Nat /\ s.offset + k < next
    BY <1>1, <1>4
  <2> QED BY <2>1, WithinAPage
<1> QED BY <1>4, <1>5 DEF n

\* A block of the personality EEPROM is the slice of the page by page driver.
LEMMA BlockFacts ==
    ASSUME NEW s, s.offset \in Nat, s.endOffset \in Nat, s.offset < s.endOffset
    PROVE  LET n == AT21Bytes(s) IN
           /\ n \in Nat /\ n > 0 /\ s.offset + n <= s.endOffset
           /\ \A k \in 0 .. n - 1 : WrappedCell(s.offset, k) = s.offset + k
<1> DEFINE n == AT21Bytes(s)
           x == s.offset % PageSize
           q == s.offset \div PageSize
           page == q * PageSize
           next == GetNextPageStartAddress(s.offset)
           left == PageSize - x
<1>0. PageSize \in Nat \ {0}
  BY StorageAssumption
<1>1. /\ q \in Nat /\ x \in 0 .. PageSize - 1 /\ s.offset = PageSize * q + x
  BY <1>0, Division
<1>2. next \in Nat /\ s.offset < next
  BY PageFacts
<1>3. next = s.offset + left
  <2>1. next = (q + 1) * PageSize
    BY DEF GetNextPageStartAddress
  <2> HIDE DEF next, q, x
  <2>2. q + 1 \in Int /\ q \in Int
    BY <1>1
  <2>3. /\ PageSize * q \in Int /\ PageSize * (q + 1) = PageSize * q + PageSize
        /\ PageSize * (q + 1) = (q + 1) * PageSize
    BY <1>0, <2>2, Multiples
  <2> QED BY <1>0, <1>1, <2>1, <2>3
<1>4. n = Min({s.endOffset - s.offset, left})
  BY DEF AT21Bytes
<1>5. left \in Int
  BY <1>0, <1>1
<1> HIDE DEF left, x, next
<1>6. /\ n \in {s.endOffset - s.offset, left}
      /\ n <= s.endOffset - s.offset /\ n <= left
  <2> DEFINE all == s.endOffset - s.offset
  <2>1. all \in Int /\ n = Min({all, left})
    BY <1>4
  <2> HIDE DEF all, n
  <2>2. n \in {all, left} /\ n <= all /\ n <= left
    BY <1>5, <2>1, MinMaxFacts
  <2> QED BY <2>2 DEF all
<1>7. /\ n \in Nat /\ n > 0 /\ s.offset + n <= s.endOffset
      /\ s.offset + n <= next
  BY <1>2, <1>3, <1>5, <1>6
<1> HIDE DEF n
<1>8. ASSUME NEW k \in 0 .. n - 1
      PROVE  WrappedCell(s.offset, k) = s.offset + k
  <2>1. k \in Nat /\ s.offset + k < next
    BY <1>2, <1>7
  <2> QED BY <2>1, WithinAPage DEF next
<1> QED BY <1>7, <1>8 DEF n

\* The block that holds a cell brings that cell.
LEMMA OneWireReadFacts ==
    ASSUME NEW s, s.offset \in Nat, NEW b \in Nat, s.offset <= b
    PROVE  OneWireRead(s, b) = s.mem[b]
<1> DEFINE page == (b \div PageSize) * PageSize
           start == Max({s.offset, page})
<1>1. /\ page \in Nat /\ page <= b /\ b < GetNextPageStartAddress(b)
      /\ \A a \in page .. b : GetNextPageStartAddress(a) = GetNextPageStartAddress(b)
  BY PageFacts
<1> HIDE DEF page
<1>2. start \in {s.offset, page} /\ start >= s.offset /\ start >= page
  <2> DEFINE offset == s.offset
  <2>1. offset \in Int /\ page \in Int /\ start = Max({offset, page})
    BY <1>1
  <2> HIDE DEF offset, start
  <2>2. start \in {offset, page} /\ start >= offset /\ start >= page
    BY <2>1, MinMaxFacts
  <2> QED BY <2>2 DEF offset
<1>3. start \in Nat /\ start \in page .. b /\ b - start \in Nat
  BY <1>1, <1>2
<1> HIDE DEF start
<1>4. start + (b - start) = b
  BY <1>3
<1>5. WrappedCell(start, b - start) = start + (b - start)
  <2> DEFINE k == b - start
  <2>1. k \in Nat /\ start + k < GetNextPageStartAddress(start)
    BY <1>1, <1>3, <1>4
  <2> HIDE DEF k
  <2>2. WrappedCell(start, k) = start + k
    BY <1>3, <2>1, WithinAPage
  <2> QED BY <2>2 DEF k
<1> QED BY <1>4, <1>5 DEF OneWireRead, start, page

-----------------------------------------------------------------------------
(* The state of a driver.                                                  *)

Values == Data \union {"erased"}
Contents == [Cells -> Values \union {"nothing"}]
AnyJob == StorageJobs \union {NoJob}
Reports == [job : AnyJob, result : {"nothing", "done", "failed", "ended"},
            contents : Contents]

Driver ==
    [mem : [Cells -> Values], job : [StorageClients -> AnyJob],
     heard : [StorageClients -> Reports],
     state : {"Idle", "Write", "Read"}, offset : Nat, endOffset : Nat,
     value : Values, tries : Nat, contents : Contents, ok : BOOLEAN,
     timer : {"none", "slice", "Write", "Read", "Erase", "wait"},
     blockWriteRequests : BOOLEAN, devicePresent : BOOLEAN,
     stalled : SUBSET StorageClients]

\* The job of the data source that is under way: what is left of it, and which
\* cells are done.  Where the bus has stalled nothing is known of them.
Aims(s, op) ==
    LET j == s.job["dataSource"] IN
    /\ j \in StorageJobs
    /\ j.kind = IF op = "Write" THEN "store" ELSE "fetch"
    /\ op = "Write" => j.value = s.value
    /\ s.offset <= s.endOffset
    /\ Span(s.offset, s.endOffset) \subseteq j.cells

Done(s, op, a) ==
    \/ "dataSource" \in s.stalled
    \/ IF op = "Write" THEN s.mem[a] = s.value ELSE s.contents[a] = s.mem[a]

Achieved(s, op, upto) ==
    \A a \in s.job["dataSource"].cells :
        a < s.endOffset /\ (a < upto => Done(s, op, a))

EepromInv(s) ==
    /\ s \in Driver
    /\ s.timer # "wait"
    /\ s.timer = "slice" =>
          /\ s.state \in {"Write", "Read"} /\ s.offset < s.endOffset
          /\ Aims(s, s.state) /\ Achieved(s, s.state, s.offset)
    /\ s.timer \in {"Write", "Read"} =>
          /\ s.state = "Idle"
          /\ Aims(s, s.timer)
          /\ s.ok => Achieved(s, s.timer, s.endOffset)

\* A byte that was refused is not known by its place.  The wire does not stall.
PersonalityInv(s) ==
    /\ s \in Driver
    /\ s.stalled = {}
    /\ s.timer \in {"none", "wait"}
    /\ s.timer = "wait" =>
          /\ Aims(s, "Write")
          /\ s.ok => Achieved(s, "Write", s.offset)

StorageInv ==
    /\ unit \in {"eeprom", "personalityEeprom"}
    /\ unit = "eeprom" => EepromInv(st)
    /\ unit = "personalityEeprom" => PersonalityInv(st)

\* What work on a job may do to the memory.
Touches(s, t, j) ==
    IF j.kind = "store"
    THEN \A a \in Cells :
            \/ t.mem[a] = s.mem[a]
            \/ (a \in j.cells \/ "dataSource" \in t.stalled) /\ t.mem[a] = j.value
    ELSE t.mem = s.mem

-----------------------------------------------------------------------------
\* A store and a fetch of cells of the memory are jobs.
LEMMA JobFacts ==
    /\ NoJob \notin StorageJobs
    /\ \A j \in StorageJobs :
          /\ j.cells \subseteq Cells
          /\ j.kind \in {"store", "fetch"}
          /\ j.kind # "none"
    /\ \A from \in Cells : \A to \in from + 1 .. MemorySize :
          /\ Span(from, to) \subseteq Cells /\ from \in Nat /\ to \in Nat /\ from < to
          /\ Fetch(from, to) \in StorageJobs
          /\ Fetch(from, to).kind = "fetch" /\ Fetch(from, to).cells = Span(from, to)
          /\ \A v \in Values :
                /\ Store(from, to, v) \in StorageJobs
                /\ Store(from, to, v).kind = "store"
                /\ Store(from, to, v).cells = Span(from, to)
                /\ Store(from, to, v).value = v
<1>0. MemorySize \in Nat \ {0}
  BY StorageAssumption
<1>1. \A from \in Cells : \A to \in 1 .. MemorySize :
         /\ Span(from, to) \subseteq Cells
         /\ Fetch(from, to) \in StorageJobs
         /\ Fetch(from, to).kind = "fetch" /\ Fetch(from, to).cells = Span(from, to)
         /\ \A v \in Values :
               /\ Store(from, to, v) \in StorageJobs
               /\ Store(from, to, v).kind = "store"
               /\ Store(from, to, v).cells = Span(from, to)
               /\ Store(from, to, v).value = v
  <2> SUFFICES ASSUME NEW from \in Cells, NEW to \in 1 .. MemorySize
               PROVE  /\ Span(from, to) \subseteq Cells
                      /\ Fetch(from, to) \in StorageJobs
                      /\ \A v \in Values : Store(from, to, v) \in StorageJobs
    BY DEF Store, Fetch
  <2>1. Span(from, to) \subseteq Cells
    BY <1>0 DEF Span, Cells
  <2> QED BY <2>1 DEF StorageJobs, Values
<1>2. \A j \in StorageJobs :
         \E from \in Cells, to \in 1 .. MemorySize :
            \/ j = Fetch(from, to)
            \/ \E v \in Values : j = Store(from, to, v)
  BY DEF StorageJobs, Values
<1>3. \A j \in StorageJobs : j.cells \subseteq Cells /\ j.kind \in {"store", "fetch"}
  <2> SUFFICES ASSUME NEW j \in StorageJobs
               PROVE  j.cells \subseteq Cells /\ j.kind \in {"store", "fetch"}
    OBVIOUS
  <2>1. PICK from \in Cells, to \in 1 .. MemorySize :
           j = Fetch(from, to) \/ \E v \in Values : j = Store(from, to, v)
    BY <1>2
  <2> QED BY <1>1, <2>1
<1>4. NoJob.kind = "none"
  BY DEF NoJob
<1>5. \A from \in Cells : \A to \in from + 1 .. MemorySize :
         to \in 1 .. MemorySize /\ from \in Nat /\ to \in Nat /\ from < to
  BY <1>0 DEF Cells
<1> QED BY <1>1, <1>3, <1>4, <1>5

\* Cells are numbers.
LEMMA CellsAreNumbers == \A a \in Cells : a \in Nat
BY StorageAssumption DEF Cells

\* What is left of a span.
LEMMA SpanFacts ==
    ASSUME NEW a \in Nat, NEW from \in Nat, NEW n \in Nat
    PROVE  a \in Span(from, from + n) <=> ~(a < from) /\ a < from + n
BY DEF Span

\* The fields of a driver.
LEMMA DriverFields ==
    ASSUME NEW s \in Driver
    PROVE  /\ s.mem \in [Cells -> Values] /\ s.job \in [StorageClients -> AnyJob]
           /\ s.heard \in [StorageClients -> Reports]
           /\ s.state \in {"Idle", "Write", "Read"}
           /\ s.offset \in Nat /\ s.endOffset \in Nat /\ s.value \in Values
           /\ s.tries \in Nat /\ s.contents \in Contents /\ s.ok \in BOOLEAN
           /\ s.timer \in {"none", "slice", "Write", "Read", "Erase", "wait"}
           /\ s.blockWriteRequests \in BOOLEAN /\ s.devicePresent \in BOOLEAN
           /\ s.stalled \in SUBSET StorageClients
BY DEF Driver

\* A transfer of k bytes that does not wrap writes the cells it is for.
LEMMA StoredFacts ==
    ASSUME NEW mem \in [Cells -> Values], NEW a \in Nat, NEW k \in Nat, NEW v \in Values,
           \A i \in 0 .. k - 1 : WrappedCell(a, i) = a + i
    PROVE  /\ Stored(mem, a, k, v) \in [Cells -> Values]
           /\ \A b \in Cells :
                 Stored(mem, a, k, v)[b] = IF b \in Span(a, a + k) THEN v ELSE mem[b]
<1>1. ASSUME NEW b \in Cells
      PROVE  (\E i \in 0 .. k - 1 : WrappedCell(a, i) = b) <=> b \in Span(a, a + k)
  <2>1. b \in Int
    BY StorageAssumption DEF Cells
  <2>2. ASSUME b \in Span(a, a + k) PROVE \E i \in 0 .. k - 1 : WrappedCell(a, i) = b
    <3>1. b - a \in 0 .. k - 1 /\ a + (b - a) = b
      BY <2>1, <2>2 DEF Span
    <3> QED BY <3>1
  <2>3. ASSUME NEW i \in 0 .. k - 1, WrappedCell(a, i) = b PROVE b \in Span(a, a + k)
    BY <2>3 DEF Span
  <2> QED BY <2>2, <2>3
<1> QED BY <1>1 DEF Stored

\* Any other writes what it writes, somewhere.
LEMMA StoredSomewhere ==
    ASSUME NEW mem \in [Cells -> Values], NEW a, NEW k, NEW v \in Values
    PROVE  /\ Stored(mem, a, k, v) \in [Cells -> Values]
           /\ \A b \in Cells : Stored(mem, a, k, v)[b] \in {mem[b], v}
BY DEF Stored

\* A transfer that reads brings what there is in the memory.
LEMMA FetchedType ==
    ASSUME NEW contents \in Contents, NEW mem \in [Cells -> Values],
           NEW a \in Nat, NEW from \in Nat, NEW k \in Nat
    PROVE  Fetched(contents, mem, a, from, k) \in Contents
<1>1. ASSUME NEW b \in Cells, b \in Span(a, a + k)
      PROVE  (from + (b - a)) % MemorySize \in Cells
  <2>1. MemorySize \in Nat \ {0}
    BY StorageAssumption
  <2> DEFINE x == from + (b - a)
  <2>2. x \in Nat
    BY <1>1, <2>1 DEF Span, Cells
  <2> HIDE DEF x
  <2>3. x % MemorySize \in 0 .. MemorySize - 1
    BY <2>1, <2>2, Division
  <2> QED BY <2>3 DEF Cells, x
<1> QED BY <1>1 DEF Fetched, Contents

\* One that starts where it should brings the cells it is for.
LEMMA FetchedFacts ==
    ASSUME NEW contents \in Contents, NEW mem \in [Cells -> Values],
           NEW a \in Nat, NEW k \in Nat, Span(a, a + k) \subseteq Cells
    PROVE  \A b \in Cells :
              Fetched(contents, mem, a, a, k)[b] =
                 IF b \in Span(a, a + k) THEN mem[b] ELSE contents[b]
<1>1. ASSUME NEW b \in Cells, b \in Span(a, a + k)
      PROVE  (a + (b - a)) % MemorySize = b
  <2>1. MemorySize \in Nat \ {0} /\ b \in 0 .. MemorySize - 1
    BY StorageAssumption DEF Cells
  <2>2. a + (b - a) = b /\ b = MemorySize * 0 + b /\ b \in Nat
    BY <2>1
  <2>3. b = b % MemorySize
    BY <2>1, <2>2, DivisionIsUnique
  <2> QED BY <2>2, <2>3
<1> QED BY <1>1 DEF Fetched

-----------------------------------------------------------------------------
(* The page by page driver.                                                *)

\* The rest of a driver is as it was.
SameJobs(s, t) ==
    t.mem = s.mem /\ t.job = s.job /\ t.heard = s.heard /\ t.stalled = s.stalled

\* A slice that is completed leaves its operation incomplete, and is followed
\* by another, or leaves it over, and is reported: as done, if all is done.
LEMMA SliceCompletedFacts ==
    ASSUME NEW s \in Driver, s.state \in {"Write", "Read"}, NEW ok \in BOOLEAN,
           Aims(s, s.state), s.offset < s.endOffset,
           Achieved(s, s.state, s.offset),
           ok => Achieved(s, s.state, s.offset + GetSlicedNumberOfBytes(s))
    PROVE  LET t == SliceCompleted(s, ok) IN
           EepromInv(t) /\ SameJobs(s, t)
<1> DEFINE n == GetSlicedNumberOfBytes(s)
           u == IF ok THEN UpdateStatus(s) ELSE s
           t == [u EXCEPT !.ok = ok]
           y == SliceCompleted(s, ok)
<1>1. n \in Nat /\ n > 0 /\ s.offset + n <= s.endOffset
  BY DriverFields, SliceFacts
<1>2. UpdateStatus(s) = [s EXCEPT !.offset = s.offset + n, !.tries = 0]
  BY DEF UpdateStatus
<1> HIDE DEF n
<1>3. /\ t \in Driver /\ SameJobs(s, t)
      /\ t.state = s.state /\ t.endOffset = s.endOffset /\ t.value = s.value
      /\ t.contents = s.contents /\ t.ok = ok
      /\ t.offset = IF ok THEN s.offset + n ELSE s.offset
      /\ ok => t.tries = 0
  <2>1. s.offset + n \in Nat
    BY <1>1, DriverFields
  <2>2. /\ u \in Driver /\ SameJobs(s, u)
        /\ u.state = s.state /\ u.endOffset = s.endOffset /\ u.value = s.value
        /\ u.contents = s.contents
        /\ u.offset = IF ok THEN s.offset + n ELSE s.offset
        /\ ok => u.tries = 0
    <3>1. CASE ok
      <4>1. u = [s EXCEPT !.offset = s.offset + n, !.tries = 0]
        BY <1>2, <3>1
      <4> HIDE DEF u
      <4> QED BY <2>1, <3>1, <4>1 DEF Driver, SameJobs
    <3>2. CASE ~ok
      BY <3>2 DEF SameJobs
    <3> QED BY <3>1, <3>2
  <2> HIDE DEF u
  <2> QED BY <2>2 DEF Driver, SameJobs
<1>4. y = IF OperationIncomplete(t) THEN [t EXCEPT !.timer = "slice"]
          ELSE [t EXCEPT !.state = "Idle", !.timer = s.state]
  <2>1. y = IF OperationIncomplete(t) THEN [t EXCEPT !.timer = "slice"]
            ELSE [t EXCEPT !.state = "Idle", !.timer = t.state]
    BY <1>2, <1>3 DEF SliceCompleted
  <2> QED BY <1>3, <2>1
<1> HIDE DEF t, u
<1>5. /\ Aims(t, t.state) /\ Achieved(t, t.state, t.offset)
  <2>1. Achieved(t, t.state, t.offset)
    BY <1>3 DEF Achieved, Done, SameJobs, n
  <2>2. Aims(t, t.state)
    <3>1. Span(t.offset, t.endOffset) \subseteq Span(s.offset, s.endOffset)
      BY <1>1, <1>3, DriverFields DEF Span
    <3> QED BY <1>1, <1>3, <3>1, DriverFields DEF Aims, SameJobs
  <2> QED BY <2>1, <2>2
<1>6. ok /\ ~OperationIncomplete(t) => t.offset = t.endOffset
  <2>1. MaxRetryCount \in Nat /\ MaxRetryCount > 0
    BY StorageAssumption
  <2> QED BY <1>1, <1>3, <2>1, DriverFields DEF OperationIncomplete
<1>7. CASE OperationIncomplete(t)
  <2> DEFINE z == [t EXCEPT !.timer = "slice"]
  <2>1. /\ z \in Driver /\ SameJobs(t, z) /\ z.timer = "slice"
        /\ z.state = t.state /\ z.offset = t.offset /\ z.endOffset = t.endOffset
        /\ z.value = t.value /\ z.contents = t.contents
    BY <1>3 DEF Driver, SameJobs
  <2>2. y = z
    BY <1>4, <1>7
  <2> HIDE DEF z, y
  <2>3. Aims(z, z.state) /\ Achieved(z, z.state, z.offset)
    BY <1>5, <2>1 DEF Aims, Achieved, Done, SameJobs
  <2>4. z.offset < z.endOffset
    BY <1>7, <2>1 DEF OperationIncomplete
  <2>5. EepromInv(z)
    BY <1>3, <2>1, <2>3, <2>4 DEF EepromInv
  <2> QED BY <1>3, <2>1, <2>2, <2>5 DEF SameJobs, y
<1>8. CASE ~OperationIncomplete(t)
  <2> DEFINE z == [t EXCEPT !.state = "Idle", !.timer = s.state]
  <2>1. /\ z \in Driver /\ SameJobs(t, z) /\ z.timer = s.state /\ z.state = "Idle"
        /\ z.offset = t.offset /\ z.endOffset = t.endOffset /\ z.ok = t.ok
        /\ z.value = t.value /\ z.contents = t.contents
    BY <1>3 DEF Driver, SameJobs
  <2>2. y = z
    BY <1>4, <1>8
  <2> HIDE DEF z, y
  <2>3. Aims(z, s.state) /\ Achieved(z, s.state, z.offset)
    BY <1>3, <1>5, <2>1 DEF Aims, Achieved, Done, SameJobs
  <2>4. z.ok => z.offset = z.endOffset
    BY <1>3, <1>6, <1>8, <2>1
  <2>5. EepromInv(z)
    BY <1>3, <2>1, <2>3, <2>4 DEF EepromInv
  <2> QED BY <1>3, <2>1, <2>2, <2>5 DEF SameJobs, y
<1> QED BY <1>7, <1>8

\* A slice is begun by an operation that is not over.
Begun(s, op) ==
    /\ s \in Driver /\ s.state = op /\ op \in {"Write", "Read"}
    /\ s.timer \in {"none", "Erase"}
    /\ s.offset < s.endOffset
    /\ Aims(s, op) /\ Achieved(s, op, s.offset)

\* A slice that is written touches only cells of its job.
LEMMA WriteASliceFacts ==
    ASSUME NEW s, Begun(s, "Write"), NEW t \in WriteASlice(s)
    PROVE  /\ EepromInv(t) /\ t.job = s.job /\ t.heard = s.heard
           /\ t.stalled \in {s.stalled, s.stalled \union {"dataSource"}}
           /\ Touches(s, t, s.job["dataSource"])
<1> DEFINE u == [s EXCEPT !.tries = s.tries + 1]
           n == GetSlicedNumberOfBytes(s)
           j == s.job["dataSource"]
<1>0. /\ s \in Driver /\ s.state = "Write" /\ s.timer \in {"none", "Erase"}
      /\ s.offset < s.endOffset /\ Aims(s, "Write") /\ Achieved(s, "Write", s.offset)
      /\ s.offset \in Nat /\ s.endOffset \in Nat
  BY DriverFields DEF Begun
<1>1. /\ n \in Nat /\ n > 0 /\ s.offset + n <= s.endOffset
      /\ \A k \in 0 .. n - 1 : WrappedCell(s.offset, k) = s.offset + k
  BY <1>0, SliceFacts
<1>2. /\ u \in Driver /\ SameJobs(s, u)
      /\ u.state = s.state /\ u.timer = s.timer /\ u.offset = s.offset
      /\ u.endOffset = s.endOffset /\ u.value = s.value /\ u.contents = s.contents
  <2>1. s.tries + 1 \in Nat
    BY <1>0, DriverFields
  <2> QED BY <1>0, <2>1, SMTT(60) DEF Driver, SameJobs
<1>3. t \in IF s.blockWriteRequests THEN {u}
             ELSE {SliceCompleted([u EXCEPT !.mem = r.mem,
                                            !.stalled = @ \union Stalls(r, "dataSource")], r.ok) :
                     r \in Write_Eeprom_Hardware(s.mem, s.offset, n, s.value)}
  BY DEF WriteASlice
<1> HIDE DEF u, n
<1>4. CASE s.blockWriteRequests
  <2>1. t = u
    BY <1>3, <1>4
  <2>2. EepromInv(u)
    BY <1>0, <1>2 DEF EepromInv
  <2> QED BY <1>2, <2>1, <2>2 DEF SameJobs, Touches
<1>5. CASE ~s.blockWriteRequests
  <2>1. PICK r \in Write_Eeprom_Hardware(s.mem, s.offset, n, s.value) :
           t = SliceCompleted([u EXCEPT !.mem = r.mem,
                                        !.stalled = @ \union Stalls(r, "dataSource")], r.ok)
    BY <1>3, <1>5
  <2> DEFINE m == r.mem
             stalled == s.stalled \union Stalls(r, "dataSource")
             Exact(k) == r.ok \in BOOLEAN /\ ~r.stalled /\ (r.ok => k = n)
                         /\ m = Stored(s.mem, s.offset, k, s.value)
             Stray(x, k) == r.ok \in BOOLEAN /\ r.stalled /\ m = Stored(s.mem, x, k, s.value)
  <2>2. (\E k \in 0 .. n : Exact(k)) \/ (\E x, k : Stray(x, k))
    <3>1. CASE r = [ok |-> TRUE, stalled |-> FALSE, mem |-> Stored(s.mem, s.offset, n, s.value)]
      <4>1. n \in 0 .. n
        BY <1>1
      <4> QED BY <3>1, <4>1
    <3>2. CASE \E k \in 0 .. n :
                  r = [ok |-> FALSE, stalled |-> FALSE, mem |-> Stored(s.mem, s.offset, k, s.value)]
      BY <3>2
    <3>3. CASE \E acknowledged \in BOOLEAN, x \in StalledWrites(s.offset, n) :
                  r = [ok |-> acknowledged, stalled |-> TRUE,
                       mem |-> Stored(s.mem, x.cell, x.bytes, s.value)]
      BY <3>3
    <3> QED BY <2>1, <3>1, <3>2, <3>3 DEF Write_Eeprom_Hardware
  <2>3. s.mem \in [Cells -> Values] /\ s.value \in Values /\ s.stalled \in SUBSET StorageClients
    BY <1>0, DriverFields
  <2> DEFINE w == [u EXCEPT !.mem = m, !.stalled = stalled]
  <2>4. /\ r.ok \in BOOLEAN /\ m \in [Cells -> Values]
        /\ \A b \in Cells : m[b] \in {s.mem[b], s.value}
    BY <2>2, <2>3, StoredSomewhere
  <2>15. ASSUME NEW k \in 0 .. n, Exact(k)
         PROVE  \A b \in Cells :
                   m[b] = IF b \in Span(s.offset, s.offset + k) THEN s.value ELSE s.mem[b]
    <3>1. k \in Nat /\ \A i \in 0 .. k - 1 : WrappedCell(s.offset, i) = s.offset + i
      BY <1>1
    <3> QED BY <1>0, <2>3, <2>15, <3>1, StoredFacts
  <2>16. /\ stalled \in SUBSET StorageClients
         /\ stalled \in {s.stalled, s.stalled \union {"dataSource"}}
         /\ "dataSource" \notin stalled =>
               /\ "dataSource" \notin s.stalled
               /\ \E k \in 0 .. n : Exact(k)
    BY <2>2, <2>3 DEF Stalls, StorageClients
  <2>6. t = SliceCompleted(w, r.ok)
    <3>1. u.stalled = s.stalled
      BY <1>2 DEF SameJobs
    <3> QED BY <2>1, <3>1
  <2> HIDE DEF m, stalled
  <2>5. /\ w \in Driver /\ w.mem = m /\ w.job = s.job /\ w.heard = s.heard
        /\ w.state = "Write" /\ w.offset = s.offset /\ w.stalled = stalled
        /\ w.endOffset = s.endOffset /\ w.value = s.value
    BY <1>0, <1>2, <2>4, <2>16 DEF Driver, SameJobs
  <2>7. GetSlicedNumberOfBytes(w) = n
    BY <2>5 DEF GetSlicedNumberOfBytes, n
  <2> HIDE DEF w
  <2>8. Aims(w, w.state)
    BY <1>0, <2>5 DEF Aims
  <2>9. /\ j.kind = "store" /\ j.cells \subseteq Cells /\ j.value = s.value
        /\ \A k \in 0 .. n : Span(s.offset, s.offset + k) \subseteq j.cells
    <3>1. j \in StorageJobs /\ j.kind = "store" /\ j.value = s.value
          /\ Span(s.offset, s.endOffset) \subseteq j.cells
      BY <1>0 DEF Aims
    <3>2. \A k \in 0 .. n : Span(s.offset, s.offset + k) \subseteq Span(s.offset, s.endOffset)
      BY <1>0, <1>1 DEF Span
    <3> QED BY <3>1, <3>2, JobFacts
  <2>10. \A a \in j.cells : a \in Cells /\ a \in Nat
    BY <2>9, CellsAreNumbers
  <2>11. Achieved(w, w.state, w.offset)
    BY <1>0, <2>4, <2>5, <2>9, <2>10, <2>16 DEF Achieved, Done
  <2>12. r.ok => Achieved(w, w.state, w.offset + n)
    <3> SUFFICES ASSUME r.ok, NEW a \in j.cells, a < s.offset + n, "dataSource" \notin stalled
                 PROVE  m[a] = s.value
      BY <1>0, <2>5 DEF Achieved, Done
    <3>1. PICK k \in 0 .. n : Exact(k)
      BY <2>16
    <3>2. CASE a < s.offset
      BY <1>0, <2>4, <2>10, <2>16, <3>2 DEF Achieved, Done
    <3>3. CASE ~(a < s.offset)
      <4>1. a \in Nat /\ s.offset \in Nat /\ k \in Nat /\ a < s.offset + k
        BY <1>0, <1>1, <2>10, <3>1
      <4>2. a \in Span(s.offset, s.offset + k)
        BY <3>3, <4>1, SpanFacts
      <4> QED BY <2>10, <2>15, <3>1, <4>2
    <3> QED BY <3>2, <3>3
  <2>13. EepromInv(t) /\ SameJobs(w, t)
    BY <1>0, <2>4, <2>5, <2>6, <2>7, <2>8, <2>11, <2>12, SliceCompletedFacts
  <2>14. Touches(s, t, j)
    <3>1. ASSUME NEW a \in Cells
          PROVE  \/ m[a] = s.mem[a]
                 \/ (a \in j.cells \/ "dataSource" \in stalled) /\ m[a] = j.value
      <4>1. CASE "dataSource" \in stalled
        BY <2>4, <2>9, <4>1
      <4>2. CASE "dataSource" \notin stalled
        <5>1. PICK k \in 0 .. n : Exact(k)
          BY <2>16, <4>2
        <5> QED BY <2>9, <2>15, <5>1
      <4> QED BY <4>1, <4>2
    <3>2. t.mem = m /\ t.stalled = stalled
      BY <2>5, <2>13 DEF SameJobs
    <3> QED BY <2>9, <3>1, <3>2 DEF Touches
  <2> QED BY <2>5, <2>13, <2>14, <2>16 DEF SameJobs
<1> QED BY <1>4, <1>5

\* A slice that is read leaves the memory alone.
LEMMA ReadASliceFacts ==
    ASSUME NEW s, Begun(s, "Read"), NEW t \in ReadASlice(s)
    PROVE  /\ EepromInv(t) /\ t.job = s.job /\ t.heard = s.heard
           /\ t.stalled \in {s.stalled, s.stalled \union {"dataSource"}}
           /\ t.mem = s.mem
<1> DEFINE n == GetSlicedNumberOfBytes(s)
           j == s.job["dataSource"]
<1>0. /\ s \in Driver /\ s.state = "Read" /\ s.timer \in {"none", "Erase"}
      /\ s.offset < s.endOffset /\ Aims(s, "Read") /\ Achieved(s, "Read", s.offset)
      /\ s.offset \in Nat /\ s.endOffset \in Nat /\ s.tries + 1 \in Nat
  BY DriverFields, SMTT(60) DEF Begun
<1>1. /\ n \in Nat /\ n > 0 /\ s.offset + n <= s.endOffset
      /\ \A k \in 0 .. n - 1 : WrappedCell(s.offset, k) = s.offset + k
  BY <1>0, SliceFacts
<1>2. PICK r \in Read_Eeprom_Hardware(s.contents, s.mem, s.offset, n) :
         t = SliceCompleted([s EXCEPT !.tries = s.tries + 1, !.contents = r.contents,
                                      !.stalled = @ \union Stalls(r, "dataSource")], r.ok)
  BY DEF ReadASlice
<1> DEFINE c == r.contents
           stalled == s.stalled \union Stalls(r, "dataSource")
           w == [s EXCEPT !.tries = s.tries + 1, !.contents = c, !.stalled = stalled]
           Exact == ~r.stalled /\ r.ok /\ c = Fetched(s.contents, s.mem, s.offset, s.offset, n)
           Refused == ~r.stalled /\ r.ok = FALSE /\ c = s.contents
           Stray(x, k) == r.stalled /\ r.ok \in BOOLEAN
                          /\ c = Fetched(s.contents, s.mem, s.offset, x, k)
<1>3. Exact \/ Refused \/ \E x \in Cells, k \in 0 .. n : Stray(x, k)
  <2>1. CASE r = [ok |-> TRUE, stalled |-> FALSE,
                  contents |-> Fetched(s.contents, s.mem, s.offset, s.offset, n)]
    BY <2>1
  <2>2. CASE r = [ok |-> FALSE, stalled |-> FALSE, contents |-> s.contents]
    BY <2>2
  <2>3. CASE \E x \in Cells, y \in Receptions(n) :
                r = [ok |-> y.receiveDataCount = n, stalled |-> TRUE,
                     contents |-> Fetched(s.contents, s.mem, s.offset, x, y.bytes)]
    BY <2>3 DEF Receptions
  <2>4. \/ r = [ok |-> TRUE, stalled |-> FALSE,
               contents |-> Fetched(s.contents, s.mem, s.offset, s.offset, n)]
        \/ r = [ok |-> FALSE, stalled |-> FALSE, contents |-> s.contents]
        \/ \E x \in Cells, y \in Receptions(n) :
                r = [ok |-> y.receiveDataCount = n, stalled |-> TRUE,
                     contents |-> Fetched(s.contents, s.mem, s.offset, x, y.bytes)]
    <3> HIDE DEF n
    <3> QED BY <1>2, SMTT(60) DEF Read_Eeprom_Hardware
  <2> QED BY <2>1, <2>2, <2>3, <2>4, Zenon
<1>4. s.mem \in [Cells -> Values] /\ s.contents \in Contents /\ s.stalled \in SUBSET StorageClients
  BY <1>0, DriverFields
<1>5. /\ j.kind = "fetch" /\ j.cells \subseteq Cells
      /\ Span(s.offset, s.offset + n) \subseteq j.cells
  <2>1. j \in StorageJobs /\ j.kind = "fetch"
        /\ Span(s.offset, s.endOffset) \subseteq j.cells
    BY <1>0 DEF Aims
  <2>2. Span(s.offset, s.offset + n) \subseteq Span(s.offset, s.endOffset)
    BY <1>0, <1>1 DEF Span
  <2> QED BY <2>1, <2>2, JobFacts
<1>6. \A a \in j.cells : a \in Cells /\ a \in Nat
  BY <1>5, CellsAreNumbers
<1>7. /\ r.ok \in BOOLEAN /\ c \in Contents
      /\ Exact => \A b \in Cells :
                     c[b] = IF b \in Span(s.offset, s.offset + n) THEN s.mem[b] ELSE s.contents[b]
  <2> DEFINE contents == s.contents
             mem == s.mem
             a == s.offset
  <2>1. /\ contents \in Contents /\ mem \in [Cells -> Values] /\ a \in Nat /\ n \in Nat
        /\ Span(a, a + n) \subseteq Cells
    BY <1>0, <1>1, <1>4, <1>5
  <2>2. \A x \in Cells, k \in 0 .. n : x \in Nat /\ k \in Nat
    BY <1>1, CellsAreNumbers
  <2>3. /\ \/ ~r.stalled /\ r.ok /\ c = Fetched(contents, mem, a, a, n)
           \/ ~r.stalled /\ r.ok = FALSE /\ c = contents
           \/ r.ok \in BOOLEAN /\ \E x \in Cells, k \in 0 .. n : c = Fetched(contents, mem, a, x, k)
        /\ r.ok \in BOOLEAN
    BY <1>3
  <2> HIDE DEF contents, mem, a, c, n
  <2>6. \A x \in Cells, k \in 0 .. n : Fetched(contents, mem, a, x, k) \in Contents
    BY <2>1, <2>2, FetchedType
  <2>7. Fetched(contents, mem, a, a, n) \in Contents
    BY <2>1, FetchedType
  <2>4. c \in Contents
    BY <2>1, <2>3, <2>6, <2>7
  <2>8. \A b \in Cells :
          Fetched(contents, mem, a, a, n)[b] = IF b \in Span(a, a + n) THEN mem[b] ELSE contents[b]
    BY <2>1, FetchedFacts, ZenonT(120)
  <2>5. c = Fetched(contents, mem, a, a, n)
          => \A b \in Cells : c[b] = IF b \in Span(a, a + n) THEN mem[b] ELSE contents[b]
    BY ONLY <2>8, Zenon
  <2> QED BY <2>3, <2>4, <2>5 DEF contents, mem, a
<1>15. /\ stalled \in SUBSET StorageClients
       /\ stalled \in {s.stalled, s.stalled \union {"dataSource"}}
       /\ "dataSource" \notin stalled => "dataSource" \notin s.stalled /\ (Exact \/ Refused)
  BY <1>3, <1>4 DEF Stalls, StorageClients
<1>9. t = SliceCompleted(w, r.ok)
  BY <1>2
<1> HIDE DEF c, n, stalled
<1>8. /\ w \in Driver /\ w.contents = c /\ w.mem = s.mem /\ w.job = s.job /\ w.heard = s.heard
      /\ w.state = "Read" /\ w.offset = s.offset /\ w.stalled = stalled
      /\ w.endOffset = s.endOffset /\ w.value = s.value
  BY <1>0, <1>7, <1>15 DEF Driver
<1>10. GetSlicedNumberOfBytes(w) = n
  BY <1>8 DEF GetSlicedNumberOfBytes, n
<1> HIDE DEF w
<1>11. Aims(w, w.state)
  BY <1>0, <1>8 DEF Aims
<1>16. ASSUME NEW a \in j.cells, a < s.offset, "dataSource" \notin stalled
       PROVE  c[a] = s.mem[a]
  <2>1. s.contents[a] = s.mem[a]
    BY <1>0, <1>15, <1>16 DEF Achieved, Done
  <2> QED BY <1>6, <1>7, <1>15, <1>16, <2>1
<1>12. Achieved(w, w.state, w.offset)
  BY <1>0, <1>8, <1>16 DEF Achieved, Done
<1>13. r.ok => Achieved(w, w.state, w.offset + n)
  <2> SUFFICES ASSUME r.ok, NEW a \in j.cells, a < s.offset + n, "dataSource" \notin stalled
               PROVE  c[a] = s.mem[a]
    BY <1>0, <1>8 DEF Achieved, Done
  <2>1. Exact
    BY <1>15
  <2>2. CASE a < s.offset
    BY <1>16, <2>2
  <2>3. CASE ~(a < s.offset)
    <3>1. a \in Nat /\ s.offset \in Nat /\ n \in Nat
      BY <1>0, <1>1, <1>6
    <3>2. a \in Span(s.offset, s.offset + n)
      BY <2>3, <3>1, SpanFacts
    <3> QED BY <1>6, <1>7, <2>1, <3>2
  <2> QED BY <2>2, <2>3
<1>14. EepromInv(t) /\ SameJobs(w, t)
  BY <1>0, <1>7, <1>8, <1>9, <1>10, <1>11, <1>12, <1>13, SliceCompletedFacts
<1> QED BY <1>8, <1>14, <1>15 DEF SameJobs

-----------------------------------------------------------------------------
(* The steps of BlockStore.                                                *)

\* A job is asked for, or goes on.
LEMMA WorkGoesOn ==
    ASSUME st \in Driver, NEW c \in StorageClients, NEW j \in StorageJobs,
           st.job[c] \in {NoJob, j},
           Touches(st, st', j), st'.mem \in [Cells -> Values],
           c = "dataSource" \/ j.cells = Cells,
           st'.stalled \in {st.stalled, st.stalled \union {c}},
           st'.job = [st.job EXCEPT ![c] = j],
           st'.heard = st.heard \/ st'.heard = [st.heard EXCEPT ![c] = Unheard]
    PROVE  Promise!StoreNext
<1>1. DOMAIN st.mem = Cells /\ DOMAIN st.heard = StorageClients
  BY DriverFields
<1>2. Promise!Takes(j, c \in st'.stalled)
  BY <1>1 DEF Promise!Takes, Touches
<1>3. j \in IF st.job[c] = NoJob THEN StorageJobs ELSE {st.job[c]}
  OBVIOUS
<1>5. \/ st'.heard = st.heard
      \/ st'.heard = [st.heard EXCEPT ![c] = st'.heard[c]] /\ st'.heard[c].result = "nothing"
  BY <1>1 DEF Unheard
<1>4. Promise!Work(c)
  BY <1>2, <1>3, <1>5 DEF Promise!Work
<1> QED BY <1>4 DEF Promise!StoreNext

\* A job ends, and its client hears of it.
LEMMA WorkEnds ==
    ASSUME st \in Driver, NEW c \in StorageClients, NEW j \in StorageJobs,
           st.job[c] \in {NoJob, j},
           st'.mem = st.mem, st'.stalled = st.stalled \ {c},
           st'.job = [st.job EXCEPT ![c] = NoJob],
           NEW r, st'.heard = [st.heard EXCEPT ![c] = r], r.job = j,
           r.result = "done" => c \in st.stalled \/ Promise!IsDone(j, r.contents, st'.mem)
    PROVE  Promise!StoreNext
<1>1. DOMAIN st.mem = Cells /\ DOMAIN st.heard = StorageClients
  BY DriverFields
<1>2. Promise!Takes(j, c \in st.stalled)
  BY <1>1 DEF Promise!Takes
<1>3. j \in IF st.job[c] = NoJob THEN StorageJobs ELSE {st.job[c]}
  OBVIOUS
<1>4. st'.heard[c] = r
  BY <1>1
<1>5. Promise!Work(c)
  BY <1>2, <1>3, <1>4 DEF Promise!Work
<1> QED BY <1>5 DEF Promise!StoreNext

\* The board starts.
LEMMA StartedFacts ==
    ASSUME NEW mem \in [Cells -> Values], NEW present \in BOOLEAN
    PROVE  LET t == Started(mem, present) IN
           /\ EepromInv(t) /\ PersonalityInv(t)
           /\ t.mem = mem /\ t.job = [c \in StorageClients |-> NoJob] /\ t.stalled = {}
           /\ \A c \in StorageClients : t.heard[c].result # "done"
<1> DEFINE t == Started(mem, present)
<1>1. "erased" \in Values /\ Nothing \in Contents /\ NoJob \in AnyJob
  BY DEF Values, Nothing, Contents, AnyJob
<1>2. Unheard \in Reports /\ Unheard.result = "nothing"
  BY <1>1 DEF Reports, Unheard
<1>3. t \in Driver
  BY <1>1, <1>2 DEF Started, Driver
<1>4. /\ t.mem = mem /\ t.job = [c \in StorageClients |-> NoJob] /\ t.timer = "none"
      /\ t.stalled = {} /\ t.heard = [c \in StorageClients |-> Unheard]
  BY DEF Started
<1> HIDE DEF t
<1> QED BY <1>2, <1>3, <1>4 DEF EepromInv, PersonalityInv, t

\* A restart is the power failure of BlockStore.
LEMMA RestartFails ==
    ASSUME st \in Driver, NEW present \in BOOLEAN, st' = Started(st.mem, present)
    PROVE  EepromInv(st') /\ PersonalityInv(st') /\ Promise!StoreNext
<1>1. st.mem \in [Cells -> Values]
  BY DriverFields
<1>2. /\ EepromInv(st') /\ PersonalityInv(st')
      /\ st'.mem = st.mem /\ st'.job = [c \in StorageClients |-> NoJob] /\ st'.stalled = {}
      /\ \A c \in StorageClients : st'.heard[c].result # "done"
  BY <1>1, StartedFacts
<1> QED BY <1>2 DEF Promise!StoreNext, Promise!PowerFails

\* A client asks.
LEMMA AskedFacts ==
    ASSUME st \in Driver, NEW c \in StorageClients, NEW j \in StorageJobs
    PROVE  LET t == Asked(c, j) IN
           /\ t \in Driver /\ t.job = [st.job EXCEPT ![c] = j] /\ t.job[c] = j
           /\ t.mem = st.mem /\ t.heard = [st.heard EXCEPT ![c] = Unheard]
           /\ t.stalled = st.stalled /\ t.state = st.state
           /\ t.offset = st.offset /\ t.endOffset = st.endOffset /\ t.value = st.value
           /\ t.contents = st.contents /\ t.ok = st.ok /\ t.timer = st.timer
           /\ t.devicePresent = st.devicePresent
<1> DEFINE f == [st.job EXCEPT ![c] = j]
           g == [st.heard EXCEPT ![c] = Unheard]
           t == [st EXCEPT !.job = f, !.heard = g]
<1>1. f \in [StorageClients -> AnyJob] /\ f[c] = j
  BY DriverFields DEF AnyJob
<1>4. g \in [StorageClients -> Reports]
  <2>1. Unheard \in Reports
    BY DEF Unheard, Reports, AnyJob, Nothing, Contents
  <2> QED BY <2>1, DriverFields
<1>2. Asked(c, j) = t
  BY DEF Asked
<1> HIDE DEF f, g
<1>3. /\ t \in Driver /\ t.job = f
      /\ t.mem = st.mem /\ t.heard = g /\ t.stalled = st.stalled /\ t.state = st.state
      /\ t.offset = st.offset /\ t.endOffset = st.endOffset /\ t.value = st.value
      /\ t.contents = st.contents /\ t.ok = st.ok /\ t.timer = st.timer
      /\ t.devicePresent = st.devicePresent
  BY <1>1, <1>4 DEF Driver
<1> HIDE DEF t
<1> QED BY <1>1, <1>2, <1>3 DEF f, g

\* A client hears that its job has ended.
LEMMA HeardFacts ==
    ASSUME NEW s \in Driver, NEW c \in StorageClients, NEW result,
           result \in {"done", "failed", "ended"}
    PROVE  /\ Heard(s, c, result) \in Driver
           /\ Heard(s, c, result).job = [s.job EXCEPT ![c] = NoJob]
           /\ Heard(s, c, result).heard =
                 [s.heard EXCEPT ![c] = [job |-> s.job[c], result |-> result,
                                         contents |-> s.contents]]
           /\ Heard(s, c, result).mem = s.mem
           /\ Heard(s, c, result).stalled = s.stalled \ {c}
           /\ Heard(s, c, result).timer = s.timer
           /\ Heard(s, c, result).state = s.state
<1> DEFINE r == [job |-> s.job[c], result |-> result, contents |-> s.contents]
           f == [s.job EXCEPT ![c] = NoJob]
           g == [s.heard EXCEPT ![c] = r]
           h == s.stalled \ {c}
           t == [s EXCEPT !.job = f, !.stalled = h, !.heard = g]
<1>1. r \in Reports
  BY DriverFields DEF Reports
<1>2. Heard(s, c, result) = t
  BY DEF Heard
<1> HIDE DEF r
<1>3. /\ f \in [StorageClients -> AnyJob] /\ g \in [StorageClients -> Reports]
      /\ h \in SUBSET StorageClients
  BY <1>1, DriverFields DEF AnyJob
<1> HIDE DEF f, g, h
<1>4. /\ t \in Driver /\ t.job = f /\ t.heard = g /\ t.stalled = h
      /\ t.mem = s.mem /\ t.timer = s.timer /\ t.state = s.state
  BY <1>3 DEF Driver
<1> HIDE DEF t
<1> QED BY <1>2, <1>4 DEF f, g, h, r

-----------------------------------------------------------------------------
(* The actions of the page by page driver.                                 *)

\* While the data source waits for nothing, the delay timer reports nothing
\* to it.
LEMMA NoReportIsDue ==
    ASSUME NEW s, EepromInv(s), s.job["dataSource"] = NoJob
    PROVE  s.timer \in {"none", "Erase"}
<1>1. s \in Driver /\ ~Aims(s, "Write") /\ ~Aims(s, "Read")
  BY JobFacts DEF EepromInv, Aims
<1> QED BY <1>1, DriverFields DEF EepromInv

\* An operation is prepared, and its first slice is done.
LEMMA EnterSlicesFacts ==
    ASSUME NEW s \in Driver, NEW op \in {"Write", "Read"},
           NEW from \in Nat, NEW to \in Nat, from < to, NEW v \in Values,
           s.timer \in {"none", "Erase"},
           NEW j \in StorageJobs, s.job["dataSource"] = j,
           j.cells = Span(from, to), op = "Write" => j.value = v,
           j.kind = IF op = "Write" THEN "store" ELSE "fetch",
           NEW t \in EnterSlices(s, op, from, to, v)
    PROVE  /\ EepromInv(t) /\ t.job = s.job /\ t.heard = s.heard
           /\ t.stalled \in {s.stalled, s.stalled \union {"dataSource"}}
           /\ Touches(s, t, j)
<1> DEFINE u == [s EXCEPT !.state = op, !.offset = from, !.endOffset = to, !.value = v,
                          !.tries = 0, !.contents = Nothing]
<1>2. Nothing \in Contents
  BY DEF Nothing, Contents
<1>3. /\ u \in Driver /\ SameJobs(s, u) /\ u.timer = s.timer
      /\ u.state = op /\ u.offset = from /\ u.endOffset = to /\ u.value = v
  BY <1>2 DEF Driver, SameJobs
<1>4. t \in Slice(u)
  BY DEF EnterSlices
<1>1. u.job["dataSource"] = j
  BY <1>3 DEF SameJobs
<1>8. s.timer \in {"none", "Erase"}
  OBVIOUS
<1> HIDE DEF u
<1>5. Begun(u, op)
  <2>1. \A a \in j.cells : a < to /\ ~(a < from)
    BY DEF Span
  <2>2. Aims(u, op)
    <3>1. u.offset <= u.endOffset
      BY <1>3
    <3>2. Span(u.offset, u.endOffset) \subseteq j.cells
      BY <1>3
    <3>3. op = "Write" => j.value = u.value
      BY <1>3
    <3> QED BY <1>1, <3>1, <3>2, <3>3 DEF Aims
  <2>3. Achieved(u, op, u.offset)
    BY <1>3, <1>1, <2>1 DEF Achieved
  <2> QED BY <1>3, <1>8, <2>2, <2>3 DEF Begun
<1>6. CASE op = "Write"
  <2>1. t \in WriteASlice(u)
    BY <1>3, <1>4, <1>6 DEF Slice
  <2>2. EepromInv(t) /\ t.job = u.job /\ t.heard = u.heard /\ Touches(u, t, j)
        /\ t.stalled \in {u.stalled, u.stalled \union {"dataSource"}}
    BY <1>5, <1>6, <1>1, <2>1, WriteASliceFacts
  <2> QED BY <1>3, <2>2 DEF SameJobs, Touches
<1>7. CASE op = "Read"
  <2>1. t \in ReadASlice(u)
    BY <1>3, <1>4, <1>7 DEF Slice
  <2>2. j.kind = "fetch"
    BY <1>7
  <2>3. EepromInv(t) /\ t.job = u.job /\ t.heard = u.heard /\ t.mem = u.mem
        /\ t.stalled \in {u.stalled, u.stalled \union {"dataSource"}}
    BY <1>5, <1>7, <2>1, ReadASliceFacts
  <2> QED BY <1>3, <2>2, <2>3 DEF SameJobs, Touches
<1> QED BY <1>6, <1>7

\* Write and Read.
LEMMA DataSourceAsksSafely ==
    ASSUME EepromInv(st), DataSourceAsks
    PROVE  EepromInv(st') /\ Promise!StoreNext
<1> DEFINE ds == "dataSource"
<1>0. /\ st \in Driver /\ st.job[ds] = NoJob /\ st.timer \in {"none", "Erase"}
      /\ ds \in StorageClients
  BY NoReportIsDue DEF EepromInv, DataSourceAsks, StorageClients
<1>1. PICK from \in Cells : \E to \in from + 1 .. MemorySize :
        \/ \E v \in Data :
            LET s == Asked(ds, Store(from, to, v))
            IN IF st.state = "Idle" THEN st' \in EnterSlices(s, "Write", from, to, v) ELSE st' = s
        \/ LET s == Asked(ds, Fetch(from, to))
           IN IF st.state = "Idle" THEN st' \in EnterSlices(s, "Read", from, to, "erased") ELSE st' = s
  BY DEF DataSourceAsks
<1>2. PICK to \in from + 1 .. MemorySize :
        \/ \E v \in Data :
            LET s == Asked(ds, Store(from, to, v))
            IN IF st.state = "Idle" THEN st' \in EnterSlices(s, "Write", from, to, v) ELSE st' = s
        \/ LET s == Asked(ds, Fetch(from, to))
           IN IF st.state = "Idle" THEN st' \in EnterSlices(s, "Read", from, to, "erased") ELSE st' = s
  BY <1>1
<1> DEFINE Asks(op, v) ==
        LET s == Asked(ds, IF op = "Write" THEN Store(from, to, v) ELSE Fetch(from, to))
        IN st' \in EnterSlices(s, op, from, to, v) \/ st' = s
<1>3. \E op \in {"Write", "Read"}, v \in Values : Asks(op, v)
  <2>1. ASSUME NEW v \in Data,
               LET s == Asked(ds, Store(from, to, v))
               IN IF st.state = "Idle" THEN st' \in EnterSlices(s, "Write", from, to, v) ELSE st' = s
        PROVE  v \in Values /\ Asks("Write", v)
    BY <2>1 DEF Values
  <2>2. ASSUME LET s == Asked(ds, Fetch(from, to))
               IN IF st.state = "Idle" THEN st' \in EnterSlices(s, "Read", from, to, "erased") ELSE st' = s
        PROVE  "erased" \in Values /\ Asks("Read", "erased")
    BY <2>2 DEF Values
  <2> HIDE DEF Asks
  <2> QED BY <1>2, <2>1, <2>2
<1>4. PICK op \in {"Write", "Read"}, v \in Values : Asks(op, v)
  BY <1>3
<1> DEFINE j == IF op = "Write" THEN Store(from, to, v) ELSE Fetch(from, to)
           s == Asked(ds, j)
<1>5. j \in StorageJobs
  BY JobFacts
<1>6. /\ s \in Driver /\ s.job = [st.job EXCEPT ![ds] = j] /\ s.job[ds] = j
      /\ s.mem = st.mem /\ s.heard = [st.heard EXCEPT ![ds] = Unheard] /\ s.timer = st.timer
      /\ s.stalled = st.stalled
  BY <1>0, <1>5, AskedFacts
<1>7. st' \in EnterSlices(s, op, from, to, v) \/ st' = s
  BY <1>4
<1> HIDE DEF s
<1>8. /\ EepromInv(st') /\ st'.job = s.job /\ st'.heard = s.heard
      /\ st'.stalled \in {s.stalled, s.stalled \union {"dataSource"}}
      /\ Touches(s, st', j)
  <2>1. CASE st' = s
    BY <1>0, <1>6, <2>1 DEF EepromInv, Touches
  <2>2. CASE st' \in EnterSlices(s, op, from, to, v)
    <3>1. /\ j.cells = Span(from, to) /\ (op = "Write" => j.value = v)
          /\ j.kind = IF op = "Write" THEN "store" ELSE "fetch"
          /\ from \in Nat /\ to \in Nat /\ from < to
      <4>1. CASE op = "Write"
        BY <4>1, JobFacts
      <4>2. CASE op = "Read"
        BY <4>2, JobFacts
      <4> QED BY <4>1, <4>2
    <3>2. s.timer \in {"none", "Erase"}
      BY <1>0, <1>6
    <3> HIDE DEF j
    <3>4. /\ s.job["dataSource"] = j /\ s \in Driver /\ j \in StorageJobs
      BY <1>5, <1>6
    <3>5. ASSUME NEW t \in EnterSlices(s, op, from, to, v)
          PROVE  EepromInv(t) /\ t.job = s.job /\ t.heard = s.heard /\ Touches(s, t, j)
                 /\ t.stalled \in {s.stalled, s.stalled \union {"dataSource"}}
      BY <3>1, <3>2, <3>4, EnterSlicesFacts
    <3>3. EepromInv(st') /\ st'.job = s.job /\ st'.heard = s.heard
          /\ Touches(s, st', j)
          /\ st'.stalled \in {s.stalled, s.stalled \union {"dataSource"}}
      BY <2>2, <3>5
    <3> QED BY <3>3
  <2> QED BY <1>7, <2>1, <2>2
<1> HIDE DEF j
<1>9. Touches(st, st', j)
  BY <1>6, <1>8 DEF Touches
<1>10. st'.mem \in [Cells -> Values]
  BY <1>8, DriverFields DEF EepromInv
<1> QED BY <1>0, <1>5, <1>6, <1>8, <1>9, <1>10, WorkGoesOn

\* Either result of an erase touches cells of the memory only.
LEMMA EraseFacts ==
    ASSUME NEW mem \in [Cells -> Values], NEW r \in EraseI2c(mem)
    PROVE  /\ r.mem \in [Cells -> Values] /\ r.ok \in BOOLEAN /\ r.stalled \in BOOLEAN
           /\ \A a \in Cells : r.mem[a] = mem[a] \/ r.mem[a] = "erased"
<1>0. "erased" \in Values
  BY DEF Values
<1>1. CASE r = [ok |-> TRUE, stalled |-> FALSE, mem |-> [a \in Cells |-> "erased"]]
  BY <1>0, <1>1
<1>2. CASE \E p \in 0 .. (MemorySize \div PageSize) - 1, k \in 0 .. PageSize :
              r = [ok |-> FALSE, stalled |-> FALSE,
                   mem |-> [a \in Cells |-> IF a < p * PageSize + k THEN "erased" ELSE mem[a]]]
  <2> DEFINE M(x) == [a \in Cells |-> IF a < x THEN "erased" ELSE mem[a]]
  <2>1. PICK p \in 0 .. (MemorySize \div PageSize) - 1, k \in 0 .. PageSize :
               r = [ok |-> FALSE, stalled |-> FALSE, mem |-> M(p * PageSize + k)]
    BY <1>2
  <2> DEFINE x == p * PageSize + k
  <2>2. r = [ok |-> FALSE, stalled |-> FALSE, mem |-> M(x)]
    BY <2>1
  <2> HIDE DEF x
  <2> QED BY <1>0, <2>2
<1>3. CASE \E acknowledged \in BOOLEAN, taken \in SUBSET Cells :
              r = [ok |-> acknowledged, stalled |-> TRUE,
                   mem |-> [a \in Cells |-> IF a \in taken THEN "erased" ELSE mem[a]]]
  BY <1>0, <1>3
<1> QED BY <1>1, <1>2, <1>3 DEF EraseI2c

\* EepromEraser's request.
LEMMA EraserAsksSafely ==
    ASSUME EepromInv(st), EraserAsks
    PROVE  EepromInv(st') /\ Promise!StoreNext
<1> DEFINE er == "eraser"
           j == Store(0, MemorySize, "erased")
           s == Asked(er, j)
<1>0. /\ st \in Driver /\ st.job[er] = NoJob /\ er \in StorageClients
      /\ IF st.state = "Idle" THEN st' \in State_Erase(s) ELSE st' = s
  BY DEF EepromInv, EraserAsks, StorageClients
<1>1. /\ j \in StorageJobs /\ j.kind = "store" /\ j.cells = Cells /\ j.value = "erased"
  <2>1. 0 \in Cells /\ MemorySize \in 0 + 1 .. MemorySize
    BY StorageAssumption DEF Cells
  <2>2. "erased" \in Values /\ Span(0, MemorySize) = Cells
    BY DEF Values, Span, Cells
  <2> QED BY <2>1, <2>2, JobFacts
<1> HIDE DEF j
<1>2. /\ s \in Driver /\ s.job = [st.job EXCEPT ![er] = j] /\ s.stalled = st.stalled
      /\ s.mem = st.mem /\ s.heard = [st.heard EXCEPT ![er] = Unheard] /\ s.state = st.state
      /\ s.offset = st.offset /\ s.endOffset = st.endOffset /\ s.value = st.value
      /\ s.contents = st.contents /\ s.ok = st.ok /\ s.timer = st.timer
  BY <1>0, <1>1, AskedFacts
<1> HIDE DEF s
<1>3. /\ EepromInv(st') /\ st'.job = s.job /\ st'.heard = s.heard /\ Touches(s, st', j)
      /\ st'.stalled \in {s.stalled, s.stalled \union {er}}
  <2>1. CASE st' = s
    <3>1. s.job["dataSource"] = st.job["dataSource"]
      BY <1>0, <1>2, DriverFields, SMTT(60)
    <3>2. EepromInv(s)
      BY <1>2, <3>1, SMTT(60) DEF EepromInv, Aims, Achieved, Done
    <3> QED BY <2>1, <3>2 DEF Touches
  <2>2. CASE st' \in State_Erase(s)
    <3>1. PICK r \in EraseI2c(s.mem) :
             st' = [s EXCEPT !.blockWriteRequests = TRUE, !.mem = r.mem, !.ok = r.ok,
                             !.state = "Idle", !.timer = "Erase",
                             !.stalled = @ \union Stalls(r, "eraser")]
      BY <2>2 DEF State_Erase
    <3>2. s.mem \in [Cells -> Values]
      BY <1>2, DriverFields
    <3>3. /\ r.mem \in [Cells -> Values] /\ r.ok \in BOOLEAN /\ r.stalled \in BOOLEAN
          /\ \A a \in Cells : r.mem[a] = s.mem[a] \/ r.mem[a] = "erased"
      BY <3>2, EraseFacts
    <3> DEFINE stalled == s.stalled \union Stalls(r, "eraser")
    <3>7. /\ stalled \in SUBSET StorageClients /\ stalled \in {s.stalled, s.stalled \union {er}}
      BY <1>2, <3>3, DriverFields DEF Stalls, StorageClients
    <3> HIDE DEF stalled
    <3>8. st' = [s EXCEPT !.blockWriteRequests = TRUE, !.mem = r.mem, !.ok = r.ok,
                          !.state = "Idle", !.timer = "Erase", !.stalled = stalled]
      BY <3>1 DEF stalled
    <3>4. /\ st' \in Driver /\ st'.mem = r.mem /\ st'.job = s.job /\ st'.heard = s.heard
          /\ st'.timer = "Erase" /\ st'.stalled = stalled
      BY <1>2, <3>3, <3>7, <3>8 DEF Driver
    <3>5. EepromInv(st')
      BY <3>4 DEF EepromInv
    <3>6. Touches(s, st', j)
      BY <1>1, <3>3, <3>4 DEF Touches
    <3> QED BY <3>4, <3>5, <3>6, <3>7
  <2> QED BY <1>0, <2>1, <2>2
<1>4. Touches(st, st', j) /\ st'.mem \in [Cells -> Values]
  BY <1>2, <1>3, DriverFields DEF Touches, EepromInv
<1> QED BY <1>0, <1>1, <1>2, <1>3, <1>4, WorkGoesOn

\* The next slice of the operation that is under way.
LEMMA NextSliceIsSafe ==
    ASSUME EepromInv(st), NextSlice
    PROVE  EepromInv(st') /\ Promise!StoreNext
<1> DEFINE ds == "dataSource"
           op == st.state
           j == st.job[ds]
           s == [st EXCEPT !.timer = "none"]
<1>0. /\ st \in Driver /\ op \in {"Write", "Read"} /\ st.offset < st.endOffset
      /\ Aims(st, op) /\ Achieved(st, op, st.offset) /\ ds \in StorageClients
      /\ st' \in Slice(s)
  BY DEF EepromInv, NextSlice, StorageClients
<1>1. /\ j \in StorageJobs /\ j.kind = IF op = "Write" THEN "store" ELSE "fetch"
  BY <1>0 DEF Aims
<1>2. /\ s \in Driver /\ SameJobs(st, s) /\ s.state = op /\ s.timer = "none"
      /\ s.offset = st.offset /\ s.endOffset = st.endOffset /\ s.value = st.value
      /\ s.contents = st.contents
  BY <1>0 DEF Driver, SameJobs
<1> HIDE DEF s
<1>3. Aims(s, op) /\ Achieved(s, op, s.offset)
  BY <1>0, <1>2 DEF Aims, Achieved, Done, SameJobs
<1>4. s.job[ds] = j /\ Begun(s, op)
  BY <1>0, <1>2, <1>3 DEF Begun, SameJobs
<1>5. /\ EepromInv(st') /\ st'.job = s.job /\ st'.heard = s.heard
      /\ st'.stalled \in {s.stalled, s.stalled \union {"dataSource"}}
      /\ Touches(s, st', j)
  <2>1. CASE op = "Write"
    <3>1. ASSUME NEW t \in WriteASlice(s)
          PROVE  EepromInv(t) /\ t.job = s.job /\ t.heard = s.heard /\ Touches(s, t, j)
                 /\ t.stalled \in {s.stalled, s.stalled \union {"dataSource"}}
      BY <1>4, <2>1, WriteASliceFacts
    <3>2. st' \in WriteASlice(s)
      BY <1>0, <1>2, <2>1 DEF Slice
    <3> QED BY <3>1, <3>2
  <2>2. CASE op = "Read"
    <3>1. ASSUME NEW t \in ReadASlice(s)
          PROVE  EepromInv(t) /\ t.job = s.job /\ t.heard = s.heard /\ t.mem = s.mem
                 /\ t.stalled \in {s.stalled, s.stalled \union {"dataSource"}}
      BY <1>4, <2>2, ReadASliceFacts
    <3>2. st' \in ReadASlice(s)
      BY <1>0, <1>2, <2>2 DEF Slice
    <3>3. j.kind = "fetch"
      BY <1>1, <2>2
    <3> QED BY <3>1, <3>2, <3>3 DEF Touches
  <2> QED BY <1>0, <2>1, <2>2
<1>6. Touches(st, st', j) /\ st'.mem \in [Cells -> Values]
  BY <1>2, <1>5, DriverFields DEF Touches, EepromInv, SameJobs
<1>7. st'.job = [st.job EXCEPT ![ds] = j] /\ st'.heard = st.heard
      /\ st'.stalled \in {st.stalled, st.stalled \union {ds}}
  <2>1. st.job \in [StorageClients -> AnyJob]
    BY <1>0, DriverFields
  <2> QED BY <1>0, <1>2, <1>5, <2>1 DEF SameJobs
<1> HIDE DEF j
<1>8. st.job[ds] \in {NoJob, j}
  BY DEF j
<1> QED BY <1>0, <1>1, <1>5, <1>6, <1>7, <1>8, WorkGoesOn

\* The delay before the report is over: "done" is the truth.
LEMMA PublishToDataSourceIsSafe ==
    ASSUME EepromInv(st), PublishToDataSource
    PROVE  EepromInv(st') /\ Promise!StoreNext
<1> DEFINE ds == "dataSource"
           op == st.timer
           j == st.job[ds]
           result == Result(st)
           s == Heard(st, ds, result)
           r == [job |-> j, result |-> result, contents |-> st.contents]
<1>0. /\ st \in Driver /\ op \in {"Write", "Read"} /\ ds \in StorageClients
      /\ Aims(st, op) /\ (st.ok => Achieved(st, op, st.endOffset))
      /\ st' = [s EXCEPT !.timer = "none"]
  BY DEF EepromInv, PublishToDataSource, StorageClients
<1>1. /\ j \in StorageJobs /\ j.kind = (IF op = "Write" THEN "store" ELSE "fetch")
      /\ (op = "Write" => j.value = st.value)
  BY <1>0 DEF Aims
<1>2. result \in {"done", "failed", "ended"} /\ (result = "done" => st.ok)
  BY <1>0, DriverFields DEF Result
<1> HIDE DEF result
<1>3. /\ s \in Driver /\ s.job = [st.job EXCEPT ![ds] = NoJob]
      /\ s.heard = [st.heard EXCEPT ![ds] = r] /\ s.mem = st.mem /\ s.stalled = st.stalled \ {ds}
  <2>1. st \in Driver /\ ds \in StorageClients
    BY <1>0
  <2> HIDE DEF ds
  <2> QED BY <1>2, <2>1, HeardFacts
<1>4. r.job = j /\ r.result = result /\ r.contents = st.contents
  OBVIOUS
<1> HIDE DEF s, r
<1>5. /\ st' \in Driver /\ st'.job = s.job /\ st'.heard = s.heard /\ st'.mem = s.mem
      /\ st'.timer = "none" /\ st'.stalled = s.stalled
  BY <1>0, <1>3 DEF Driver
<1>6. EepromInv(st')
  BY <1>5 DEF EepromInv
<1>7. st'.mem = st.mem /\ st'.stalled = st.stalled \ {ds}
  BY <1>3, <1>5
<1>8. r.result = "done" => ds \in st.stalled \/ Promise!IsDone(j, r.contents, st'.mem)
  <2> SUFFICES ASSUME r.result = "done", ds \notin st.stalled
               PROVE  Promise!IsDone(j, r.contents, st'.mem)
    OBVIOUS
  <2>1. Achieved(st, op, st.endOffset)
    BY <1>0, <1>2, <1>4
  <2>2. \A a \in j.cells : Done(st, op, a)
    BY <2>1 DEF Achieved
  <2> QED BY <1>0, <1>1, <1>3, <1>4, <1>5, <2>2 DEF Promise!IsDone, Done
<1> HIDE DEF j
<1>9. st.job[ds] \in {NoJob, j}
  BY DEF j
<1> QED BY <1>0, <1>1, <1>3, <1>4, <1>5, <1>6, <1>7, <1>8, <1>9, WorkEnds

-----------------------------------------------------------------------------
(* The actions of the one wire driver.                                     *)

\* A block that is written touches only cells of its job.
LEMMA WriteBlockFacts ==
    ASSUME NEW s \in Driver, s.stalled = {}, Aims(s, "Write"), s.offset < s.endOffset,
           s.ok => Achieved(s, "Write", s.offset),
           NEW t \in EnterWriteBlock(s)
    PROVE  /\ PersonalityInv(t) /\ t.job = s.job /\ t.heard = s.heard
           /\ Touches(s, t, s.job["dataSource"])
<1> DEFINE n == AT21Bytes(s)
           j == s.job["dataSource"]
<1>0. s.offset \in Nat /\ s.endOffset \in Nat /\ s.mem \in [Cells -> Values]
      /\ s.value \in Values /\ s.ok \in BOOLEAN
  BY DriverFields
<1>1. /\ n \in Nat /\ n > 0 /\ s.offset + n <= s.endOffset
      /\ \A k \in 0 .. n - 1 : WrappedCell(s.offset, k) = s.offset + k
  BY <1>0, BlockFacts, SMTT(60)
<1>2. PICK k \in 0 .. n :
        t = [[s EXCEPT !.mem = Stored(s.mem, s.offset, k, s.value), !.ok = @ /\ k = n,
                       !.offset = @ + k,
                       !.endOffset = IF k > 0 THEN @ ELSE s.offset]
                EXCEPT !.state = "Write", !.timer = "wait"]
  <2>1. PICK u \in WriteBlock(s) : t = [u EXCEPT !.state = "Write", !.timer = "wait"]
    BY DEF EnterWriteBlock
  <2>2. PICK r \in OneWireWrite(s) :
           u = [s EXCEPT !.mem = r.mem, !.ok = @ /\ r.bytes = n, !.offset = @ + r.bytes,
                         !.endOffset = IF r.bytes > 0 THEN @ ELSE s.offset]
    BY DEF WriteBlock
  <2>3. PICK k \in 0 .. n : r = [bytes |-> k, mem |-> Stored(s.mem, s.offset, k, s.value)]
    BY DEF OneWireWrite
  <2>4. r.bytes = k /\ r.mem = Stored(s.mem, s.offset, k, s.value)
    BY <2>3
  <2> HIDE DEF n
  <2> QED BY <2>1, <2>2, <2>4, ZenonT(120)
<1> DEFINE m == Stored(s.mem, s.offset, k, s.value)
           ok == s.ok /\ k = n
           offset == s.offset + k
           endOffset == IF k > 0 THEN s.endOffset ELSE s.offset
<1> HIDE DEF n
<1>3. k \in Nat /\ k <= n /\ offset \in Nat /\ endOffset \in Nat /\ offset <= endOffset
      /\ s.offset <= offset /\ endOffset <= s.endOffset /\ ok \in BOOLEAN
  BY <1>0, <1>1
<1>4. /\ m \in [Cells -> Values]
      /\ \A b \in Cells :
            m[b] = IF b \in Span(s.offset, s.offset + k) THEN s.value ELSE s.mem[b]
  <2> HIDE DEF ok, offset, endOffset
  <2> DEFINE mem == s.mem
             a == s.offset
             v == s.value
  <2>1. /\ mem \in [Cells -> Values] /\ a \in Nat /\ v \in Values
        /\ k \in Nat /\ k <= n
        /\ \A i \in 0 .. n - 1 : WrappedCell(a, i) = a + i
    BY <1>0, <1>1, <1>3
  <2>2. n \in Nat
    BY <1>1
  <2> HIDE DEF mem, a, v
  <2>3. \A i \in 0 .. k - 1 : WrappedCell(a, i) = a + i
    BY <2>1, <2>2
  <2>4. /\ Stored(mem, a, k, v) \in [Cells -> Values]
        /\ \A b \in Cells :
              Stored(mem, a, k, v)[b] = IF b \in Span(a, a + k) THEN v ELSE mem[b]
    BY <2>1, <2>3, StoredFacts
  <2> QED BY <2>4 DEF mem, a, v
<1>5. t = [[s EXCEPT !.mem = m, !.ok = ok, !.offset = offset, !.endOffset = endOffset]
              EXCEPT !.state = "Write", !.timer = "wait"]
  BY <1>2
<1> HIDE DEF m, ok, offset, endOffset
<1>6. /\ t \in Driver /\ t.mem = m /\ t.ok = ok /\ t.offset = offset
      /\ t.endOffset = endOffset /\ t.job = s.job /\ t.heard = s.heard
      /\ t.value = s.value /\ t.timer = "wait" /\ t.stalled = {}
  BY <1>3, <1>4, <1>5, ZenonT(120) DEF Driver
<1>7. /\ j \in StorageJobs /\ j.kind = "store" /\ j.value = s.value
      /\ j.cells \subseteq Cells /\ Span(s.offset, s.endOffset) \subseteq j.cells
  BY JobFacts DEF Aims
<1>8. Aims(t, "Write")
  <2>1. Span(offset, endOffset) \subseteq Span(s.offset, s.endOffset)
    BY <1>0, <1>3 DEF Span
  <2> QED BY <1>3, <1>6, <1>7, <2>1 DEF Aims
<1>9. \A a \in j.cells : a \in Cells /\ a \in Nat
  BY <1>7, CellsAreNumbers
<1>10. t.ok => Achieved(t, "Write", t.offset)
  <2> SUFFICES ASSUME t.ok PROVE Achieved(t, "Write", t.offset)
    OBVIOUS
  <2>1. s.ok /\ k = n /\ Achieved(s, "Write", s.offset)
    BY <1>6 DEF ok
  <2>2. endOffset = s.endOffset /\ offset = s.offset + k
    BY <1>1, <2>1 DEF endOffset, offset
  <2>3. ASSUME NEW a \in j.cells
        PROVE  a < endOffset /\ (a < offset => m[a] = s.value)
    <3>1. a < endOffset
      BY <2>1, <2>2 DEF Achieved
    <3>2. CASE a < s.offset
      BY <1>4, <1>9, <2>1, <3>1, <3>2 DEF Achieved, Done
    <3>3. CASE ~(a < s.offset) /\ a < offset
      <4>1. a \in Nat /\ a < s.offset + k /\ k \in Nat
        BY <1>3, <1>9, <2>2, <3>3
      <4>2. a \in Span(s.offset, s.offset + k)
        BY <1>0, <3>3, <4>1, SpanFacts
      <4> QED BY <1>4, <1>9, <3>1, <4>2
    <3> QED BY <3>1, <3>2, <3>3
  <2> QED BY <1>6, <2>3 DEF Achieved, Done
<1>11. PersonalityInv(t)
  BY <1>6, <1>8, <1>10 DEF PersonalityInv
<1>12. Touches(s, t, j)
  <2>1. Span(s.offset, s.offset + k) \subseteq Span(s.offset, s.endOffset)
    BY <1>0, <1>1, <1>3 DEF Span
  <2> QED BY <1>4, <1>6, <1>7, <2>1 DEF Touches
<1> QED BY <1>6, <1>11, <1>12

\* Blocks that are read bring the cells of the job, or fewer and are not
\* reported done.
LEMMA ReadBlockFacts ==
    ASSUME NEW s \in Driver, NEW from \in Nat, NEW to \in Nat, from < to,
           s.offset = from, s.endOffset = to, Span(from, to) \subseteq Cells,
           NEW t \in EnterReadBlock(s)
    PROVE  /\ t \in Driver /\ SameJobs(s, t) /\ t.timer = s.timer
           /\ t.ok => \A a \in Span(from, to) : t.contents[a] = t.mem[a]
<1> DEFINE C(a) == [b \in Cells |-> IF b \in Span(s.offset, a)
                                    THEN OneWireRead(s, b) ELSE "nothing"]
<1>1. PICK a \in OneWireReadStops(s) :
        t = [s EXCEPT !.contents = C(a), !.ok = a = s.endOffset, !.offset = a]
  BY Zenon DEF EnterReadBlock
<1>2. a \in Nat
  BY DEF OneWireReadStops, Span
<1>3. \A b \in Cells : b \in Span(from, a) => OneWireRead(s, b) = s.mem[b]
  <2> SUFFICES ASSUME NEW b \in Cells, b \in Span(from, a)
               PROVE  OneWireRead(s, b) = s.mem[b]
    OBVIOUS
  <2>1. b \in Nat /\ s.offset <= b /\ s.offset \in Nat
    BY <1>2, CellsAreNumbers DEF Span
  <2> QED BY <2>1, OneWireReadFacts
<1> DEFINE c == C(a)
           ok == a = to
<1>4. c \in Contents /\ \A b \in Cells : b \in Span(from, a) => c[b] = s.mem[b]
  <2>1. s.mem \in [Cells -> Values]
    BY DriverFields
  <2> QED BY <1>3, <2>1 DEF Contents
<1>5. ok \in BOOLEAN /\ (ok => a = to)
  OBVIOUS
<1>6. t = [s EXCEPT !.contents = c, !.ok = ok, !.offset = a]
  BY <1>1
<1> HIDE DEF C, c, ok
<1>7. /\ t \in Driver /\ SameJobs(s, t) /\ t.timer = s.timer /\ t.contents = c /\ t.ok = ok
  BY <1>2, <1>4, <1>5, <1>6, ZenonT(120) DEF Driver, SameJobs
<1> QED BY <1>4, <1>5, <1>7 DEF SameJobs

\* A request that is prepared.
LEMMA PreparedFacts ==
    ASSUME st \in Driver, NEW j, j \in StorageJobs,
           NEW from, from \in Nat, NEW to, to \in Nat, NEW v, v \in Values,
           NEW p, p = Prepared(j, from, to, v)
    PROVE  /\ p \in Driver /\ p.job = [st.job EXCEPT !["dataSource"] = j]
           /\ p.job["dataSource"] = j /\ p.mem = st.mem
           /\ p.heard = [st.heard EXCEPT !["dataSource"] = Unheard]
           /\ p.stalled = st.stalled /\ p.timer = st.timer
           /\ p.offset = from /\ p.endOffset = to /\ p.value = v /\ p.ok
<1> DEFINE u == Asked("dataSource", j)
           t == [u EXCEPT !.offset = from, !.endOffset = to, !.value = v,
                          !.ok = TRUE, !.contents = Nothing]
<1>1. /\ u \in Driver /\ u.job = [st.job EXCEPT !["dataSource"] = j] /\ u.job["dataSource"] = j
      /\ u.mem = st.mem /\ u.heard = [st.heard EXCEPT !["dataSource"] = Unheard]
      /\ u.timer = st.timer /\ u.stalled = st.stalled
  <2>1. "dataSource" \in StorageClients
    BY DEF StorageClients
  <2> QED BY <2>1, AskedFacts
<1>2. p = t
  BY DEF Prepared
<1>3. Nothing \in Contents
  BY DEF Nothing, Contents
<1> HIDE DEF u
<1>4. /\ t \in Driver /\ t.job = u.job /\ t.mem = u.mem /\ t.heard = u.heard
      /\ t.timer = u.timer /\ t.stalled = u.stalled
      /\ t.offset = from /\ t.endOffset = to /\ t.value = v /\ t.ok
  BY <1>1, <1>3 DEF Driver
<1> HIDE DEF t
<1> QED BY <1>1, <1>2, <1>4

\* A request, with or without a device on the wire.
LEMMA AT21AsksSafely ==
    ASSUME PersonalityInv(st), AT21Asked
    PROVE  PersonalityInv(st') /\ Promise!StoreNext
<1> DEFINE ds == "dataSource"
<1>0. /\ st \in Driver /\ st.job[ds] = NoJob /\ st.timer = "none" /\ st.stalled = {}
      /\ ds \in StorageClients
  <2>1. st \in Driver /\ st.stalled = {} /\ st.job[ds] = NoJob /\ st.timer \in {"none", "wait"}
        /\ (st.timer = "wait" => Aims(st, "Write"))
    BY DEF PersonalityInv, AT21Asked
  <2>2. ~Aims(st, "Write")
    BY <2>1, JobFacts DEF Aims
  <2> QED BY <2>1, <2>2 DEF StorageClients
<1>1. PICK from \in Cells : \E to \in from + 1 .. MemorySize :
        \/ \E v \in Data \union {"erased"} :
            LET s == Prepared(Store(from, to, v), from, to, v)
            IN /\ v = "erased" => from = 0 /\ to = MemorySize
               /\ IF st.devicePresent THEN st' \in EnterWriteBlock(s) ELSE st' = WithoutDevice(s)
        \/ LET s == Prepared(Fetch(from, to), from, to, "erased")
           IN IF st.devicePresent
              THEN st' \in {Heard(t, ds, Concluded(t)) : t \in EnterReadBlock(s)}
              ELSE st' = WithoutDevice(s)
  BY DEF AT21Asked
<1>2. PICK to \in from + 1 .. MemorySize :
        \/ \E v \in Data \union {"erased"} :
            LET s == Prepared(Store(from, to, v), from, to, v)
            IN /\ v = "erased" => from = 0 /\ to = MemorySize
               /\ IF st.devicePresent THEN st' \in EnterWriteBlock(s) ELSE st' = WithoutDevice(s)
        \/ LET s == Prepared(Fetch(from, to), from, to, "erased")
           IN IF st.devicePresent
              THEN st' \in {Heard(t, ds, Concluded(t)) : t \in EnterReadBlock(s)}
              ELSE st' = WithoutDevice(s)
  BY <1>1
<1>3. from \in Nat /\ to \in Nat /\ from < to /\ Span(from, to) \subseteq Cells
  BY JobFacts
<1>4. ASSUME NEW asked \in StorageJobs, NEW v \in Values,
             st' = WithoutDevice(Prepared(asked, from, to, v))
      PROVE  PersonalityInv(st') /\ Promise!StoreNext
  <2> DEFINE j == asked
             p == Prepared(j, from, to, v)
             s == [p EXCEPT !.ok = FALSE]
             r == [job |-> s.job[ds], result |-> "ended", contents |-> s.contents]
  <2>0. j \in StorageJobs /\ j.kind \in {"store", "fetch"} /\ j.cells \subseteq Cells
    BY JobFacts
  <2> HIDE DEF j
  <2>1. /\ p \in Driver /\ p.job = [st.job EXCEPT ![ds] = j] /\ p.job[ds] = j
        /\ p.mem = st.mem /\ p.heard = [st.heard EXCEPT ![ds] = Unheard] /\ p.timer = st.timer
        /\ p.stalled = {} /\ p.offset = from /\ p.endOffset = to /\ p.value = v /\ p.ok
    <3>1. st \in Driver /\ st.stalled = {}
      BY <1>0
    <3>2. j \in StorageJobs /\ from \in Nat /\ to \in Nat /\ v \in Values
      BY <1>3, <2>0
    <3>3. p = Prepared(j, from, to, v)
      OBVIOUS
    <3> HIDE DEF p
    <3> QED BY <3>1, <3>2, <3>3, PreparedFacts, SMTT(60)
  <2>2. st' = Heard(s, ds, "ended")
    BY <1>4 DEF WithoutDevice, j
  <2> HIDE DEF p
  <2>3. s \in Driver /\ s.job = p.job /\ s.mem = p.mem /\ s.heard = p.heard
        /\ s.timer = p.timer /\ s.stalled = p.stalled
    BY <2>1 DEF Driver
  <2> HIDE DEF s
  <2>4. /\ st' \in Driver /\ st'.job = [s.job EXCEPT ![ds] = NoJob]
        /\ st'.heard = [s.heard EXCEPT ![ds] = r]
        /\ st'.mem = s.mem /\ st'.timer = s.timer /\ st'.stalled = s.stalled \ {ds}
    BY <1>0, <2>2, <2>3, HeardFacts, SMTT(60)
  <2>5. PersonalityInv(st')
    BY <1>0, <2>1, <2>3, <2>4 DEF PersonalityInv
  <2>6. st'.job = [st.job EXCEPT ![ds] = NoJob]
    <3>1. st.job \in [StorageClients -> AnyJob]
      BY <1>0, DriverFields
    <3> QED BY <2>1, <2>3, <2>4, <3>1
  <2>7. r.job = j /\ r.result # "done"
    BY <2>1, <2>3
  <2> HIDE DEF r
  <2>8. st'.mem = st.mem /\ st'.heard = [st.heard EXCEPT ![ds] = r] /\ st'.stalled = st.stalled \ {ds}
    BY <1>0, <2>1, <2>3, <2>4, DriverFields
  <2> QED BY <1>0, <2>0, <2>5, <2>6, <2>7, <2>8, WorkEnds
<1>5. ASSUME NEW v \in Values,
             st' \in EnterWriteBlock(Prepared(Store(from, to, v), from, to, v))
      PROVE  PersonalityInv(st') /\ Promise!StoreNext
  <2> DEFINE j == Store(from, to, v)
             p == Prepared(j, from, to, v)
  <2>1. /\ j \in StorageJobs /\ j.kind = "store" /\ j.cells = Span(from, to) /\ j.value = v
    BY JobFacts
  <2> HIDE DEF j
  <2>2. /\ p \in Driver /\ p.job = [st.job EXCEPT ![ds] = j] /\ p.job[ds] = j
        /\ p.mem = st.mem /\ p.heard = [st.heard EXCEPT ![ds] = Unheard] /\ p.stalled = {}
        /\ p.offset = from /\ p.endOffset = to /\ p.value = v /\ p.ok
    <3>1. st \in Driver /\ st.stalled = {}
      BY <1>0
    <3>2. j \in StorageJobs /\ from \in Nat /\ to \in Nat /\ v \in Values
      BY <1>3, <2>1
    <3>3. p = Prepared(j, from, to, v)
      OBVIOUS
    <3> HIDE DEF p
    <3>4. /\ p \in Driver /\ p.job = [st.job EXCEPT !["dataSource"] = j]
          /\ p.job["dataSource"] = j /\ p.mem = st.mem
          /\ p.heard = [st.heard EXCEPT !["dataSource"] = Unheard]
          /\ p.stalled = st.stalled /\ p.timer = st.timer
          /\ p.offset = from /\ p.endOffset = to /\ p.value = v /\ p.ok
      <4> HIDE DEF ds
      <4> QED BY ONLY <3>1, <3>2, <3>3, PreparedFacts
    <3> QED BY <3>1, <3>4
  <2>3. st' \in EnterWriteBlock(p)
    BY <1>5 DEF j
  <2> HIDE DEF p
  <2>4. Aims(p, "Write") /\ p.offset < p.endOffset
    BY <1>3, <2>1, <2>2 DEF Aims
  <2>5. Achieved(p, "Write", p.offset)
    BY <1>3, <2>1, <2>2 DEF Achieved, Span
  <2>6. ASSUME NEW t \in EnterWriteBlock(p)
        PROVE  PersonalityInv(t) /\ t.job = p.job /\ t.heard = p.heard /\ Touches(p, t, j)
    BY <2>2, <2>4, <2>5, WriteBlockFacts
  <2>7. PersonalityInv(st') /\ st'.job = p.job /\ st'.heard = p.heard /\ Touches(p, st', j)
    BY <2>3, <2>6
  <2>8. Touches(st, st', j) /\ st'.mem \in [Cells -> Values] /\ st'.stalled = st.stalled
    BY <1>0, <2>2, <2>7, DriverFields DEF Touches, PersonalityInv
  <2> QED BY <1>0, <2>1, <2>2, <2>7, <2>8, WorkGoesOn
<1>6. ASSUME NEW t \in EnterReadBlock(Prepared(Fetch(from, to), from, to, "erased")),
             st' = Heard(t, ds, Concluded(t))
      PROVE  PersonalityInv(st') /\ Promise!StoreNext
  <2> DEFINE j == Fetch(from, to)
             p == Prepared(j, from, to, "erased")
             result == Concluded(t)
             r == [job |-> t.job[ds], result |-> result, contents |-> t.contents]
  <2>1. /\ j \in StorageJobs /\ j.kind = "fetch" /\ j.cells = Span(from, to)
        /\ "erased" \in Values
    BY JobFacts DEF Values
  <2> HIDE DEF j
  <2>2. /\ p \in Driver /\ p.job = [st.job EXCEPT ![ds] = j] /\ p.job[ds] = j
        /\ p.mem = st.mem /\ p.heard = [st.heard EXCEPT ![ds] = Unheard] /\ p.timer = st.timer
        /\ p.stalled = {}
        /\ p.offset = from /\ p.endOffset = to /\ p.value = "erased" /\ p.ok
    <3>1. st \in Driver /\ st.stalled = {} /\ p = Prepared(j, from, to, "erased")
      BY <1>0
    <3>2. j \in StorageJobs /\ from \in Nat /\ to \in Nat /\ "erased" \in Values
      BY <1>3, <2>1
    <3> HIDE DEF p
    <3> QED BY <3>1, <3>2, PreparedFacts
  <2>3. t \in EnterReadBlock(p)
    BY <1>6 DEF j
  <2> HIDE DEF p
  <2>4. /\ t \in Driver /\ SameJobs(p, t) /\ t.timer = p.timer
        /\ t.ok => \A a \in Span(from, to) : t.contents[a] = t.mem[a]
    BY <1>3, <2>2, <2>3, ReadBlockFacts
  <2>5. result \in {"done", "failed", "ended"} /\ (result = "done" => t.ok)
    BY <2>4, DriverFields DEF Concluded
  <2> HIDE DEF result
  <2>6. /\ st' \in Driver /\ st'.job = [t.job EXCEPT ![ds] = NoJob]
        /\ st'.heard = [t.heard EXCEPT ![ds] = r]
        /\ st'.mem = t.mem /\ st'.timer = t.timer /\ st'.stalled = t.stalled \ {ds}
    <3>1. st' = Heard(t, ds, result)
      BY <1>6 DEF result
    <3> QED BY <1>0, <2>4, <2>5, <3>1, HeardFacts, SMTT(60)
  <2>7. PersonalityInv(st')
    BY <1>0, <2>2, <2>4, <2>6 DEF PersonalityInv, SameJobs
  <2>8. st'.job = [st.job EXCEPT ![ds] = NoJob]
    <3>1. st.job \in [StorageClients -> AnyJob]
      BY <1>0, DriverFields
    <3> QED BY <2>2, <2>4, <2>6, <3>1 DEF SameJobs
  <2>9. r.job = j /\ r.result = result /\ r.contents = t.contents
    BY <2>2, <2>4 DEF SameJobs
  <2> HIDE DEF r
  <2>10. r.result = "done" => Promise!IsDone(j, r.contents, st'.mem)
    BY <2>1, <2>4, <2>5, <2>6, <2>9 DEF Promise!IsDone
  <2>11. st'.mem = st.mem /\ st'.stalled = st.stalled \ {ds}
         /\ st'.heard = [st.heard EXCEPT ![ds] = r]
    BY <1>0, <2>2, <2>4, <2>6, DriverFields DEF SameJobs
  <2> QED BY <1>0, <2>1, <2>7, <2>8, <2>9, <2>10, <2>11, WorkEnds
<1>7. CASE \E v \in Data \union {"erased"} :
            LET s == Prepared(Store(from, to, v), from, to, v)
            IN /\ v = "erased" => from = 0 /\ to = MemorySize
               /\ IF st.devicePresent THEN st' \in EnterWriteBlock(s) ELSE st' = WithoutDevice(s)
  <2>1. PICK v \in Values :
          LET s == Prepared(Store(from, to, v), from, to, v)
          IN st' \in EnterWriteBlock(s) \/ st' = WithoutDevice(s)
    BY <1>7 DEF Values
  <2>2. Store(from, to, v) \in StorageJobs
    BY JobFacts
  <2> QED BY <1>4, <1>5, <2>1, <2>2
<1>8. CASE LET s == Prepared(Fetch(from, to), from, to, "erased")
           IN IF st.devicePresent
              THEN st' \in {Heard(t, ds, Concluded(t)) : t \in EnterReadBlock(s)}
              ELSE st' = WithoutDevice(s)
  <2>1. Fetch(from, to) \in StorageJobs /\ "erased" \in Values
    BY JobFacts DEF Values
  <2>2. CASE st.devicePresent
    <3>1. PICK t \in EnterReadBlock(Prepared(Fetch(from, to), from, to, "erased")) :
             st' = Heard(t, ds, Concluded(t))
      BY <1>8, <2>2
    <3> QED BY <1>6, <3>1
  <2>3. CASE ~st.devicePresent
    BY <1>4, <1>8, <2>1, <2>3
  <2> QED BY <2>2, <2>3
<1> QED BY <1>2, <1>7, <1>8

\* The wait after a block is over.
LEMMA AT21WaitOverIsSafe ==
    ASSUME PersonalityInv(st), AT21WaitOver
    PROVE  PersonalityInv(st') /\ Promise!StoreNext
<1> DEFINE ds == "dataSource"
           j == st.job[ds]
<1>0. /\ st \in Driver /\ st.stalled = {} /\ Aims(st, "Write") /\ ds \in StorageClients
      /\ st.ok => Achieved(st, "Write", st.offset)
      /\ IF st.offset < st.endOffset THEN st' \in EnterWriteBlock(st)
         ELSE st' = Heard([st EXCEPT !.state = "Idle", !.timer = "none"], ds, Concluded(st))
  <2>1. ds \in StorageClients
    BY DEF StorageClients
  <2> QED BY <2>1 DEF PersonalityInv, AT21WaitOver, Concluded
<1>1. j \in StorageJobs /\ j.kind = "store" /\ j.value = st.value
      /\ st.offset <= st.endOffset
  BY <1>0 DEF Aims
<1>2. CASE st.offset < st.endOffset
  <2>1. ASSUME NEW t \in EnterWriteBlock(st)
        PROVE  PersonalityInv(t) /\ t.job = st.job /\ t.heard = st.heard /\ Touches(st, t, j)
    BY <1>0, <1>2, WriteBlockFacts
  <2>2. PersonalityInv(st') /\ st'.job = st.job /\ st'.heard = st.heard /\ Touches(st, st', j)
    BY <1>0, <1>2, <2>1
  <2>3. st'.job = [st.job EXCEPT ![ds] = j] /\ st'.mem \in [Cells -> Values]
        /\ st'.stalled = st.stalled
    <3>1. st.job \in [StorageClients -> AnyJob]
      BY <1>0, DriverFields
    <3> QED BY <1>0, <2>2, <3>1, DriverFields DEF PersonalityInv
  <2> HIDE DEF j
  <2>4. st.job[ds] \in {NoJob, j}
    BY DEF j
  <2> QED BY <1>0, <1>1, <2>2, <2>3, <2>4, WorkGoesOn
<1>3. CASE ~(st.offset < st.endOffset)
  <2> DEFINE s == [st EXCEPT !.state = "Idle", !.timer = "none"]
             result == Concluded(st)
             r == [job |-> s.job[ds], result |-> result, contents |-> s.contents]
  <2>1. /\ s \in Driver /\ s.job = st.job /\ s.heard = st.heard /\ s.mem = st.mem
        /\ s.timer = "none" /\ s.stalled = {}
    BY <1>0 DEF Driver
  <2>2. st' = Heard(s, ds, result)
    BY <1>0, <1>3
  <2>3. result \in {"done", "failed", "ended"} /\ (result = "done" => st.ok)
    BY <1>0, DriverFields DEF Concluded
  <2> HIDE DEF s, result
  <2>4. /\ st' \in Driver /\ st'.job = [s.job EXCEPT ![ds] = NoJob]
        /\ st'.heard = [s.heard EXCEPT ![ds] = r]
        /\ st'.mem = s.mem /\ st'.timer = s.timer /\ st'.stalled = s.stalled \ {ds}
    BY <1>0, <2>1, <2>2, <2>3, HeardFacts, SMTT(60)
  <2>5. PersonalityInv(st')
    BY <2>1, <2>4 DEF PersonalityInv
  <2>6. r.job = j /\ r.result = result
    BY <2>1
  <2> HIDE DEF r
  <2>7. r.result = "done" => Promise!IsDone(j, r.contents, st'.mem)
    <3> SUFFICES ASSUME r.result = "done" PROVE Promise!IsDone(j, r.contents, st'.mem)
      OBVIOUS
    <3>1. Achieved(st, "Write", st.offset) /\ st.offset = st.endOffset
      BY <1>0, <1>1, <1>3, <2>3, <2>6, DriverFields
    <3>2. \A a \in j.cells : Done(st, "Write", a)
      BY <3>1 DEF Achieved
    <3> QED BY <1>0, <1>1, <2>1, <2>4, <3>2 DEF Promise!IsDone, Done
  <2>8. st'.mem = st.mem /\ st'.stalled = st.stalled \ {ds}
    BY <1>0, <2>1, <2>4
  <2> HIDE DEF j
  <2>9. st.job[ds] \in {NoJob, j}
    BY DEF j
  <2> QED BY <1>0, <1>1, <2>1, <2>4, <2>5, <2>6, <2>7, <2>8, <2>9, WorkEnds
<1> QED BY <1>2, <1>3

-----------------------------------------------------------------------------
(* The drivers.                                                            *)

\* The board is delivered with nothing under way.
LEMMA StorageStarts ==
    StorageInit => StorageInv /\ st.job = [c \in StorageClients |-> NoJob] /\ st.stalled = {}
<1> SUFFICES ASSUME StorageInit
             PROVE  StorageInv /\ st.job = [c \in StorageClients |-> NoJob] /\ st.stalled = {}
  OBVIOUS
<1>1. PICK present \in BOOLEAN : st = Started([a \in Cells |-> "erased"], present)
  BY DEF StorageInit
<1>4. unit \in {"eeprom", "personalityEeprom"}
  BY DEF StorageInit
<1>2. [a \in Cells |-> "erased"] \in [Cells -> Values]
  BY DEF Values
<1> DEFINE mem == [a \in Cells |-> "erased"]
<1> HIDE DEF mem
<1>3. mem \in [Cells -> Values] /\ st = Started(mem, present)
  BY <1>1, <1>2 DEF mem
<1> QED BY <1>3, <1>4, StartedFacts DEF StorageInv

\* Every step of a driver keeps the invariant and is one of BlockStore.
LEMMA StorageSteps ==
    StorageInv /\ [StorageNext]_unitVars => StorageInv' /\ [Promise!StoreNext]_(Promise!storeVars)
<1> SUFFICES ASSUME StorageInv, [StorageNext]_unitVars
             PROVE  StorageInv' /\ (Promise!StoreNext \/ UNCHANGED Promise!storeVars)
  OBVIOUS
<1>1. CASE DataSourceAsks
  BY <1>1, DataSourceAsksSafely DEF StorageInv, DataSourceAsks, Runs
<1>2. CASE EraserAsks
  BY <1>2, EraserAsksSafely DEF StorageInv, EraserAsks, Runs
<1>3. CASE NextSlice
  BY <1>3, NextSliceIsSafe DEF StorageInv, NextSlice, Runs
<1>4. CASE PublishToDataSource
  BY <1>4, PublishToDataSourceIsSafe DEF StorageInv, PublishToDataSource, Runs
<1>5. CASE PublishToEraser
  BY <1>5, RestartFails DEF StorageInv, PublishToEraser, Runs, EepromInv
<1>6. CASE AT21Asked
  BY <1>6, AT21AsksSafely DEF StorageInv, AT21Asked, Runs
<1>7. CASE AT21WaitOver
  BY <1>7, AT21WaitOverIsSafe DEF StorageInv, AT21WaitOver, Runs
<1>8. CASE PowerIsLost
  BY <1>8, RestartFails, DriverFields DEF StorageInv, PowerIsLost, EepromInv, PersonalityInv
<1>9. CASE UNCHANGED unitVars
  BY <1>9 DEF unitVars, StorageInv, Promise!storeVars
<1> QED BY <1>1, <1>2, <1>3, <1>4, <1>5, <1>6, <1>7, <1>8, <1>9 DEF StorageNext

\* HardwareEeprom_DelayedPageOperationWrapper.c on HardwareEeprom_I2c.c with
\* EepromEraser.c, and Eeprom_AT21CS11.c: whatever fails, is retried, is refused
\* or is cut off, a job changes no cell but its own and is reported done only
\* when it is, or when the I2C bus has stalled during that job.
THEOREM DriversImplementBlockStore ==
    StorageInit /\ [][StorageNext]_unitVars => DriversKeepThePromise
<1>1. StorageInit => StorageInv /\ st.job = [c \in StorageClients |-> NoJob] /\ st.stalled = {}
  BY StorageStarts
<1>2. StorageInv /\ [StorageNext]_unitVars
        => StorageInv' /\ [Promise!StoreNext]_(Promise!storeVars)
  BY StorageSteps
<1> QED BY <1>1, <1>2, PTL DEF DriversKeepThePromise, Promise!StoreSpec

-----------------------------------------------------------------------------
(***************************************************************************)
(* CabinetServices: the auger, whose relays are switched one at a time.    *)
(***************************************************************************)

AugerFields == {"fsm", "stored", "power", "direction", "timer", "vote", "fresh"}
IceTypes == {"Off", "Crushed", "Cubed"}

Auger(s) ==
    /\ s = [f \in AugerFields |-> s[f]]
    /\ s.power \in BOOLEAN /\ s.direction \in BOOLEAN /\ s.fresh \in BOOLEAN
    /\ s.vote \in IceTypes /\ s.timer \in {"none", "delay", "relief"}

\* The states that wait have switched the power off; the auger rests with
\* both relays off and settled.
AugerInv(s) ==
    /\ Auger(s)
    /\ s.fsm \in {"Idle", "Cubed", "Crushed", "DispensingComplete", "MoveInReverseDirection",
                  "EnsureRelaysAreOff", "PreIdleDelay"}
    /\ s.fsm \in {"Idle", "DispensingComplete", "EnsureRelaysAreOff", "PreIdleDelay"} => ~s.power
    /\ s.fsm \in {"Idle", "PreIdleDelay"} => ~s.direction
    /\ s.fsm \in {"Idle", "Cubed"} => s.timer = "none"
    /\ s.fsm = "Idle" => s.vote = "Off" /\ ~s.fresh

\* What the two setters and the delay change.
LEMMA AugerPowerFacts ==
    ASSUME NEW s, Auger(s), NEW on \in BOOLEAN
    PROVE  LET t == SetAugerMotorPowerTo(s, on)
           IN  /\ Auger(t) /\ (t.power <=> on) /\ t.direction = s.direction
               /\ t.fsm = s.fsm /\ t.vote = s.vote /\ t.timer = s.timer
<1> DEFINE fresh == s.fresh \/ s.power # on
           t == [s EXCEPT !.power = on, !.fresh = fresh]
<1>1. SetAugerMotorPowerTo(s, on) = t
  BY DEF SetAugerMotorPowerTo
<1>2. fresh \in BOOLEAN
  BY DEF Auger
<1> HIDE DEF fresh
<1>3. /\ t = [f \in AugerFields |-> t[f]] /\ t.power = on /\ t.fresh = fresh
      /\ t.direction = s.direction /\ t.fsm = s.fsm /\ t.vote = s.vote /\ t.timer = s.timer
  BY DEF Auger, AugerFields
<1> HIDE DEF t
<1>4. Auger(t)
  BY <1>2, <1>3 DEF Auger
<1> QED BY <1>1, <1>3, <1>4

LEMMA AugerDirectionFacts ==
    ASSUME NEW s, Auger(s), NEW on \in BOOLEAN
    PROVE  LET t == SetAugerMotorDirectionRelayTo(s, on)
           IN  /\ Auger(t) /\ t.power = s.power /\ (t.direction <=> on)
               /\ t.fsm = s.fsm /\ t.vote = s.vote /\ t.timer = s.timer
<1> DEFINE fresh == s.fresh \/ s.direction # on
           t == [s EXCEPT !.direction = on, !.fresh = fresh]
<1>1. SetAugerMotorDirectionRelayTo(s, on) = t
  BY DEF SetAugerMotorDirectionRelayTo
<1>2. fresh \in BOOLEAN
  BY DEF Auger
<1> HIDE DEF fresh
<1>3. /\ t = [f \in AugerFields |-> t[f]] /\ t.direction = on /\ t.fresh = fresh
      /\ t.power = s.power /\ t.fsm = s.fsm /\ t.vote = s.vote /\ t.timer = s.timer
  BY DEF Auger, AugerFields
<1> HIDE DEF t
<1>4. Auger(t)
  BY <1>2, <1>3 DEF Auger
<1> QED BY <1>1, <1>3, <1>4

LEMMA AugerDelayFacts ==
    ASSUME NEW s, Auger(s)
    PROVE  LET t == StartDelayBetweenRelayOperations(s)
           IN  /\ Auger(t) /\ t.power = s.power /\ t.direction = s.direction
               /\ t.fsm = s.fsm /\ t.vote = s.vote
BY DEF StartDelayBetweenRelayOperations, Auger, AugerFields

\* What entering each state does to the relays.
LEMMA EnterAugerFacts ==
    ASSUME NEW s, Auger(s)
    PROVE  /\ LET t == EnterCubed(s)
              IN  /\ Auger(t) /\ t.fsm = "Cubed" /\ t.vote = s.vote /\ t.timer = s.timer
                  /\ t.power /\ t.direction = s.direction
           /\ LET t == EnterCrushed(s)
              IN  /\ Auger(t) /\ t.fsm = "Crushed" /\ t.vote = s.vote
                  /\ t.power = s.power /\ t.direction
           /\ LET t == EnterDispensingComplete(s)
              IN  /\ Auger(t) /\ t.fsm = "DispensingComplete" /\ t.vote = s.vote
                  /\ ~t.power /\ t.direction = s.direction
           /\ LET t == EnterEnsureRelaysAreOff(s)
              IN  /\ Auger(t) /\ t.fsm = "EnsureRelaysAreOff" /\ t.vote = s.vote
                  /\ ~t.power /\ t.direction = s.direction
           /\ LET t == EnterMoveInReverseDirection(s)
              IN  /\ Auger(t) /\ t.fsm = "MoveInReverseDirection" /\ t.vote = s.vote
                  /\ t.power = s.power
           /\ LET t == EnterPreIdleDelay(s)
              IN  /\ Auger(t) /\ t.fsm = "PreIdleDelay" /\ t.vote = s.vote
                  /\ t.power = s.power /\ t.direction = s.direction
<1>0. TRUE \in BOOLEAN /\ FALSE \in BOOLEAN
  OBVIOUS
<1>1. ASSUME NEW name
      PROVE  LET t == [s EXCEPT !.fsm = name]
             IN  /\ Auger(t) /\ t.fsm = name /\ t.vote = s.vote /\ t.timer = s.timer
                 /\ t.power = s.power /\ t.direction = s.direction
  BY DEF Auger, AugerFields
<1>3. LET t == EnterCubed(s)
      IN  /\ Auger(t) /\ t.fsm = "Cubed" /\ t.vote = s.vote /\ t.timer = s.timer
          /\ t.power /\ t.direction = s.direction
  <2> PICK store : store = "Cubed"
    OBVIOUS
  <2> DEFINE r == [s EXCEPT !.fsm = "Cubed", !.stored = store]
  <2>1. EnterCubed(s) = SetAugerMotorPowerTo(r, TRUE)
    BY DEF EnterCubed
  <2>2. /\ Auger(r) /\ r.fsm = "Cubed" /\ r.vote = s.vote /\ r.timer = s.timer
        /\ r.direction = s.direction
    BY DEF Auger, AugerFields
  <2> HIDE DEF r
  <2> DEFINE q == SetAugerMotorPowerTo(r, TRUE)
  <2>3. /\ Auger(q) /\ q.fsm = "Cubed" /\ q.vote = s.vote /\ q.timer = s.timer
        /\ q.power /\ q.direction = s.direction
    BY <1>0, <2>2, AugerPowerFacts
  <2> HIDE DEF q
  <2> QED BY <2>1, <2>3 DEF q
<1>4. LET t == EnterCrushed(s)
      IN  /\ Auger(t) /\ t.fsm = "Crushed" /\ t.vote = s.vote
          /\ t.power = s.power /\ t.direction
  <2> PICK store : store = "Crushed"
    OBVIOUS
  <2> DEFINE r == [s EXCEPT !.fsm = "Crushed", !.stored = store]
             q == SetAugerMotorDirectionRelayTo(r, TRUE)
  <2>1. EnterCrushed(s) = StartDelayBetweenRelayOperations(q)
    BY DEF EnterCrushed
  <2>2. Auger(r) /\ r.fsm = "Crushed" /\ r.vote = s.vote /\ r.power = s.power
    BY DEF Auger, AugerFields
  <2> HIDE DEF r
  <2>3. Auger(q) /\ q.fsm = "Crushed" /\ q.vote = s.vote /\ q.power = s.power /\ q.direction
    BY <1>0, <2>2, AugerDirectionFacts
  <2> HIDE DEF q
  <2> QED BY <2>1, <2>3, AugerDelayFacts
<1>5. ASSUME NEW name, NEW u, u = StartDelayBetweenRelayOperations(SetAugerMotorPowerTo([s EXCEPT !.fsm = name], FALSE))
      PROVE  Auger(u) /\ u.fsm = name /\ u.vote = s.vote /\ ~u.power /\ u.direction = s.direction
  <2> DEFINE r == [s EXCEPT !.fsm = name]
             q == SetAugerMotorPowerTo(r, FALSE)
  <2>2. Auger(r) /\ r.fsm = name /\ r.vote = s.vote /\ r.direction = s.direction
    BY <1>1
  <2>1. u = StartDelayBetweenRelayOperations(q)
    BY <1>5
  <2> HIDE DEF r
  <2>3. Auger(q) /\ q.fsm = name /\ q.vote = s.vote /\ ~q.power /\ q.direction = s.direction
    BY <1>0, <2>2, AugerPowerFacts
  <2> HIDE DEF q
  <2> QED BY <2>1, <2>3, AugerDelayFacts
<1>6. LET t == EnterDispensingComplete(s)
      IN  /\ Auger(t) /\ t.fsm = "DispensingComplete" /\ t.vote = s.vote
          /\ ~t.power /\ t.direction = s.direction
  BY <1>5 DEF EnterDispensingComplete
<1>7. LET t == EnterEnsureRelaysAreOff(s)
      IN  /\ Auger(t) /\ t.fsm = "EnsureRelaysAreOff" /\ t.vote = s.vote
          /\ ~t.power /\ t.direction = s.direction
  BY <1>5 DEF EnterEnsureRelaysAreOff
<1>8. LET t == EnterMoveInReverseDirection(s)
      IN  /\ Auger(t) /\ t.fsm = "MoveInReverseDirection" /\ t.vote = s.vote
          /\ t.power = s.power
  <2> DEFINE r == [s EXCEPT !.fsm = "MoveInReverseDirection"]
             q == ReverseAugerDirectionRelay(r)
  <2>1. EnterMoveInReverseDirection(s) = StartDelayBetweenRelayOperations(q)
    BY DEF EnterMoveInReverseDirection
  <2>2. Auger(r) /\ r.fsm = "MoveInReverseDirection" /\ r.vote = s.vote /\ r.power = s.power
    BY <1>1
  <2> HIDE DEF r
  <2>3. q = SetAugerMotorDirectionRelayTo(r, TRUE) \/ q = SetAugerMotorDirectionRelayTo(r, FALSE) \/ q = r
    BY DEF ReverseAugerDirectionRelay
  <2> HIDE DEF q
  <2>4. Auger(q) /\ q.fsm = "MoveInReverseDirection" /\ q.vote = s.vote /\ q.power = s.power
    <3>1. CASE q = SetAugerMotorDirectionRelayTo(r, TRUE)
      BY <1>0, <2>2, <3>1, AugerDirectionFacts
    <3>2. CASE q = SetAugerMotorDirectionRelayTo(r, FALSE)
      BY <1>0, <2>2, <3>2, AugerDirectionFacts
    <3>3. CASE q = r
      BY <2>2, <3>3
    <3> QED BY <2>3, <3>1, <3>2, <3>3
  <2> QED BY <2>1, <2>4, AugerDelayFacts
<1>9. LET t == EnterPreIdleDelay(s)
      IN  /\ Auger(t) /\ t.fsm = "PreIdleDelay" /\ t.vote = s.vote
          /\ t.power = s.power /\ t.direction = s.direction
  <2> DEFINE r == [s EXCEPT !.fsm = "PreIdleDelay"]
  <2>1. EnterPreIdleDelay(s) = StartDelayBetweenRelayOperations(r)
    BY DEF EnterPreIdleDelay
  <2>2. Auger(r) /\ r.fsm = "PreIdleDelay" /\ r.vote = s.vote /\ r.power = s.power /\ r.direction = s.direction
    BY <1>1
  <2> HIDE DEF r
  <2> QED BY <2>1, <2>2, AugerDelayFacts
<1> QED BY <1>3, <1>4, <1>6, <1>7, <1>8, <1>9

LEMMA AugerStarts == AugerInit => AugerInv(st)
<1> SUFFICES ASSUME AugerInit PROVE AugerInv(st)
  OBVIOUS
<1>1. PICK off : off = "Off"
  OBVIOUS
<1>2. PICK no : no = FALSE
  OBVIOUS
<1>3. PICK low : low = FALSE
  OBVIOUS
<1>4. st = [fsm |-> "Idle", stored |-> "Off", power |-> FALSE, direction |-> no,
            timer |-> "none", vote |-> off, fresh |-> low]
  BY <1>1, <1>2, <1>3 DEF AugerInit
<1>5. st = [f \in AugerFields |-> st[f]]
  BY <1>4 DEF AugerFields
<1>6. st.fsm = "Idle" /\ st.power = FALSE /\ st.direction = no
  BY <1>4
<1>7. st.timer = "none" /\ st.vote = off /\ st.fresh = low
  BY <1>4
<1> QED BY <1>1, <1>2, <1>3, <1>5, <1>6, <1>7 DEF AugerInv, Auger, IceTypes

\* What a step of the auger may do to its relays.
AugerSpares(s, t) ==
    /\ t.direction # s.direction => ~s.power /\ ~t.power
    /\ t.direction # s.direction \/ (t.power /\ ~s.power) => ~s.fresh \/ t.vote = s.vote
    /\ t.fsm = "Idle" => t.vote = "Off" /\ ~t.power /\ ~t.direction

LEMMA AugerStep ==
    ASSUME AugerInv(st), IceTypeVoteChanges \/ AugerTimerExpires
    PROVE  AugerInv(st') /\ AugerSpares(st, st')
<1>0. TRUE \in BOOLEAN /\ FALSE \in BOOLEAN
  OBVIOUS
<1>1. CASE IceTypeVoteChanges
  <2>1. PICK type \in IceTypes \ {st.vote} :
          LET s == [st EXCEPT !.vote = type]
          IN  st' = CASE s.fsm = "Idle" /\ type = "Crushed" -> EnterCrushed(s)
                      [] s.fsm = "Idle" /\ type = "Cubed" -> EnterCubed(s)
                      [] s.fsm = "Cubed" /\ type \in {"Off", "Crushed"} -> EnterDispensingComplete(s)
                      [] s.fsm = "Crushed" /\ type \in {"Off", "Cubed"} -> EnterDispensingComplete(s)
                      [] OTHER -> s
    BY <1>1 DEF IceTypeVoteChanges, IceTypes
  <2> DEFINE s == [st EXCEPT !.vote = type]
  <2>2. /\ Auger(s) /\ s.vote = type /\ s.fsm = st.fsm /\ s.power = st.power /\ s.direction = st.direction
        /\ s.timer = st.timer /\ s.fresh = st.fresh
    BY <2>1 DEF AugerInv, Auger, AugerFields
  <2>3. /\ s.fsm = "Idle" /\ type = "Crushed" => st' = EnterCrushed(s)
        /\ s.fsm = "Idle" /\ type = "Cubed" => st' = EnterCubed(s)
        /\ s.fsm = "Cubed" /\ type \in {"Off", "Crushed"} => st' = EnterDispensingComplete(s)
        /\ s.fsm = "Crushed" /\ type \in {"Off", "Cubed"} => st' = EnterDispensingComplete(s)
        /\ s.fsm \notin {"Idle", "Cubed", "Crushed"} => st' = s
        /\ s.fsm = "Cubed" /\ type = "Cubed" => st' = s
        /\ s.fsm = "Crushed" /\ type = "Crushed" => st' = s
    BY <2>1
  <2> HIDE DEF s
  <2>4. type # st.vote /\ type \in IceTypes
    BY <2>1
  <2>5. CASE s.fsm = "Idle"
    <3>1. ~s.power /\ ~s.direction /\ ~st.fresh /\ s.timer = "none" /\ st.vote = "Off" /\ ~st.power
      BY <2>2, <2>5 DEF AugerInv
    <3>2. CASE type = "Crushed"
      <4>1. /\ Auger(st') /\ st'.fsm = "Crushed" /\ ~st'.power
        BY <2>2, <2>3, <2>5, <3>1, <3>2, EnterAugerFacts
      <4> QED BY <3>1, <4>1 DEF AugerInv, AugerSpares
    <3>3. CASE type = "Cubed"
      <4>1. /\ Auger(st') /\ st'.fsm = "Cubed" /\ st'.power /\ ~st'.direction /\ st'.timer = "none"
            /\ st'.direction = st.direction
        BY <2>2, <2>3, <2>5, <3>1, <3>3, EnterAugerFacts
      <4> QED BY <3>1, <4>1 DEF AugerInv, AugerSpares
    <3> QED BY <2>4, <3>1, <3>2, <3>3 DEF IceTypes
  <2>6. CASE \/ s.fsm = "Cubed" /\ type \in {"Off", "Crushed"}
             \/ s.fsm = "Crushed" /\ type \in {"Off", "Cubed"}
    <3>1. Auger(st') /\ st'.fsm = "DispensingComplete" /\ ~st'.power /\ st'.direction = st.direction
      BY <2>2, <2>3, <2>6, EnterAugerFacts
    <3> QED BY <3>1 DEF AugerInv, AugerSpares
  <2>7. CASE \/ s.fsm \notin {"Idle", "Cubed", "Crushed"}
             \/ s.fsm = "Cubed" /\ type = "Cubed"
             \/ s.fsm = "Crushed" /\ type = "Crushed"
    <3>1. st' = s
      BY <2>3, <2>7
    <3>2. s.fsm # "Idle"
      BY <2>7
    <3> QED BY <2>2, <3>1, <3>2 DEF AugerInv, AugerSpares
  <2> QED BY <2>4, <2>5, <2>6, <2>7 DEF IceTypes
<1>2. CASE AugerTimerExpires
  <2> DEFINE s == [st EXCEPT !.timer = "none", !.fresh = FALSE]
  <2>1. /\ st.timer # "none"
        /\ s.fsm = "PreIdleDelay" /\ s.vote = "Off" => st' = [s EXCEPT !.fsm = "Idle"]
        /\ s.fsm = "PreIdleDelay" /\ s.vote = "Crushed" => st' = EnterCrushed(s)
        /\ s.fsm = "PreIdleDelay" /\ s.vote = "Cubed" => st' = EnterCubed(s)
        /\ s.fsm = "Crushed" => st' = SetAugerMotorPowerTo(s, TRUE)
        /\ s.fsm = "DispensingComplete" => st' = EnterMoveInReverseDirection(s)
        /\ s.fsm = "MoveInReverseDirection" /\ st.timer = "delay" =>
               st' = [SetAugerMotorPowerTo(s, TRUE) EXCEPT !.timer = "relief"]
        /\ s.fsm = "MoveInReverseDirection" /\ st.timer = "relief" => st' = EnterEnsureRelaysAreOff(s)
        /\ s.fsm = "EnsureRelaysAreOff" => st' = EnterPreIdleDelay(SetAugerMotorDirectionRelayTo(s, FALSE))
    BY <1>2 DEF AugerTimerExpires
  <2>2. /\ Auger(s) /\ s.vote = st.vote /\ s.fsm = st.fsm /\ s.power = st.power /\ s.direction = st.direction
        /\ s.timer = "none" /\ ~s.fresh
    <3>1. PICK no : no = FALSE
      OBVIOUS
    <3>2. s = [st EXCEPT !.timer = "none", !.fresh = no]
      BY <3>1
    <3> HIDE DEF s
    <3>3. /\ s = [f \in AugerFields |-> s[f]] /\ s.timer = "none" /\ s.fresh = no
          /\ s.vote = st.vote /\ s.fsm = st.fsm /\ s.power = st.power /\ s.direction = st.direction
      BY <3>2 DEF AugerInv, Auger, AugerFields
    <3> QED BY <3>1, <3>3 DEF AugerInv, Auger
  <2> HIDE DEF s
  <2>3. CASE s.fsm = "PreIdleDelay"
    <3>1. ~s.power /\ ~s.direction /\ ~st.power /\ ~st.direction
      BY <2>2, <2>3 DEF AugerInv
    <3>2. CASE s.vote = "Off"
      <4>1. st' = [s EXCEPT !.fsm = "Idle"]
        BY <2>1, <2>3, <3>2
      <4>2. /\ Auger(st') /\ st'.fsm = "Idle" /\ st'.vote = "Off" /\ ~st'.power /\ ~st'.direction
            /\ st'.timer = "none" /\ ~st'.fresh
        BY <2>2, <3>1, <3>2, <4>1 DEF Auger, AugerFields
      <4> QED BY <3>1, <4>2 DEF AugerInv, AugerSpares, Auger
    <3>3. CASE s.vote = "Crushed"
      <4>1. Auger(st') /\ st'.fsm = "Crushed" /\ ~st'.power /\ st'.vote = st.vote
        BY <2>1, <2>2, <2>3, <3>1, <3>3, EnterAugerFacts
      <4> QED BY <3>1, <4>1 DEF AugerInv, AugerSpares
    <3>4. CASE s.vote = "Cubed"
      <4>1. /\ Auger(st') /\ st'.fsm = "Cubed" /\ st'.vote = st.vote /\ st'.timer = "none"
            /\ st'.direction = st.direction
        BY <2>1, <2>2, <2>3, <3>4, EnterAugerFacts
      <4> QED BY <4>1 DEF AugerInv, AugerSpares
    <3> QED BY <2>2, <3>2, <3>3, <3>4 DEF Auger, IceTypes
  <2>4. CASE s.fsm = "Crushed"
    <3>1. Auger(st') /\ st'.fsm = "Crushed" /\ st'.vote = st.vote /\ st'.direction = st.direction
      BY <1>0, <2>1, <2>2, <2>4, AugerPowerFacts, ZenonT(120)
    <3> QED BY <3>1 DEF AugerInv, AugerSpares
  <2>5. CASE s.fsm = "DispensingComplete"
    <3>1. ~s.power /\ ~st.power
      BY <2>2, <2>5 DEF AugerInv
    <3>2. Auger(st') /\ st'.fsm = "MoveInReverseDirection" /\ st'.vote = st.vote /\ ~st'.power
      BY <2>1, <2>2, <2>5, <3>1, EnterAugerFacts
    <3> QED BY <3>1, <3>2 DEF AugerInv, AugerSpares
  <2>6. CASE s.fsm = "MoveInReverseDirection" /\ st.timer = "delay"
    <3> DEFINE r == SetAugerMotorPowerTo(s, TRUE)
    <3>1. /\ Auger(r) /\ r.fsm = "MoveInReverseDirection" /\ r.vote = st.vote /\ r.direction = st.direction
      BY <1>0, <2>2, <2>6, AugerPowerFacts
    <3>2. st' = [r EXCEPT !.timer = "relief"]
      BY <2>1, <2>6
    <3> HIDE DEF r
    <3>3. /\ Auger(st') /\ st'.fsm = "MoveInReverseDirection" /\ st'.vote = st.vote
          /\ st'.direction = st.direction
      BY <3>1, <3>2 DEF Auger, AugerFields
    <3> QED BY <3>3 DEF AugerInv, AugerSpares
  <2>7. CASE s.fsm = "MoveInReverseDirection" /\ st.timer = "relief"
    <3>1. /\ Auger(st') /\ st'.fsm = "EnsureRelaysAreOff" /\ st'.vote = st.vote /\ ~st'.power
          /\ st'.direction = st.direction
      BY <2>1, <2>2, <2>7, EnterAugerFacts
    <3> QED BY <3>1 DEF AugerInv, AugerSpares
  <2>8. CASE s.fsm = "EnsureRelaysAreOff"
    <3> DEFINE r == SetAugerMotorDirectionRelayTo(s, FALSE)
    <3>1. ~s.power /\ ~st.power
      BY <2>2, <2>8 DEF AugerInv
    <3>2. Auger(r) /\ r.vote = st.vote /\ ~r.power /\ ~r.direction
      BY <1>0, <2>2, <3>1, AugerDirectionFacts
    <3>3. st' = EnterPreIdleDelay(r)
      BY <2>1, <2>8
    <3> HIDE DEF r
    <3>4. /\ Auger(st') /\ st'.fsm = "PreIdleDelay" /\ st'.vote = st.vote /\ ~st'.power /\ ~st'.direction
      BY <3>2, <3>3, EnterAugerFacts
    <3> QED BY <3>1, <3>4 DEF AugerInv, AugerSpares
  <2> QED BY <2>1, <2>2, <2>3, <2>4, <2>5, <2>6, <2>7, <2>8 DEF AugerInv, Auger
<1> QED BY <1>1, <1>2

(* The invariant of the auger among the units of the module.               *)

\* The units of CabinetServices by themselves.
CabinetServicesSpec == CabinetServicesInit /\ [][CabinetServicesNext]_unitVars

AugerUnitInv == unit = "auger" => AugerInv(st)

LEMMA AugerUnitStarts == CabinetServicesInit => AugerUnitInv
<1> SUFFICES ASSUME CabinetServicesInit, unit = "auger" PROVE AugerInv(st)
  BY DEF AugerUnitInv
<1>1. AugerInit
  BY DEF CabinetServicesInit, LightingInit, SweatHeaterInit, FillTubeInit, SoftPwmInit, ConvertibleDoorInit,
         BoardsInit, FactoryInit
<1> QED BY <1>1, AugerStarts

\* A step while the auger is the unit is a step of the auger.
LEMMA AugerUnitStep ==
    ASSUME AugerUnitInv, [CabinetServicesNext]_unitVars
    PROVE  AugerUnitInv' /\ (unit = "auger" => UNCHANGED unitVars \/ AugerSpares(st, st'))
<1>1. CASE UNCHANGED unitVars
  BY <1>1 DEF unitVars, AugerUnitInv
<1>2. CASE unit = "auger" /\ CabinetServicesNext
  <2>1. IceTypeVoteChanges \/ AugerTimerExpires
    BY <1>2, ZenonT(60) DEF CabinetServicesNext, LightDoorChanges, LightIsRequested, MaxDoorOpenTimeExpires, SurroundingsChange,
           FillTubeInputChanges, DutyCycleChanges, PeriodTimerExpires, DutyCycleOnCompletes, ConvertibleDoorChanges,
           ConvertibleStateChanges, InitialDelayTimerExpires, RetryTimerExpires, MonitoringTimerExpires,
           BoardAnswers, BoardRequestIsLost, FactoryTimeIsRequested, FactoryMinuteEnds, BoardsReset, Runs
  <2>2. AugerInv(st)
    BY <1>2 DEF AugerUnitInv
  <2> QED BY <2>1, <2>2, AugerStep DEF AugerUnitInv
<1>3. CASE unit # "auger" /\ CabinetServicesNext
  <2>1. unit' = unit
    <3>1. IceTypeVoteChanges \/ AugerTimerExpires => unit' = unit
      BY ZenonT(60) DEF IceTypeVoteChanges, AugerTimerExpires, Runs
    <3>2. LightDoorChanges \/ LightIsRequested \/ MaxDoorOpenTimeExpires => unit' = unit
      BY ZenonT(60) DEF LightDoorChanges, LightIsRequested, MaxDoorOpenTimeExpires, Runs
    <3>3. SurroundingsChange => unit' = unit
      BY ZenonT(60) DEF SurroundingsChange, Runs
    <3>4. FillTubeInputChanges => unit' = unit
      BY ZenonT(60) DEF FillTubeInputChanges, Runs
    <3>5. DutyCycleChanges \/ PeriodTimerExpires \/ DutyCycleOnCompletes => unit' = unit
      BY ZenonT(60) DEF DutyCycleChanges, PeriodTimerExpires, DutyCycleOnCompletes, Runs
    <3>6. ConvertibleDoorChanges \/ ConvertibleStateChanges => unit' = unit
      BY ZenonT(60) DEF ConvertibleDoorChanges, ConvertibleStateChanges, Runs
    <3>7. InitialDelayTimerExpires \/ RetryTimerExpires \/ MonitoringTimerExpires \/ BoardAnswers \/ BoardRequestIsLost
             => unit' = unit
      BY ZenonT(120) DEF InitialDelayTimerExpires, RetryTimerExpires, MonitoringTimerExpires, BoardAnswers, BoardRequestIsLost, Runs
    <3>8. FactoryTimeIsRequested \/ FactoryMinuteEnds \/ BoardsReset => unit' = unit
      BY ZenonT(60) DEF FactoryTimeIsRequested, FactoryMinuteEnds, BoardsReset, Runs
    <3> QED BY <1>3, <3>1, <3>2, <3>3, <3>4, <3>5, <3>6, <3>7, <3>8 DEF CabinetServicesNext
  <2> QED BY <1>3, <2>1 DEF AugerUnitInv
<1> QED BY <1>1, <1>2, <1>3

\* AugerMotorController.c: however quickly ice types are voted back and forth,
\* the direction is only switched without power, a delay lies between two
\* operations of the relays, and the auger rests only when nobody wants ice.
THEOREM AugerRelaysStaySpared == CabinetServicesSpec => AugerRelaysAreSpared
<1> DEFINE Spared == unit = "auger" => AugerSpares(st, st')
<1>1. AugerUnitInv /\ [CabinetServicesNext]_unitVars => AugerUnitInv' /\ [Spared]_unitVars
  BY AugerUnitStep
<1>2. CabinetServicesInit => AugerUnitInv
  BY AugerUnitStarts
<1>3. [][Spared]_unitVars => AugerRelaysAreSpared
  BY DEF AugerRelaysAreSpared, AugerSpares
<1> QED BY <1>1, <1>2, <1>3, PTL DEF CabinetServicesSpec

-----------------------------------------------------------------------------
(***************************************************************************)
(* PanAndIceCabinet: the feature pan's votes and set point, the ice        *)
(* cabinet's fan with the startup vote that hears its own resolution, and  *)
(* the cabinet's set point, forced cooling and gamma.                      *)
(***************************************************************************)

(* Clamping.                                                               *)

LEMMA ClampFacts ==
    ASSUME NEW n \in Int, NEW low \in Int, NEW high \in Int, low <= high
    PROVE  /\ Clamp(n, low, high) \in low..high
           /\ n \in low..high => Clamp(n, low, high) = n
<1> DEFINE top == Max({low, n})
           bottom == Min({high, top})
<1>1. top = IF n < low THEN low ELSE n
  BY DEF Max
<1>2. top \in Int
  BY <1>1
<1> HIDE DEF top
<1>3. bottom = IF top > high THEN high ELSE top
  BY <1>2 DEF Min
<1>4. Clamp(n, low, high) = bottom
  BY DEF Clamp, top
<1> HIDE DEF bottom
<1> QED BY <1>1, <1>2, <1>3, <1>4

-----------------------------------------------------------------------------
(* The votes of the pan.                                                   *)

PanVoters == {"dualEvapFan", "heaterDisabling", "pulldown", "deliFan", "freshFoodFan", "freezerFan", "deliPan"}
PanInputFields == {"mode", "hot", "temperature", "rpm", "resolved", "grid"}
SlopeFields == {"mode", "old", "slope", "known", "warmup"}
PanFields == {"input", "votes", "slope"}

SlopeTyped(w) == w = [f \in SlopeFields |-> w[f]] /\ w.old \in Int /\ w.slope \in Int /\ w.known \in BOOLEAN

\* The vote belongs to the slope and the mode that were heard last.
WarmupFollows(w) ==
    w.known =>
        /\ w.mode # "ActiveHeating" => w.warmup = "DontCare"
        /\ w.mode = "ActiveHeating" /\ w.slope < SlopeLowerLimit => w.warmup = "Max"
        /\ w.mode = "ActiveHeating" /\ w.slope > SlopeUpperLimit => w.warmup = "Min"

PanVotesInv(s) ==
    /\ s = [f \in PanFields |-> s[f]]
    /\ s.input = [f \in PanInputFields |-> s.input[f]] /\ s.input.temperature \in Int
    /\ s.votes = VotesOfThePan(s.input)
    /\ SlopeTyped(s.slope) /\ s.slope.mode = s.input.mode /\ WarmupFollows(s.slope)

LEMMA PerformSlopeFacts ==
    ASSUME NEW w, SlopeTyped(w)
    PROVE  LET t == PerformSlopeVote(w)
           IN  SlopeTyped(t) /\ t.mode = w.mode /\ WarmupFollows(t)
<1>0. SlopeLowerLimit \in Int /\ SlopeUpperLimit \in Int /\ SlopeLowerLimit < SlopeUpperLimit
  BY PanAndIceCabinetAssumption
<1>1. ASSUME NEW vote
      PROVE  LET t == [w EXCEPT !.warmup = vote]
             IN  /\ SlopeTyped(t) /\ t.mode = w.mode /\ t.slope = w.slope /\ t.known = w.known
                 /\ t.warmup = vote
  BY DEF SlopeTyped, SlopeFields
<1> DEFINE t == PerformSlopeVote(w)
<1>2. CASE w.mode # "ActiveHeating"
  <2>1. t = [w EXCEPT !.warmup = "DontCare"]
    BY <1>2 DEF PerformSlopeVote
  <2> HIDE DEF t
  <2>2. SlopeTyped(t) /\ t.mode = w.mode /\ t.warmup = "DontCare"
    BY <2>1 DEF SlopeTyped, SlopeFields
  <2> QED BY <1>2, <2>2 DEF WarmupFollows, t
<1>3. CASE w.mode = "ActiveHeating" /\ w.slope < SlopeLowerLimit
  <2>1. t = [w EXCEPT !.warmup = "Max"]
    BY <1>3 DEF PerformSlopeVote
  <2> HIDE DEF t
  <2>2. SlopeTyped(t) /\ t.mode = w.mode /\ t.warmup = "Max" /\ t.slope = w.slope
    BY <2>1 DEF SlopeTyped, SlopeFields
  <2>3. WarmupFollows(t)
    BY <1>0, <1>3, <2>2 DEF WarmupFollows, SlopeTyped
  <2> QED BY <2>2, <2>3 DEF t
<1>4. CASE w.mode = "ActiveHeating" /\ ~(w.slope < SlopeLowerLimit) /\ w.slope > SlopeUpperLimit
  <2>1. t = [w EXCEPT !.warmup = "Min"]
    BY <1>4 DEF PerformSlopeVote
  <2> HIDE DEF t
  <2>2. SlopeTyped(t) /\ t.mode = w.mode /\ t.warmup = "Min" /\ t.slope = w.slope
    BY <2>1 DEF SlopeTyped, SlopeFields
  <2>3. WarmupFollows(t)
    BY <1>4, <2>2 DEF WarmupFollows
  <2> QED BY <2>2, <2>3 DEF t
<1>5. CASE w.mode = "ActiveHeating" /\ ~(w.slope < SlopeLowerLimit) /\ ~(w.slope > SlopeUpperLimit)
  <2>1. t = w
    BY <1>5 DEF PerformSlopeVote
  <2> HIDE DEF t
  <2> QED BY <1>5, <2>1 DEF WarmupFollows, t
<1> QED BY <1>2, <1>3, <1>4, <1>5

LEMMA PanVotesStart == PanVotesInit => PanVotesInv(st)
<1> SUFFICES ASSUME PanVotesInit PROVE PanVotesInv(st)
  OBVIOUS
<1>1. PICK zero : zero = 0
  OBVIOUS
<1>2. PICK still : still = 0
  OBVIOUS
<1>3. PICK mode \in PanInputs.mode, t \in PanTemperatures :
        LET s == [mode |-> mode, hot |-> FALSE, temperature |-> t, rpm |-> 0,
                  resolved |-> [speed |-> 0, care |-> FALSE], grid |-> [speed |-> 0, care |-> TRUE]]
        IN  st = [input |-> s, votes |-> VotesOfThePan(s),
                  slope |-> [mode |-> mode, old |-> t, slope |-> still, known |-> FALSE,
                             warmup |-> IF mode = "ActiveHeating" THEN "Min" ELSE "DontCare"]]
  BY <1>2 DEF PanVotesInit
<1> DEFINE resolved == [speed |-> 0, care |-> FALSE]
           grid == [speed |-> 0, care |-> TRUE]
<1> HIDE DEF resolved, grid
<1> DEFINE s == [mode |-> mode, hot |-> FALSE, temperature |-> t, rpm |-> zero, resolved |-> resolved, grid |-> grid]
           votes == VotesOfThePan(s)
           vote == IF mode = "ActiveHeating" THEN "Min" ELSE "DontCare"
           w == [mode |-> mode, old |-> t, slope |-> still, known |-> FALSE, warmup |-> vote]
<1>4. st = [input |-> s, votes |-> votes, slope |-> w]
  BY <1>1, <1>3 DEF resolved, grid
<1>5. s = [f \in PanInputFields |-> s[f]] /\ s.temperature = t /\ s.mode = mode
  BY DEF PanInputFields
<1>50. votes = VotesOfThePan(s)
  OBVIOUS
<1> HIDE DEF s, vote
<1>6. w = [f \in SlopeFields |-> w[f]] /\ w.mode = mode /\ w.old = t /\ w.slope = still /\ w.known = FALSE
  BY DEF SlopeFields
<1> HIDE DEF w, votes
<1>7. st = [f \in PanFields |-> st[f]] /\ st.input = s /\ st.votes = votes /\ st.slope = w
  BY <1>4 DEF PanFields
<1>8. t \in Int
  BY <1>3, PanAndIceCabinetAssumption
<1>9. SlopeTyped(w) /\ WarmupFollows(w)
  <2>1. w.known \in BOOLEAN /\ ~w.known
    BY <1>6
  <2>2. w.old \in Int /\ w.slope \in Int
    BY <1>2, <1>6, <1>8
  <2>3. SlopeTyped(w)
    BY ONLY <1>6, <2>1, <2>2 DEF SlopeTyped
  <2> QED BY <2>1, <2>3 DEF WarmupFollows
<1> QED BY <1>5, <1>50, <1>6, <1>7, <1>8, <1>9 DEF PanVotesInv

\* A voter that does not listen to an input has the same vote for its new value.
LEMMA ListenersAreComplete ==
    ASSUME NEW s, s = [f \in PanInputFields |-> s[f]], NEW input \in PanInputFields, NEW value,
           NEW v \in PanVoters, v \notin PanListeners(input)
    PROVE  VotesOfThePan([s EXCEPT ![input] = value])[v] = VotesOfThePan(s)[v]
<1> DEFINE t == [s EXCEPT ![input] = value]
<1>1. \A f \in PanInputFields : f # input => t[f] = s[f]
  BY DEF PanInputFields
<1>2. /\ VotesOfThePan(t).dualEvapFan = DualEvapFanVote(t) /\ VotesOfThePan(t).heaterDisabling = HeaterDisablingVote(t)
      /\ VotesOfThePan(t).pulldown = PulldownVote(t) /\ VotesOfThePan(t).deliFan = DeliFanDependencyVote(t)
      /\ VotesOfThePan(t).freshFoodFan = FreshFoodFanDependencyVote(t)
      /\ VotesOfThePan(t).freezerFan = FreezerFanDependencyVote(t) /\ VotesOfThePan(t).deliPan = DeliPanVote(t)
  BY DEF VotesOfThePan
<1>3. /\ VotesOfThePan(s).dualEvapFan = DualEvapFanVote(s) /\ VotesOfThePan(s).heaterDisabling = HeaterDisablingVote(s)
      /\ VotesOfThePan(s).pulldown = PulldownVote(s) /\ VotesOfThePan(s).deliFan = DeliFanDependencyVote(s)
      /\ VotesOfThePan(s).freshFoodFan = FreshFoodFanDependencyVote(s)
      /\ VotesOfThePan(s).freezerFan = FreezerFanDependencyVote(s) /\ VotesOfThePan(s).deliPan = DeliPanVote(s)
  BY DEF VotesOfThePan
<1> HIDE DEF t
<1>4. input # "mode" => t.mode = s.mode
  BY <1>1 DEF PanInputFields
<1>5. input # "hot" => t.hot = s.hot
  BY <1>1 DEF PanInputFields
<1>6. input # "temperature" => t.temperature = s.temperature
  BY <1>1 DEF PanInputFields
<1>7. input # "rpm" => t.rpm = s.rpm
  BY <1>1 DEF PanInputFields
<1>8. input # "resolved" => t.resolved = s.resolved
  BY <1>1 DEF PanInputFields
<1>9. input # "grid" => t.grid = s.grid
  BY <1>1 DEF PanInputFields
<1>10. /\ input = "mode" => v \notin {"dualEvapFan", "heaterDisabling", "deliPan"}
       /\ input = "hot" => v # "heaterDisabling"
       /\ input = "temperature" => v # "pulldown"
       /\ input = "rpm" => v # "deliFan"
       /\ input = "resolved" => v \notin {"freshFoodFan", "freezerFan"}
       /\ input = "grid" => v # "deliPan"
  BY DEF PanListeners
<1>11. CASE v = "dualEvapFan"
  BY <1>2, <1>3, <1>4, <1>10, <1>11 DEF DualEvapFanVote, t
<1>12. CASE v = "heaterDisabling"
  BY <1>2, <1>3, <1>4, <1>5, <1>10, <1>12 DEF HeaterDisablingVote, t
<1>13. CASE v = "pulldown"
  BY <1>2, <1>3, <1>6, <1>10, <1>13, SMTT(60) DEF PulldownVote, t
<1>14. CASE v = "deliFan"
  BY <1>2, <1>3, <1>7, <1>10, <1>14 DEF DeliFanDependencyVote, t
<1>15. CASE v = "freshFoodFan"
  BY <1>2, <1>3, <1>8, <1>10, <1>15 DEF FreshFoodFanDependencyVote, t
<1>16. CASE v = "freezerFan"
  BY <1>2, <1>3, <1>8, <1>10, <1>16 DEF FreezerFanDependencyVote, t
<1>17. CASE v = "deliPan"
  <2>1. input # "mode" /\ input # "grid"
    BY <1>10, <1>17
  <2>2. t.mode = s.mode /\ t.grid = s.grid
    BY <1>4, <1>9, <2>1
  <2>3. DeliPanVote(t) = DeliPanVote(s)
    BY <2>2 DEF DeliPanVote
  <2> QED BY <1>2, <1>3, <1>17, <2>3 DEF t
<1> QED BY <1>11, <1>12, <1>13, <1>14, <1>15, <1>16, <1>17 DEF PanVoters

LEMMA PanVotesStep ==
    ASSUME PanVotesInv(st), PanInputChanges \/ CalculateSlope
    PROVE  PanVotesInv(st')
<1>1. CASE PanInputChanges
  <2>0. DOMAIN PanInputs = PanInputFields
    BY SMTT(60) DEF PanInputs, PanInputFields
  <2>1. PICK input \in PanInputFields : \E value \in PanInputs[input] \ {st.input[input]} :
          LET new == [st.input EXCEPT ![input] = value]
          IN  st' = [st EXCEPT !.input = new,
                       !.votes = [v \in DOMAIN @ |->
                                    IF v \in PanListeners(input) THEN VotesOfThePan(new)[v] ELSE @[v]],
                       !.slope = IF input = "mode" THEN OnDataFeaturePanModeChange(@, value) ELSE @]
    BY <1>1, <2>0, ZenonT(120) DEF PanInputChanges
  <2>2. PICK value \in PanInputs[input] \ {st.input[input]} :
          LET new == [st.input EXCEPT ![input] = value]
          IN  st' = [st EXCEPT !.input = new,
                       !.votes = [v \in DOMAIN @ |->
                                    IF v \in PanListeners(input) THEN VotesOfThePan(new)[v] ELSE @[v]],
                       !.slope = IF input = "mode" THEN OnDataFeaturePanModeChange(@, value) ELSE @]
    BY <2>1
  <2> DEFINE old == st.input
             new == [old EXCEPT ![input] = value]
             votes == [v \in DOMAIN st.votes |->
                          IF v \in PanListeners(input) THEN VotesOfThePan(new)[v] ELSE st.votes[v]]
             slope == IF input = "mode" THEN OnDataFeaturePanModeChange(st.slope, value) ELSE st.slope
  <2>3. st' = [st EXCEPT !.input = new, !.votes = votes, !.slope = slope]
    BY <2>2
  <2>4. /\ st = [f \in PanFields |-> st[f]] /\ old = [f \in PanInputFields |-> old[f]] /\ old.temperature \in Int
        /\ st.votes = VotesOfThePan(old) /\ SlopeTyped(st.slope) /\ st.slope.mode = old.mode
        /\ WarmupFollows(st.slope)
    BY DEF PanVotesInv
  <2>5. DOMAIN st.votes = PanVoters
    BY <2>4 DEF VotesOfThePan, PanVoters
  <2>6. ASSUME NEW v \in PanVoters PROVE votes[v] = VotesOfThePan(new)[v]
    <3>1. CASE v \in PanListeners(input)
      BY <2>5, <3>1
    <3>2. CASE v \notin PanListeners(input)
      <4>1. votes[v] = st.votes[v]
        BY <2>5, <3>2
      <4>2. VotesOfThePan(new)[v] = VotesOfThePan(old)[v]
        BY <2>4, <3>2, ListenersAreComplete, SMTT(60)
      <4> QED BY <2>4, <4>1, <4>2
    <3> QED BY <3>1, <3>2
  <2>7. votes = VotesOfThePan(new)
    <3>1. votes = [v \in PanVoters |-> votes[v]]
      BY <2>5
    <3>2. VotesOfThePan(new) = [v \in PanVoters |-> VotesOfThePan(new)[v]]
      BY DEF VotesOfThePan, PanVoters
    <3> HIDE DEF votes, new
    <3> QED BY <2>6, <3>1, <3>2
  <2>8. /\ new = [f \in PanInputFields |-> IF f = input THEN value ELSE old[f]]
    BY <2>4
  <2>9. new = [f \in PanInputFields |-> new[f]]
    BY <2>8
  <2>10. new.temperature \in Int
    <3>1. "temperature" \in PanInputFields
      BY DEF PanInputFields
    <3>2. CASE input = "temperature"
      <4>1. value \in PanTemperatures
        BY <2>2, <3>2 DEF PanInputs
      <4> QED BY <2>8, <3>1, <3>2, <4>1, PanAndIceCabinetAssumption
    <3>3. CASE input # "temperature"
      BY <2>4, <2>8, <3>1, <3>3
    <3> QED BY <3>2, <3>3
  <2>11. new.mode = IF input = "mode" THEN value ELSE old.mode
    BY <2>8 DEF PanInputFields
  <2> HIDE DEF new, votes
  <2>12. SlopeTyped(slope) /\ slope.mode = new.mode /\ WarmupFollows(slope)
    <3>1. CASE input = "mode"
      <4> DEFINE w == [st.slope EXCEPT !.mode = value]
      <4>1. SlopeTyped(w) /\ w.mode = value /\ w.known = st.slope.known
        BY <2>4 DEF SlopeTyped, SlopeFields
      <4>2. slope = IF st.slope.known THEN PerformSlopeVote(w) ELSE w
        BY <3>1 DEF OnDataFeaturePanModeChange
      <4> HIDE DEF w, slope
      <4>3. CASE st.slope.known
        BY <2>11, <3>1, <4>1, <4>2, <4>3, PerformSlopeFacts
      <4>4. CASE ~st.slope.known
        BY <2>11, <3>1, <4>1, <4>2, <4>4 DEF WarmupFollows
      <4> QED BY <4>3, <4>4
    <3>2. CASE input # "mode"
      <4>1. slope = st.slope
        BY <3>2
      <4> HIDE DEF slope
      <4> QED BY <2>4, <2>11, <3>2, <4>1
    <3> QED BY <3>1, <3>2
  <2> HIDE DEF slope
  <2>13. st' = [f \in PanFields |-> st'[f]] /\ st'.input = new /\ st'.votes = votes /\ st'.slope = slope
    BY <2>3, <2>4 DEF PanFields
  <2> QED BY <2>7, <2>9, <2>10, <2>12, <2>13, SMTT(60) DEF PanVotesInv
<1>2. CASE CalculateSlope
  <2>1. PICK t : t = st.input.temperature
    OBVIOUS
  <2> DEFINE change == st.input.temperature - st.slope.old
             w == [st.slope EXCEPT !.slope = change, !.old = t, !.known = TRUE]
             slope == PerformSlopeVote(w)
  <2>2. st' = [st EXCEPT !.slope = slope]
    BY <1>2, <2>1 DEF CalculateSlope
  <2>3. change \in Int /\ t \in Int
    BY <2>1 DEF PanVotesInv, SlopeTyped
  <2> HIDE DEF change
  <2>4. w = [f \in SlopeFields |-> w[f]] /\ w.mode = st.slope.mode /\ w.slope = change /\ w.old = t /\ w.known = TRUE
    BY DEF PanVotesInv, SlopeTyped, SlopeFields
  <2> HIDE DEF w
  <2>5. SlopeTyped(w)
    BY <2>3, <2>4 DEF SlopeTyped
  <2>6. SlopeTyped(slope) /\ slope.mode = st.slope.mode /\ WarmupFollows(slope)
    BY <2>4, <2>5, PerformSlopeFacts
  <2> HIDE DEF slope
  <2>7. st' = [f \in PanFields |-> st'[f]] /\ st'.input = st.input /\ st'.votes = st.votes /\ st'.slope = slope
    BY <2>2 DEF PanVotesInv, PanFields
  <2> QED BY <2>6, <2>7 DEF PanVotesInv
<1> QED BY <1>1, <1>2

-----------------------------------------------------------------------------
(* The set point of the pan.                                               *)

SetpointFields == {"mode", "request", "shift", "asked", "status", "vote", "offset"}

SetpointTyped(s) ==
    /\ s = [f \in SetpointFields |-> s[f]]
    /\ s.mode \in MinAllowedMode .. MaxAllowedMode /\ s.shift = s.mode
    /\ s.asked = [i \in 1 .. PanModes |-> s.asked[i]]
    /\ s.status = [i \in 1 .. PanModes |-> s.status[i]]
    /\ \A i \in 1 .. PanModes : s.status[i] \in ModeRange[i].min .. ModeRange[i].max

SetpointInv(s) ==
    SetpointTyped(s) /\ s.vote = VoteOfTheUser(s) /\ s.offset = OffsetOfTheMode(s)

LEMMA RangesAreOrdered ==
    ASSUME NEW i \in 1 .. PanModes
    PROVE  /\ ModeRange[i].min \in Int /\ ModeRange[i].max \in Int /\ ModeRange[i].min <= ModeRange[i].max
           /\ ModeRange[i].default \in ModeRange[i].min .. ModeRange[i].max
           /\ ModeRange[i].max \in ModeRange[i].min .. ModeRange[i].max
<1>1. ModeRange[i] \in [min : Int, max : Int, default : Int]
  BY PanAndIceCabinetAssumption
<1>2. ModeRange[i].min \in Int /\ ModeRange[i].max \in Int /\ ModeRange[i].default \in Int
  BY <1>1
<1>3. ModeRange[i].default \in ModeRange[i].min .. ModeRange[i].max
  BY PanAndIceCabinetAssumption
<1> QED BY <1>2, <1>3

LEMMA SetpointStart == PanSetpointInit => SetpointInv(st)
<1> SUFFICES ASSUME PanSetpointInit PROVE SetpointInv(st)
  OBVIOUS
<1>1. PICK mode \in {NotControllable} \cup MinAllowedMode .. MaxAllowedMode, kept \in BOOLEAN :
        LET m == IF mode = NotControllable THEN DefaultMode ELSE mode
            s == [mode |-> m, request |-> NotControllable, shift |-> m,
                  asked |-> [i \in 1 .. PanModes |-> 0],
                  status |-> [i \in 1 .. PanModes |->
                                IF kept THEN ModeRange[i].max ELSE ModeRange[i].default]]
        IN  st = [mode |-> s.mode, request |-> s.request, shift |-> s.shift, asked |-> s.asked,
                  status |-> s.status, vote |-> VoteOfTheUser(s), offset |-> OffsetOfTheMode(s)]
  BY DEF PanSetpointInit
<1> DEFINE m == IF mode = NotControllable THEN DefaultMode ELSE mode
           asked == [i \in 1 .. PanModes |-> 0]
           status == [i \in 1 .. PanModes |-> IF kept THEN ModeRange[i].max ELSE ModeRange[i].default]
           s == [mode |-> m, request |-> NotControllable, shift |-> m, asked |-> asked, status |-> status]
           vote == VoteOfTheUser(s)
           offset == OffsetOfTheMode(s)
<1>2. st = [mode |-> s.mode, request |-> s.request, shift |-> s.shift, asked |-> s.asked,
            status |-> s.status, vote |-> vote, offset |-> offset]
  BY <1>1
<1>3. m \in MinAllowedMode .. MaxAllowedMode
  BY PanAndIceCabinetAssumption
<1>4. ASSUME NEW i \in 1 .. PanModes PROVE status[i] \in ModeRange[i].min .. ModeRange[i].max
  BY RangesAreOrdered
<1>5. asked = [i \in 1 .. PanModes |-> asked[i]] /\ status = [i \in 1 .. PanModes |-> status[i]]
  OBVIOUS
<1> HIDE DEF m, asked, status
<1>6. s.mode = m /\ s.request = NotControllable /\ s.shift = m /\ s.asked = asked /\ s.status = status
  OBVIOUS
<1> HIDE DEF s
<1>7. vote = VoteOfTheUser(s) /\ offset = OffsetOfTheMode(s)
  OBVIOUS
<1> HIDE DEF vote, offset
<1>8. /\ st = [f \in SetpointFields |-> st[f]] /\ st.mode = m /\ st.shift = m /\ st.asked = asked
      /\ st.status = status /\ st.vote = vote /\ st.offset = offset
  BY <1>2, <1>6 DEF SetpointFields
<1>9. SetpointTyped(st)
  BY ONLY <1>3, <1>4, <1>5, <1>8 DEF SetpointTyped
<1>10. st.vote = VoteOfTheUser(st) /\ st.offset = OffsetOfTheMode(st)
  BY <1>6, <1>7, <1>8 DEF VoteOfTheUser, OffsetOfTheMode
<1> QED BY <1>9, <1>10 DEF SetpointInv

LEMMA ModeStep == ASSUME SetpointInv(st), ModeIsRequested PROVE SetpointInv(st')
<1>0. st = [f \in SetpointFields |-> st[f]] /\ SetpointTyped(st)
  BY DEF SetpointInv, SetpointTyped
<1>1. PICK mode \in 0 .. PanModes + 1 :
        st' = IF mode \in MinAllowedMode .. MaxAllowedMode
                THEN [ModeStatusChanges(st, mode) EXCEPT !.request = NotControllable, !.shift = mode]
                ELSE [st EXCEPT !.request = mode]
  BY DEF ModeIsRequested
<1>2. CASE mode \notin MinAllowedMode .. MaxAllowedMode
  <2>1. st' = [st EXCEPT !.request = mode]
    BY <1>1, <1>2
  <2>2. /\ st' = [f \in SetpointFields |-> st'[f]] /\ st'.mode = st.mode /\ st'.shift = st.shift
        /\ st'.asked = st.asked /\ st'.status = st.status /\ st'.vote = st.vote /\ st'.offset = st.offset
    BY <1>0, <2>1 DEF SetpointFields
  <2>3. SetpointTyped(st')
    BY ONLY <1>0, <2>2 DEF SetpointTyped
  <2>4. st'.vote = VoteOfTheUser(st') /\ st'.offset = OffsetOfTheMode(st')
    BY <2>2 DEF SetpointInv, VoteOfTheUser, OffsetOfTheMode
  <2> QED BY <2>3, <2>4 DEF SetpointInv
<1>3. CASE mode \in MinAllowedMode .. MaxAllowedMode
  <2> DEFINE t == ModeStatusChanges(st, mode)
             none == NotControllable
  <2>1. st' = [t EXCEPT !.request = none, !.shift = mode]
    BY <1>1, <1>3
  <2>2. /\ t = [f \in SetpointFields |-> t[f]] /\ t.mode = mode /\ t.asked = st.asked /\ t.status = st.status
        /\ t.vote = VoteOfTheUser(t) /\ t.offset = OffsetOfTheMode(t)
    <3>1. CASE mode = st.mode
      <4>1. t = st
        BY <3>1 DEF ModeStatusChanges
      <4> HIDE DEF t
      <4> QED BY <1>0, <3>1, <4>1 DEF SetpointInv
    <3>2. CASE mode # st.mode
      <4> DEFINE u == [st EXCEPT !.mode = mode]
                 vote == VoteOfTheUser(u)
                 offset == OffsetOfTheMode(u)
      <4>1. t = [u EXCEPT !.vote = vote, !.offset = offset]
        BY <3>2 DEF ModeStatusChanges
      <4>2. u = [f \in SetpointFields |-> u[f]] /\ u.mode = mode /\ u.asked = st.asked /\ u.status = st.status
        BY <1>0 DEF SetpointFields
      <4>3. vote = VoteOfTheUser(u) /\ offset = OffsetOfTheMode(u)
        OBVIOUS
      <4> HIDE DEF t, u, vote, offset
      <4>4. /\ t = [f \in SetpointFields |-> t[f]] /\ t.mode = u.mode /\ t.asked = u.asked /\ t.status = u.status
            /\ t.vote = vote /\ t.offset = offset
        BY <4>1, <4>2 DEF SetpointFields
      <4>5. t.vote = VoteOfTheUser(t) /\ t.offset = OffsetOfTheMode(t)
        BY <4>3, <4>4 DEF VoteOfTheUser, OffsetOfTheMode
      <4> QED BY <4>2, <4>4, <4>5
    <3> QED BY <3>1, <3>2
  <2> HIDE DEF t, none
  <2>3. /\ st' = [f \in SetpointFields |-> st'[f]] /\ st'.mode = t.mode /\ st'.shift = mode
        /\ st'.asked = t.asked /\ st'.status = t.status /\ st'.vote = t.vote /\ st'.offset = t.offset
    BY <2>1, <2>2 DEF SetpointFields
  <2>4. SetpointTyped(st')
    BY ONLY <1>0, <1>3, <2>2, <2>3, ZenonT(120) DEF SetpointTyped
  <2>5. st'.vote = VoteOfTheUser(st') /\ st'.offset = OffsetOfTheMode(st')
    BY <2>2, <2>3, SMTT(60) DEF VoteOfTheUser, OffsetOfTheMode
  <2> QED BY <2>4, <2>5 DEF SetpointInv
<1> QED BY <1>2, <1>3

LEMMA RequestStep == ASSUME SetpointInv(st), SetpointIsRequested PROVE SetpointInv(st')
<1>0. st = [f \in SetpointFields |-> st[f]] /\ SetpointTyped(st)
  BY DEF SetpointInv, SetpointTyped
<1>1. PICK i \in 1 .. PanModes, t \in RequestedSetpoints :
        LET new == Clamp(t, ModeRange[i].min, ModeRange[i].max)
            s == [st EXCEPT !.asked[i] = t, !.status[i] = new]
        IN  st' = IF new # st.status[i] /\ i = Clamp(st.mode, 1, PanModes)
                    THEN [s EXCEPT !.vote = VoteOfTheUser(s)] ELSE s
  BY DEF SetpointIsRequested
<1> DEFINE new == Clamp(t, ModeRange[i].min, ModeRange[i].max)
           asked == [st.asked EXCEPT ![i] = t]
           status == [st.status EXCEPT ![i] = new]
           s == [st EXCEPT !.asked = asked, !.status = status]
           vote == VoteOfTheUser(s)
<1>2. st' = IF new # st.status[i] /\ i = Clamp(st.mode, 1, PanModes) THEN [s EXCEPT !.vote = vote] ELSE s
  BY <1>1
<1>3. new \in ModeRange[i].min .. ModeRange[i].max
  <2> DEFINE low == ModeRange[i].min
             high == ModeRange[i].max
  <2>1. low \in Int /\ high \in Int /\ low <= high
    BY RangesAreOrdered
  <2>2. t \in Int
    BY PanAndIceCabinetAssumption
  <2>3. new = Clamp(t, low, high)
    OBVIOUS
  <2> HIDE DEF low, high, new
  <2>4. new \in low .. high
    BY ONLY <2>1, <2>2, <2>3, ClampFacts
  <2> QED BY <2>4 DEF low, high
<1> HIDE DEF new
<1>4. /\ asked = [j \in 1 .. PanModes |-> asked[j]] /\ status = [j \in 1 .. PanModes |-> status[j]]
      /\ \A j \in 1 .. PanModes : status[j] = IF j = i THEN new ELSE st.status[j]
  BY <1>0 DEF SetpointTyped
<1> HIDE DEF asked, status
<1>5. /\ s = [f \in SetpointFields |-> s[f]] /\ s.mode = st.mode /\ s.shift = st.shift /\ s.asked = asked
      /\ s.status = status /\ s.vote = st.vote /\ s.offset = st.offset
  BY <1>0 DEF SetpointFields
<1>6. vote = VoteOfTheUser(s)
  OBVIOUS
<1> HIDE DEF s, vote
<1>7. SetpointTyped(s)
  BY <1>0, <1>3, <1>4, <1>5 DEF SetpointTyped
<1>8. s.offset = OffsetOfTheMode(s)
  BY <1>5 DEF SetpointInv, OffsetOfTheMode
<1>9. CASE new # st.status[i] /\ i = Clamp(st.mode, 1, PanModes)
  <2>1. st' = [s EXCEPT !.vote = vote]
    BY <1>2, <1>9
  <2>2. /\ st' = [f \in SetpointFields |-> st'[f]] /\ st'.mode = s.mode /\ st'.shift = s.shift
        /\ st'.asked = s.asked /\ st'.status = s.status /\ st'.vote = vote /\ st'.offset = s.offset
    BY <1>5, <2>1 DEF SetpointFields
  <2>3. SetpointTyped(st')
    BY ONLY <1>7, <2>2 DEF SetpointTyped
  <2>4. st'.vote = VoteOfTheUser(st') /\ st'.offset = OffsetOfTheMode(st')
    BY <1>6, <1>8, <2>2 DEF VoteOfTheUser, OffsetOfTheMode
  <2> QED BY <2>3, <2>4 DEF SetpointInv
<1>10. CASE ~(new # st.status[i] /\ i = Clamp(st.mode, 1, PanModes))
  <2>1. st' = s
    BY <1>2, <1>10, SMTT(60)
  <2>2. st.vote = VoteOfTheUser(st)
    BY DEF SetpointInv
  <2>3. s.mode \in 1 .. PanModes => s.status[s.mode] = st.status[s.mode]
    <3>1. CASE new = st.status[i]
      <4>1. \A k \in 1 .. PanModes : status[k] = st.status[k]
        BY <1>4, <3>1
      <4> QED BY <1>5, <4>1
    <3>2. CASE i # Clamp(st.mode, 1, PanModes)
      <4>1. st.mode \in 1 .. PanModes => Clamp(st.mode, 1, PanModes) = st.mode
        <5>1. PanModes \in Int /\ 1 <= PanModes
          BY PanAndIceCabinetAssumption
        <5> DEFINE k == st.mode
        <5>2. k \in Int
          BY <1>0, PanAndIceCabinetAssumption, SMTT(60) DEF SetpointTyped
        <5> HIDE DEF k
        <5>3. k \in 1 .. PanModes => Clamp(k, 1, PanModes) = k
          BY ONLY <5>1, <5>2, ClampFacts
        <5> QED BY <5>3 DEF k
      <4>2. \A k \in 1 .. PanModes : k # i => status[k] = st.status[k]
        BY <1>4
      <4> QED BY <1>5, <3>2, <4>1, <4>2
    <3> QED BY <1>10, <3>1, <3>2
  <2>4. s.vote = VoteOfTheUser(s)
    BY <1>5, <2>2, <2>3 DEF VoteOfTheUser
  <2> QED BY <1>7, <1>8, <2>1, <2>4 DEF SetpointInv
<1> QED BY <1>9, <1>10

-----------------------------------------------------------------------------
(* The fan of the ice cabinet.                                             *)

IceFanFields == {"above", "below", "startup", "timer", "grid", "previous", "resolved", "forming", "setpoint", "heater"}

IceFanTyped(s) ==
    /\ s = [f \in IceFanFields |-> s[f]]
    /\ s.above \in BOOLEAN /\ s.startup \in BOOLEAN /\ s.timer \in BOOLEAN /\ (s.startup <=> s.timer)

FanIsSettled(s) ==
    /\ s.resolved = ResolvedFanSpeed(s) /\ (s.previous = 0 <=> s.resolved = 0)

IceFanInv(s) == IceFanTyped(s) /\ FanIsSettled(s) /\ s.heater \in {-1, HeaterDutyCycle(s)}

\* The handler of the resolved vote writes the startup vote and so resolves again.
LEMMA ResolvedVoteFacts ==
    ASSUME NEW s, IceFanTyped(s), s.resolved = ResolvedFanSpeed(s)
    PROVE  LET t == IceCabinetFanResolvedVoteChanged(s)
           IN  /\ IceFanTyped(t) /\ FanIsSettled(t) /\ t.heater = s.heater
               /\ s.previous = 0 /\ s.resolved # 0 => t.resolved = StartupSpeed
<1> DEFINE on == TRUE
           started == [s EXCEPT !.startup = on, !.timer = on, !.previous = s.resolved]
           speed == ResolvedFanSpeed(started)
           t == IceCabinetFanResolvedVoteChanged(s)
<1>1. StartupSpeed # 0
  BY PanAndIceCabinetAssumption
<1>2. CASE s.previous = 0 /\ s.resolved # 0
  <2>1. t = [started EXCEPT !.resolved = speed]
    BY <1>2 DEF IceCabinetFanResolvedVoteChanged
  <2>2. on
    OBVIOUS
  <2> HIDE DEF on
  <2>3. /\ started = [f \in IceFanFields |-> started[f]] /\ started.above = s.above
        /\ started.startup = on /\ started.timer = on
        /\ started.previous = s.resolved /\ started.heater = s.heater
    BY DEF IceFanTyped, IceFanFields
  <2> HIDE DEF started
  <2>4. ~s.above
    BY <1>2 DEF ResolvedFanSpeed
  <2>5. speed = StartupSpeed
    BY <2>2, <2>3, <2>4 DEF ResolvedFanSpeed
  <2> HIDE DEF speed, t
  <2>6. /\ t = [f \in IceFanFields |-> t[f]] /\ t.above = s.above /\ t.startup = on /\ t.timer = on
        /\ t.previous = s.resolved /\ t.heater = s.heater /\ t.resolved = speed
    BY <2>1, <2>3 DEF IceFanFields
  <2>7. t.startup /\ t.timer /\ ~t.above
    BY <2>2, <2>4, <2>6
  <2>8. t.above \in BOOLEAN /\ t.startup \in BOOLEAN /\ t.timer \in BOOLEAN
    BY <2>2, <2>6 DEF IceFanTyped
  <2>9. IceFanTyped(t)
    BY ONLY <2>6, <2>7, <2>8 DEF IceFanTyped
  <2>10. ResolvedFanSpeed(t) = StartupSpeed
    BY <2>7 DEF ResolvedFanSpeed
  <2>11. FanIsSettled(t)
    BY <1>1, <1>2, <2>5, <2>6, <2>10 DEF FanIsSettled
  <2> QED BY <2>5, <2>6, <2>9, <2>11 DEF t
<1>3. CASE ~(s.previous = 0 /\ s.resolved # 0)
  <2>1. t = [s EXCEPT !.previous = s.resolved]
    BY <1>3 DEF IceCabinetFanResolvedVoteChanged
  <2> HIDE DEF t
  <2>2. /\ t = [f \in IceFanFields |-> t[f]] /\ t.above = s.above /\ t.below = s.below
        /\ t.startup = s.startup /\ t.timer = s.timer /\ t.grid = s.grid
        /\ t.previous = s.resolved /\ t.heater = s.heater /\ t.resolved = s.resolved
    BY <2>1 DEF IceFanTyped, IceFanFields
  <2>3. IceFanTyped(t)
    BY <2>2 DEF IceFanTyped
  <2>4. ResolvedFanSpeed(t) = ResolvedFanSpeed(s)
    BY <2>2 DEF ResolvedFanSpeed
  <2>5. FanIsSettled(t)
    BY <2>2, <2>4 DEF FanIsSettled
  <2> QED BY <1>3, <2>2, <2>3, <2>5 DEF t
<1> QED BY <1>2, <1>3

\* Two records that agree on what the resolver and the heater read.
LEMMA SameFanInputs ==
    ASSUME NEW s, NEW t, s.above = t.above, s.below = t.below, s.startup = t.startup, s.grid = t.grid
    PROVE  ResolvedFanSpeed(s) = ResolvedFanSpeed(t)
BY DEF ResolvedFanSpeed

LEMMA SameHeaterInputs ==
    ASSUME NEW s, NEW t, s.resolved = t.resolved, s.forming = t.forming, s.setpoint = t.setpoint
    PROVE  HeaterDutyCycle(s) = HeaterDutyCycle(t)
BY DEF HeaterDutyCycle

\* A vote has changed: what was resolved before it is still there.
LEMMA FanVotesFacts ==
    ASSUME NEW s, IceFanTyped(s), s.previous = 0 <=> s.resolved = 0, s.heater \in {-1, HeaterDutyCycle(s)}
    PROVE  LET t == FanVotesChange(s)
           IN  IceFanInv(t) /\ (s.resolved = 0 /\ t.resolved # 0 => t.resolved = StartupSpeed)
<1> DEFINE speed == ResolvedFanSpeed(s)
           resolved == [s EXCEPT !.resolved = speed]
           u == IceCabinetFanResolvedVoteChanged(resolved)
           duty == HeaterDutyCycle(u)
           t == FanVotesChange(s)
<1>1. t = IF resolved.resolved = s.resolved THEN s ELSE [u EXCEPT !.heater = duty]
  BY DEF FanVotesChange
<1>2. speed = ResolvedFanSpeed(s)
  OBVIOUS
<1> HIDE DEF speed
<1>3. /\ resolved = [f \in IceFanFields |-> resolved[f]] /\ resolved.above = s.above /\ resolved.below = s.below
      /\ resolved.startup = s.startup /\ resolved.timer = s.timer /\ resolved.grid = s.grid
      /\ resolved.previous = s.previous /\ resolved.resolved = speed
  BY DEF IceFanTyped, IceFanFields
<1> HIDE DEF resolved
<1>4. IceFanTyped(resolved)
  BY <1>3 DEF IceFanTyped
<1>5. resolved.resolved = ResolvedFanSpeed(resolved)
  BY <1>2, <1>3, SameFanInputs
<1>6. CASE speed = s.resolved
  <2>1. t = s
    BY <1>1, <1>3, <1>6
  <2> HIDE DEF t
  <2>2. IceFanInv(s)
    BY <1>2, <1>6 DEF IceFanInv, FanIsSettled
  <2> QED BY <2>1, <2>2 DEF t
<1>7. CASE speed # s.resolved
  <2>1. t = [u EXCEPT !.heater = duty]
    BY <1>1, <1>3, <1>7
  <2>2. /\ IceFanTyped(u) /\ FanIsSettled(u)
        /\ resolved.previous = 0 /\ resolved.resolved # 0 => u.resolved = StartupSpeed
    BY <1>4, <1>5, ResolvedVoteFacts
  <2>3. duty = HeaterDutyCycle(u)
    OBVIOUS
  <2>30. resolved.resolved = 0 => u.resolved = 0
    <3> SUFFICES ASSUME resolved.resolved = 0 PROVE u.resolved = 0
      OBVIOUS
    <3>1. u = [resolved EXCEPT !.previous = resolved.resolved]
      BY DEF IceCabinetFanResolvedVoteChanged
    <3> HIDE DEF u
    <3> QED BY <1>4, <3>1 DEF IceFanTyped, IceFanFields
  <2> HIDE DEF u, duty, t
  <2>4. /\ t = [f \in IceFanFields |-> t[f]] /\ t.above = u.above /\ t.below = u.below
        /\ t.startup = u.startup /\ t.timer = u.timer /\ t.grid = u.grid
        /\ t.previous = u.previous /\ t.resolved = u.resolved /\ t.heater = duty
        /\ t.forming = u.forming /\ t.setpoint = u.setpoint
    BY <2>1, <2>2 DEF IceFanTyped, IceFanFields
  <2>5. IceFanTyped(t)
    BY <2>2, <2>4 DEF IceFanTyped
  <2>6. FanIsSettled(t)
    BY <2>2, <2>4, SameFanInputs DEF FanIsSettled
  <2>7. t.heater = HeaterDutyCycle(t)
    BY <2>3, <2>4, SameHeaterInputs
  <2>8. IceFanInv(t)
    BY <2>5, <2>6, <2>7 DEF IceFanInv
  <2>9. s.resolved = 0 /\ t.resolved # 0 => t.resolved = StartupSpeed
    BY <1>3, <2>2, <2>30, <2>4
  <2> QED BY <2>8, <2>9 DEF t
<1> QED BY <1>6, <1>7

\* The record before the vote is resolved.
IceFanBefore(s) ==
    /\ IceFanTyped(s) /\ (s.previous = 0 <=> s.resolved = 0) /\ s.heater \in {-1, HeaterDutyCycle(s)}

LEMMA IceFanStart == IceCabinetFanInit => IceFanInv(st)
<1> SUFFICES ASSUME IceCabinetFanInit PROVE IceFanInv(st)
  OBVIOUS
<1>1. PICK no : no = FALSE
  OBVIOUS
<1>2. PICK still, none : still = 0 /\ none = {}
  OBVIOUS
<1>3. PICK vote : vote = -1
  OBVIOUS
<1>4. PICK grid, setpoint :
        st = IceCabinetFanResolvedVoteChanged(
               [above |-> no, below |-> none, startup |-> no, timer |-> no, grid |-> grid,
                previous |-> still, resolved |-> grid, forming |-> no, setpoint |-> setpoint,
                heater |-> vote])
  BY <1>1, <1>2, <1>3 DEF IceCabinetFanInit
<1> DEFINE s == [above |-> no, below |-> none, startup |-> no, timer |-> no, grid |-> grid,
                 previous |-> still, resolved |-> grid, forming |-> no, setpoint |-> setpoint,
                 heater |-> vote]
           t == IceCabinetFanResolvedVoteChanged(s)
<1>5. st = t
  BY <1>4
<1>6. /\ s = [f \in IceFanFields |-> s[f]] /\ s.above = no /\ s.below = none /\ s.startup = no /\ s.timer = no
      /\ s.grid = grid /\ s.resolved = grid /\ s.heater = vote
  BY DEF IceFanFields
<1> HIDE DEF s
<1>7. IceFanTyped(s)
  <2>1. s.above \in BOOLEAN /\ s.startup \in BOOLEAN /\ s.timer \in BOOLEAN /\ (s.startup <=> s.timer)
    BY <1>1, <1>6
  <2> QED BY ONLY <1>6, <2>1 DEF IceFanTyped
<1>8. s.resolved = ResolvedFanSpeed(s)
  BY <1>1, <1>2, <1>6 DEF ResolvedFanSpeed
<1>9. IceFanTyped(t) /\ FanIsSettled(t) /\ t.heater = vote
  BY <1>6, <1>7, <1>8, ResolvedVoteFacts
<1> HIDE DEF t
<1> QED BY <1>3, <1>5, <1>9 DEF IceFanInv

LEMMA IceFanStep ==
    ASSUME IceFanInv(st),
           IceCabinetGridVotes \/ FanIsForcedOff \/ OffVotesChange \/ StartupTimeExpires
    PROVE  /\ IceFanInv(st')
           /\ st.resolved = 0 /\ st'.resolved # 0 => st'.resolved = StartupSpeed
<1>0. /\ st = [f \in IceFanFields |-> st[f]] /\ IceFanTyped(st) /\ (st.previous = 0 <=> st.resolved = 0)
      /\ st.heater \in {-1, HeaterDutyCycle(st)}
  BY DEF IceFanInv, IceFanTyped, FanIsSettled
<1>1. ASSUME NEW s, IceFanBefore(s), s.resolved = st.resolved, st' = FanVotesChange(s)
      PROVE  /\ IceFanInv(st')
             /\ st.resolved = 0 /\ st'.resolved # 0 => st'.resolved = StartupSpeed
  <2>1. LET t == FanVotesChange(s)
        IN  IceFanInv(t) /\ (s.resolved = 0 /\ t.resolved # 0 => t.resolved = StartupSpeed)
    BY <1>1, FanVotesFacts DEF IceFanBefore
  <2> QED BY <1>1, <2>1
<1>2. CASE IceCabinetGridVotes
  <2>1. PICK v : st' = FanVotesChange([st EXCEPT !.grid = v])
    BY <1>2 DEF IceCabinetGridVotes
  <2> DEFINE s == [st EXCEPT !.grid = v]
  <2>2. /\ s = [f \in IceFanFields |-> s[f]] /\ s.above = st.above /\ s.startup = st.startup /\ s.timer = st.timer
        /\ s.previous = st.previous /\ s.resolved = st.resolved /\ s.heater = st.heater
        /\ s.forming = st.forming /\ s.setpoint = st.setpoint
    BY <1>0 DEF IceFanFields
  <2>3. st' = FanVotesChange(s)
    BY <2>1
  <2> HIDE DEF s
  <2>4. IceFanBefore(s)
    BY <1>0, <2>2, SameHeaterInputs DEF IceFanBefore, IceFanTyped
  <2> QED BY <1>1, <2>2, <2>3, <2>4
<1>3. CASE FanIsForcedOff
  <2> DEFINE above == ~st.above
             s == [st EXCEPT !.above = above]
  <2>1. st' = FanVotesChange(s)
    BY <1>3 DEF FanIsForcedOff
  <2>2. above \in BOOLEAN
    BY <1>0 DEF IceFanTyped
  <2> HIDE DEF above
  <2>3. /\ s = [f \in IceFanFields |-> s[f]] /\ s.above = above /\ s.startup = st.startup /\ s.timer = st.timer
        /\ s.previous = st.previous /\ s.resolved = st.resolved /\ s.heater = st.heater
        /\ s.forming = st.forming /\ s.setpoint = st.setpoint
    BY <1>0 DEF IceFanFields
  <2> HIDE DEF s
  <2>4. IceFanBefore(s)
    BY <1>0, <2>2, <2>3, SameHeaterInputs DEF IceFanBefore, IceFanTyped
  <2> QED BY <1>1, <2>1, <2>3, <2>4
<1>4. CASE OffVotesChange
  <2>1. PICK below : st' = FanVotesChange([st EXCEPT !.below = below])
    <3>1. PICK on \in BOOLEAN : st' \in {OnIceMakerStateChange(on), OnFreezerEvapResolvedVoteChange(on), DoorVotes(on)}
      BY <1>4 DEF OffVotesChange
    <3>2. CASE st' = OnIceMakerStateChange(on)
      BY <3>2 DEF OnIceMakerStateChange
    <3>3. CASE st' = OnFreezerEvapResolvedVoteChange(on)
      BY <3>3 DEF OnFreezerEvapResolvedVoteChange
    <3>4. CASE st' = DoorVotes(on)
      BY <3>4 DEF DoorVotes
    <3> QED BY <3>1, <3>2, <3>3, <3>4
  <2> DEFINE s == [st EXCEPT !.below = below]
  <2>2. /\ s = [f \in IceFanFields |-> s[f]] /\ s.above = st.above /\ s.startup = st.startup /\ s.timer = st.timer
        /\ s.previous = st.previous /\ s.resolved = st.resolved /\ s.heater = st.heater
        /\ s.forming = st.forming /\ s.setpoint = st.setpoint
    BY <1>0 DEF IceFanFields
  <2>3. st' = FanVotesChange(s)
    BY <2>1
  <2> HIDE DEF s
  <2>4. IceFanBefore(s)
    BY <1>0, <2>2, SameHeaterInputs DEF IceFanBefore, IceFanTyped
  <2> QED BY <1>1, <2>2, <2>3, <2>4
<1>5. CASE StartupTimeExpires
  <2>1. PICK no : no = FALSE
    OBVIOUS
  <2> DEFINE s == [st EXCEPT !.timer = no, !.startup = no]
  <2>2. st' = FanVotesChange(s)
    BY <1>5, <2>1 DEF StartupTimeExpires
  <2>3. /\ s = [f \in IceFanFields |-> s[f]] /\ s.above = st.above /\ s.startup = no /\ s.timer = no
        /\ s.previous = st.previous /\ s.resolved = st.resolved /\ s.heater = st.heater
        /\ s.forming = st.forming /\ s.setpoint = st.setpoint
    BY <1>0 DEF IceFanFields
  <2> HIDE DEF s
  <2>4. IceFanTyped(s)
    <3>1. s.above \in BOOLEAN /\ s.startup \in BOOLEAN /\ s.timer \in BOOLEAN /\ (s.startup <=> s.timer)
      BY <1>0, <2>1, <2>3 DEF IceFanTyped
    <3> QED BY ONLY <2>3, <3>1 DEF IceFanTyped
  <2>5. IceFanBefore(s)
    BY <1>0, <2>3, <2>4, SameHeaterInputs DEF IceFanBefore
  <2> QED BY <1>1, <2>2, <2>3, <2>5
<1> QED BY <1>2, <1>3, <1>4, <1>5

LEMMA HeaterStep ==
    ASSUME IceFanInv(st), HeaterInputChanges
    PROVE  IceFanInv(st') /\ st'.resolved = st.resolved
<1>0. st = [f \in IceFanFields |-> st[f]] /\ IceFanTyped(st) /\ FanIsSettled(st)
  BY DEF IceFanInv, IceFanTyped
<1>1. PICK s \in {[st EXCEPT !.forming = ~st.forming]} \cup {[st EXCEPT !.setpoint = v] : v \in FreezerSetpoints \ {st.setpoint}} :
        st' = [s EXCEPT !.heater = HeaterDutyCycle(s)]
  BY DEF HeaterInputChanges
<1>2. /\ s = [f \in IceFanFields |-> s[f]] /\ s.above = st.above /\ s.below = st.below
      /\ s.startup = st.startup /\ s.timer = st.timer /\ s.grid = st.grid
      /\ s.previous = st.previous /\ s.resolved = st.resolved
  <2>1. CASE s = [st EXCEPT !.forming = ~st.forming]
    <3> DEFINE forming == ~st.forming
    <3>1. s = [st EXCEPT !.forming = forming]
      BY <2>1
    <3> HIDE DEF forming
    <3> QED BY <1>0, <3>1 DEF IceFanFields
  <2>2. CASE s \in {[st EXCEPT !.setpoint = v] : v \in FreezerSetpoints \ {st.setpoint}}
    <3>1. PICK v : s = [st EXCEPT !.setpoint = v]
      BY <2>2
    <3> QED BY <1>0, <3>1 DEF IceFanFields
  <2> QED BY <1>1, <2>1, <2>2
<1> DEFINE duty == HeaterDutyCycle(s)
<1>3. st' = [s EXCEPT !.heater = duty]
  BY <1>1
<1>4. duty = HeaterDutyCycle(s)
  OBVIOUS
<1> HIDE DEF duty
<1>5. /\ st' = [f \in IceFanFields |-> st'[f]] /\ st'.above = s.above /\ st'.below = s.below
      /\ st'.startup = s.startup /\ st'.timer = s.timer /\ st'.grid = s.grid
      /\ st'.previous = s.previous /\ st'.resolved = s.resolved
      /\ st'.forming = s.forming /\ st'.setpoint = s.setpoint /\ st'.heater = duty
  BY <1>2, <1>3 DEF IceFanFields
<1>6. IceFanTyped(st')
  BY <1>0, <1>2, <1>5 DEF IceFanTyped
<1>7. ResolvedFanSpeed(st') = ResolvedFanSpeed(st)
  BY <1>2, <1>5, SameFanInputs
<1>8. FanIsSettled(st')
  BY <1>0, <1>2, <1>5, <1>7 DEF FanIsSettled
<1>9. st'.heater = HeaterDutyCycle(st')
  BY <1>4, <1>5, SameHeaterInputs
<1> QED BY <1>2, <1>5, <1>6, <1>8, <1>9 DEF IceFanInv


-----------------------------------------------------------------------------
(* The ice cabinet.                                                        *)

CabinetInputFields == {"setpoint", "forced", "grid", "freezer", "cabinet", "cabinetSetpoint"}
CabinetFields == {"input", "forcedVote", "gamma"}

CabinetInputTyped(s) ==
    /\ s = [f \in CabinetInputFields |-> s[f]]
    /\ s.setpoint \in Int /\ s.cabinetSetpoint \in Int /\ s.freezer \in Int /\ s.cabinet \in Int

CabinetInv(s) ==
    /\ s = [f \in CabinetFields |-> s[f]] /\ CabinetInputTyped(s.input)
    /\ s.forcedVote = ForcedCoolingVote(s.input) /\ s.gamma = Gamma(s.input)

\* A set of naturals has a least element, and Min is a member of the set.
LEMMA LeastIsAMember == ASSUME NEW S, S \subseteq Nat, S # {} PROVE Min(S) \in S
<1> DEFINE R == OpToRel(<, Nat)
<1>1. R = {ss \in Nat \X Nat : ss[1] < ss[2]}
  BY DEF OpToRel
<1>2. IsWellFoundedOn(R, Nat)
  BY NatLessThanWellFounded
<1> HIDE DEF R
<1>3. PICK x \in S : \A y \in S : ~ (<<y, x>> \in R)
  BY <1>2, WFMin
<1>4. ASSUME NEW y \in S PROVE x <= y
  <2>1. ~ (<<y, x>> \in R)
    BY <1>3
  <2>2. <<y, x>> \in Nat \X Nat
    OBVIOUS
  <2>3. ~ (y < x)
    BY <1>1, <2>1, <2>2
  <2> QED BY <2>3
<1> QED BY <1>3, <1>4 DEF Min

LEMMA MappedSetpointType == ASSUME NEW t \in Int PROVE MappedSetpoint(t) \in Int
<1> DEFINE reached == {j \in 1 .. Len(SetpointTable) : t <= SetpointTable[j][1]}
           i == IF reached = {} THEN Len(SetpointTable) ELSE Min(reached)
<1>1. SetpointTable \in Seq(Int \X Int) /\ SetpointTable # << >>
  BY PanAndIceCabinetAssumption
<1>2. Len(SetpointTable) \in 1 .. Len(SetpointTable)
  BY <1>1
<1>3. \A j \in 1 .. Len(SetpointTable) : SetpointTable[j] \in Int \X Int
  BY <1>1
<1>4. reached \subseteq 1 .. Len(SetpointTable) /\ reached \subseteq Nat
  OBVIOUS
<1>5. MappedSetpoint(t) = SetpointTable[i][2]
  BY DEF MappedSetpoint
<1> HIDE DEF reached
<1>6. i \in 1 .. Len(SetpointTable)
  <2>1. CASE reached = {}
    BY <1>2, <2>1
  <2>2. CASE reached # {}
    BY <1>4, <2>2, LeastIsAMember
  <2> QED BY <2>1, <2>2
<1> HIDE DEF i
<1>7. SetpointTable[i] \in Int \X Int
  BY <1>3, <1>6
<1> QED BY <1>5, <1>7

LEMMA RatioIsAPercentage ==
    ASSUME NEW t \in Int, NEW setpoint \in Int, NEW lines \in Int \X Int, lines[1] < lines[2]
    PROVE  HysteresisRatio(t, setpoint, lines) \in 0 .. 100
<1> DEFINE n == 100 * (t - (setpoint + lines[1]))
           d == lines[2] - lines[1]
           q == n \div d
<1>1. lines[1] \in Int /\ lines[2] \in Int
  OBVIOUS
<1>2. n \in Int
  BY <1>1
<1>3. d \in Int /\ d > 0
  BY <1>1
<1>4. HysteresisRatio(t, setpoint, lines) = Clamp(q, 0, 100)
  BY DEF HysteresisRatio
<1> HIDE DEF n, d
<1>5. q \in Int
  BY <1>2, <1>3
<1> HIDE DEF q
<1>6. Clamp(q, 0, 100) \in 0 .. 100
  <2> DEFINE low == 0
             high == 100
  <2>1. low \in Int /\ high \in Int /\ low <= high
    OBVIOUS
  <2> HIDE DEF low, high
  <2>2. Clamp(q, low, high) \in low .. high
    BY ONLY <1>5, <2>1, ClampFacts
  <2> QED BY <2>2 DEF low, high
<1> QED BY <1>4, <1>6

LEMMA GammaIsAPercentage == ASSUME NEW s, CabinetInputTyped(s) PROVE Gamma(s) \in 0 .. 100
<1> DEFINE freezer == HysteresisRatio(s.freezer, s.setpoint, FreezerHysteresis)
           cabinet == HysteresisRatio(s.cabinet, s.cabinetSetpoint, CabinetHysteresis)
<1>1. freezer \in 0 .. 100
  BY RatioIsAPercentage, PanAndIceCabinetAssumption DEF CabinetInputTyped
<1>2. cabinet \in 0 .. 100
  BY RatioIsAPercentage, PanAndIceCabinetAssumption DEF CabinetInputTyped
<1>3. Gamma(s) = (100 - (freezer - cabinet)) \div 2
  BY DEF Gamma
<1> HIDE DEF freezer, cabinet
<1> QED BY <1>1, <1>2, <1>3

LEMMA IceCabinetStart == IceCabinetInit => CabinetInv(st)
<1> SUFFICES ASSUME IceCabinetInit PROVE CabinetInv(st)
  OBVIOUS
<1>1. PICK no, still : no = FALSE /\ still = 0
  OBVIOUS
<1>2. PICK setpoint \in FreezerSetpoints, t \in GammaTemperatures :
        LET s == [setpoint |-> setpoint, cabinetSetpoint |-> MappedSetpoint(setpoint),
                  forced |-> no, grid |-> still, freezer |-> t, cabinet |-> t]
        IN  st = [input |-> s, forcedVote |-> ForcedCoolingVote(s), gamma |-> Gamma(s)]
  BY <1>1 DEF IceCabinetInit
<1> DEFINE mapped == MappedSetpoint(setpoint)
           s == [setpoint |-> setpoint, cabinetSetpoint |-> mapped,
                 forced |-> no, grid |-> still, freezer |-> t, cabinet |-> t]
           vote == ForcedCoolingVote(s)
           gamma == Gamma(s)
<1>3. st = [input |-> s, forcedVote |-> vote, gamma |-> gamma]
  BY <1>2
<1>4. setpoint \in Int /\ t \in Int
  BY PanAndIceCabinetAssumption
<1>5. mapped \in Int
  BY <1>4, MappedSetpointType
<1> HIDE DEF mapped
<1>6. /\ s = [f \in CabinetInputFields |-> s[f]] /\ s.setpoint = setpoint /\ s.cabinetSetpoint = mapped
      /\ s.freezer = t /\ s.cabinet = t
  BY DEF CabinetInputFields
<1>7. vote = ForcedCoolingVote(s) /\ gamma = Gamma(s)
  OBVIOUS
<1> HIDE DEF s, vote, gamma
<1>8. CabinetInputTyped(s)
  BY <1>4, <1>5, <1>6 DEF CabinetInputTyped
<1>9. st = [f \in CabinetFields |-> st[f]] /\ st.input = s /\ st.forcedVote = vote /\ st.gamma = gamma
  BY <1>3 DEF CabinetFields
<1> QED BY <1>7, <1>8, <1>9 DEF CabinetInv

LEMMA IceCabinetStep == ASSUME CabinetInv(st), CabinetInputChanges PROVE CabinetInv(st')
<1>0. DOMAIN CabinetInputs = CabinetInputFields \ {"cabinetSetpoint"}
  BY DEF CabinetInputs, CabinetInputFields
<1>100. PICK input \in CabinetInputFields \ {"cabinetSetpoint"} : \E value \in CabinetInputs[input] :
        LET new == [st.input EXCEPT ![input] = value,
                      !.cabinetSetpoint = IF input = "setpoint" THEN MappedSetpoint(value) ELSE @]
        IN  st' = [st EXCEPT !.input = new,
                     !.forcedVote = IF input \in {"forced", "grid"} THEN ForcedCoolingVote(new) ELSE @,
                     !.gamma = IF input \in {"setpoint", "freezer", "cabinet"} THEN Gamma(new) ELSE @]
  BY <1>0 DEF CabinetInputChanges
<1>1. PICK value \in CabinetInputs[input] :
        LET new == [st.input EXCEPT ![input] = value,
                      !.cabinetSetpoint = IF input = "setpoint" THEN MappedSetpoint(value) ELSE @]
        IN  st' = [st EXCEPT !.input = new,
                     !.forcedVote = IF input \in {"forced", "grid"} THEN ForcedCoolingVote(new) ELSE @,
                     !.gamma = IF input \in {"setpoint", "freezer", "cabinet"} THEN Gamma(new) ELSE @]
  BY <1>100
<1> DEFINE old == st.input
           mapped == IF input = "setpoint" THEN MappedSetpoint(value) ELSE old.cabinetSetpoint
           new == [old EXCEPT ![input] = value, !.cabinetSetpoint = mapped]
           vote == IF input \in {"forced", "grid"} THEN ForcedCoolingVote(new) ELSE st.forcedVote
           gamma == IF input \in {"setpoint", "freezer", "cabinet"} THEN Gamma(new) ELSE st.gamma
<1>2. /\ st = [f \in CabinetFields |-> st[f]] /\ CabinetInputTyped(old)
      /\ old = [f \in CabinetInputFields |-> old[f]]
      /\ old.setpoint \in Int /\ old.cabinetSetpoint \in Int /\ old.freezer \in Int /\ old.cabinet \in Int
      /\ st.forcedVote = ForcedCoolingVote(old) /\ st.gamma = Gamma(old)
  BY DEF CabinetInv, CabinetInputTyped
<1>3. "cabinetSetpoint" \in CabinetInputFields
  BY DEF CabinetInputFields
<1>4. new = [f \in CabinetInputFields |->
               IF f = "cabinetSetpoint" THEN mapped ELSE IF f = input THEN value ELSE old[f]]
  <2> HIDE DEF mapped, old
  <2> QED BY <1>2, <1>3
<1>5. input \in {"setpoint", "freezer", "cabinet"} => value \in Int
  BY PanAndIceCabinetAssumption, SMTT(60) DEF CabinetInputs
<1>6. mapped \in Int
  BY <1>2, <1>5, MappedSetpointType
<1>7. st' = [st EXCEPT !.input = new, !.forcedVote = vote, !.gamma = gamma]
  BY <1>1
<1>8. input # "setpoint" => mapped = old.cabinetSetpoint
  OBVIOUS
<1> HIDE DEF mapped
<1>9. /\ new = [f \in CabinetInputFields |-> new[f]] /\ new.cabinetSetpoint = mapped
      /\ \A f \in CabinetInputFields : f # "cabinetSetpoint" => new[f] = IF f = input THEN value ELSE old[f]
  BY <1>3, <1>4
<1> HIDE DEF new
<1>10. /\ new.setpoint = IF "setpoint" = input THEN value ELSE old.setpoint
       /\ new.freezer = IF "freezer" = input THEN value ELSE old.freezer
       /\ new.cabinet = IF "cabinet" = input THEN value ELSE old.cabinet
       /\ new.forced = IF "forced" = input THEN value ELSE old.forced
       /\ new.grid = IF "grid" = input THEN value ELSE old.grid
  BY <1>9 DEF CabinetInputFields
<1>11. CabinetInputTyped(new)
  <2>1. new.setpoint \in Int /\ new.freezer \in Int /\ new.cabinet \in Int
    BY <1>2, <1>5, <1>10
  <2> QED BY <1>6, <1>9, <2>1 DEF CabinetInputTyped
<1>12. vote = ForcedCoolingVote(new)
  <2>1. CASE input \in {"forced", "grid"}
    BY <2>1
  <2>2. CASE input \notin {"forced", "grid"}
    <3>1. new.forced = old.forced /\ new.grid = old.grid
      BY <1>10, <2>2
    <3> QED BY <1>2, <2>2, <3>1 DEF ForcedCoolingVote
  <2> QED BY <2>1, <2>2
<1>13. gamma = Gamma(new)
  <2>1. CASE input \in {"setpoint", "freezer", "cabinet"}
    BY <2>1
  <2>2. CASE input \notin {"setpoint", "freezer", "cabinet"}
    <3>1. /\ new.setpoint = old.setpoint /\ new.freezer = old.freezer /\ new.cabinet = old.cabinet
          /\ new.cabinetSetpoint = old.cabinetSetpoint
      BY <1>8, <1>9, <1>10, <2>2
    <3> QED BY <1>2, <2>2, <3>1 DEF Gamma
  <2> QED BY <2>1, <2>2
<1> HIDE DEF vote, gamma
<1>14. st' = [f \in CabinetFields |-> st'[f]] /\ st'.input = new /\ st'.forcedVote = vote /\ st'.gamma = gamma
  BY <1>2, <1>7 DEF CabinetFields
<1> QED BY <1>11, <1>12, <1>13, <1>14 DEF CabinetInv

-----------------------------------------------------------------------------
(* All of them.                                                            *)

PanInv ==
    /\ unit = "pan votes" => PanVotesInv(st)
    /\ unit = "pan set point" => SetpointInv(st)
    /\ unit = "ice cabinet fan" => IceFanInv(st)
    /\ unit = "ice cabinet" => CabinetInv(st)

LEMMA PanInvHoldsInitially == PanAndIceCabinetInit => PanInv
<1> SUFFICES ASSUME PanAndIceCabinetInit PROVE PanInv
  OBVIOUS
<1>1. CASE PanVotesInit
  BY <1>1, PanVotesStart DEF PanVotesInit, PanInv
<1>2. CASE PanSetpointInit
  BY <1>2, SetpointStart, ZenonT(120) DEF PanSetpointInit, PanInv
<1>3. CASE IceCabinetFanInit
  BY <1>3, IceFanStart DEF IceCabinetFanInit, PanInv
<1>4. CASE IceCabinetInit
  BY <1>4, IceCabinetStart DEF IceCabinetInit, PanInv
<1> QED BY <1>1, <1>2, <1>3, <1>4 DEF PanAndIceCabinetInit

LEMMA PanInvIsKept ==
    PanInv /\ [PanAndIceCabinetNext]_unitVars
      => PanInv' /\ (unit = "ice cabinet fan" /\ st.resolved = 0 /\ st'.resolved # 0 => st'.resolved = StartupSpeed)
<1> SUFFICES ASSUME PanInv, [PanAndIceCabinetNext]_unitVars
    PROVE  PanInv' /\ (unit = "ice cabinet fan" /\ st.resolved = 0 /\ st'.resolved # 0 => st'.resolved = StartupSpeed)
  BY ZenonT(120)
<1>1. CASE PanInputChanges \/ CalculateSlope
  <2>1. unit = "pan votes" /\ unit' = unit
    BY <1>1, ZenonT(120) DEF PanInputChanges, CalculateSlope, Runs
  <2>2. PanVotesInv(st')
    BY <1>1, <2>1, PanVotesStep, ZenonT(120) DEF PanInv
  <2> QED BY <2>1, <2>2, ZenonT(120) DEF PanInv
<1>2. CASE ModeIsRequested \/ SetpointIsRequested
  <2>1. unit = "pan set point" /\ unit' = unit
    BY <1>2, ZenonT(120) DEF ModeIsRequested, SetpointIsRequested, Runs
  <2>2. SetpointInv(st')
    BY <1>2, <2>1, ModeStep, RequestStep DEF PanInv
  <2> QED BY <2>1, <2>2, ZenonT(120) DEF PanInv
<1>3. CASE IceCabinetGridVotes \/ FanIsForcedOff \/ OffVotesChange \/ StartupTimeExpires
  <2>1. unit = "ice cabinet fan" /\ unit' = unit
    BY <1>3 DEF IceCabinetGridVotes, FanIsForcedOff, OffVotesChange, StartupTimeExpires, Runs
  <2>2. IceFanInv(st') /\ (st.resolved = 0 /\ st'.resolved # 0 => st'.resolved = StartupSpeed)
    BY <1>3, <2>1, IceFanStep DEF PanInv
  <2> QED BY <2>1, <2>2 DEF PanInv
<1>4. CASE HeaterInputChanges
  <2>1. unit = "ice cabinet fan" /\ unit' = unit
    BY <1>4, ZenonT(120) DEF HeaterInputChanges, Runs
  <2>2. IceFanInv(st') /\ st'.resolved = st.resolved
    BY <1>4, <2>1, HeaterStep DEF PanInv
  <2> QED BY <2>1, <2>2 DEF PanInv
<1>5. CASE CabinetInputChanges
  <2>1. unit = "ice cabinet" /\ unit' = unit
    BY <1>5, ZenonT(120) DEF CabinetInputChanges, Runs
  <2>2. CabinetInv(st')
    BY <1>5, <2>1, IceCabinetStep, ZenonT(120) DEF PanInv
  <2> QED BY <2>1, <2>2 DEF PanInv
<1>6. CASE UNCHANGED unitVars
  BY <1>6 DEF unitVars, PanInv
<1> QED BY <1>1, <1>2, <1>3, <1>4, <1>5, <1>6, ZenonT(120) DEF PanAndIceCabinetNext

LEMMA PanInvSuffices == PanInv => PanAndFanFollowTheirVotes
<1> SUFFICES ASSUME PanInv PROVE PanAndFanFollowTheirVotes
  OBVIOUS
<1>1. PanVotesAreFresh
  BY ZenonT(120) DEF PanInv, PanVotesInv, WarmupFollows, PanVotesAreFresh
<1>2. PanSetpointFollowsTheMode
  <2> SUFFICES ASSUME unit = "pan set point" PROVE PanSetpointFollowsTheMode
    BY DEF PanSetpointFollowsTheMode
  <2>1. SetpointTyped(st) /\ st.vote = VoteOfTheUser(st) /\ st.offset = OffsetOfTheMode(st)
    BY DEF PanInv, SetpointInv
  <2>2. st.vote.care => st.vote.temperature \in ModeRange[st.mode].min .. ModeRange[st.mode].max
    <3>1. CASE st.mode \in 1 .. PanModes
      <4>1. VoteOfTheUser(st).temperature = st.status[st.mode]
        BY <3>1 DEF VoteOfTheUser
      <4>2. st.status[st.mode] \in ModeRange[st.mode].min .. ModeRange[st.mode].max
        BY <2>1, <3>1 DEF SetpointTyped
      <4> QED BY <2>1, <4>1, <4>2
    <3>2. CASE st.mode \notin 1 .. PanModes
      <4>1. VoteOfTheUser(st).care = FALSE
        BY <3>2 DEF VoteOfTheUser
      <4> QED BY <2>1, <4>1
    <3> QED BY <3>1, <3>2
  <2> QED BY <2>1, <2>2 DEF SetpointTyped, PanSetpointFollowsTheMode
<1>3. StartupVoteIsTimed
  <2>1. unit = "ice cabinet fan" => StartupVoteIsTimed
    BY DEF PanInv, IceFanInv, IceFanTyped, FanIsSettled, StartupVoteIsTimed
  <2>2. unit = "ice cabinet" => StartupVoteIsTimed
    BY GammaIsAPercentage, ZenonT(120) DEF PanInv, CabinetInv, StartupVoteIsTimed
  <2> QED BY <2>1, <2>2 DEF StartupVoteIsTimed
<1> QED BY <1>1, <1>2, <1>3 DEF PanAndFanFollowTheirVotes

PanAndIceCabinetSpec == PanAndIceCabinetInit /\ [][PanAndIceCabinetNext]_unitVars

\* The voters of FeaturePan/, FeaturePanModeRequestHandler.c and
\* FeaturePanModeSetpointResolver.c, IceCabinetFanStartupSpeedVoting.c,
\* IceCabinetHeaterControl.c and IceCabinetGammaCalculator.c: votes, set points
\* and duty cycles are those of the readings, modes and speeds of the moment;
\* for every table, range and limit.
THEOREM PanAndFanStayCurrent == PanAndIceCabinetSpec => []PanAndFanFollowTheirVotes
<1>1. PanAndIceCabinetInit => PanInv
  BY PanInvHoldsInitially
<1>2. PanInv /\ [PanAndIceCabinetNext]_unitVars => PanInv'
  BY PanInvIsKept
<1>3. PanInv => PanAndFanFollowTheirVotes
  BY PanInvSuffices
<1> QED BY <1>1, <1>2, <1>3, PTL DEF PanAndIceCabinetSpec

\* IceCabinetFanStartupSpeedVoting.c: the fan leaves standstill at its startup
\* speed only, although the startup vote is written by a subscriber of the
\* resolution that it takes part in.
THEOREM CabinetFanStartsSlowly == PanAndIceCabinetSpec => FanStartsAtStartupSpeed
<1> DEFINE Slowly ==
      unit = "ice cabinet fan" /\ st.resolved = 0 /\ st'.resolved # 0 => st'.resolved = StartupSpeed
<1>1. PanAndIceCabinetInit => PanInv
  BY PanInvHoldsInitially
<1>2. PanInv /\ [PanAndIceCabinetNext]_unitVars => PanInv' /\ [Slowly]_unitVars
  BY PanInvIsKept
<1> QED BY <1>1, <1>2, PTL DEF PanAndIceCabinetSpec, FanStartsAtStartupSpeed

(***************************************************************************)
(* BoardDrivers: what an interrupt leaves behind is what the main loop     *)
(* finds, in whatever order they come: for every size of a transfer, of    *)
(* the ring and of its numbers, every modulus of the counter and all the   *)
(* debounce counts.                                                        *)
(***************************************************************************)

(* An input: a change that is not published yet is marked.                 *)
GpioFields ==
    {"pin", "count", "debounced", "dirty", "published", "publishing", "overtaken"}

GpioInv(s) ==
    /\ DOMAIN s = GpioFields
    /\ s.debounced \in BOOLEAN /\ s.published \in BOOLEAN
    /\ s.dirty \/ s.overtaken \/ s.published = s.debounced
    /\ s.publishing => s.overtaken \/ s.published = s.debounced

LEMMA GpioStep ==
    ASSUME GpioInv(st),
           PinChanges \/ DebounceCallback \/ DataSource_Gpio_Run \/ DataSource_Gpio_RunEnds
    PROVE  GpioInv(st')
<1>1. CASE PinChanges
  BY <1>1, SMTT(60) DEF PinChanges, GpioInv, GpioFields
<1>2. CASE DebounceCallback
  <2> DEFINE count == st.count + 1
             changed == /\ st.pin # st.debounced
                        /\ count >= IF st.debounced THEN OnToOffCount ELSE OffToOnCount
             c == IF changed THEN 0 ELSE count
             b == IF changed THEN ~st.debounced ELSE st.debounced
             d == st.dirty \/ changed
             o == st.overtaken \/ (changed /\ st.publishing)
             t == [st EXCEPT !.count = c, !.debounced = b, !.dirty = d, !.overtaken = o]
  <2>1. CASE st.pin = st.debounced
    <3>1. st' = [st EXCEPT !.count = 0]
      BY <1>2, <2>1 DEF DebounceCallback, Asymmetrical_Debouncer_bool_Process
    <3> QED BY <3>1, SMTT(60) DEF GpioInv, GpioFields
  <2>2. CASE st.pin # st.debounced
    <3>1. st' = t
      BY <1>2, <2>2 DEF DebounceCallback, Asymmetrical_Debouncer_bool_Process
    <3>2. b = st.debounced \/ (d /\ (st.publishing => o))
      OBVIOUS
    <3>3. b \in BOOLEAN /\ (st.dirty => d) /\ (st.overtaken => o)
      BY DEF GpioInv
    <3> HIDE DEF c, b, d, o
    <3>4. /\ DOMAIN st' = GpioFields /\ st'.debounced = b /\ st'.dirty = d /\ st'.overtaken = o
          /\ st'.published = st.published /\ st'.publishing = st.publishing
      BY <3>1, SMTT(60) DEF GpioInv, GpioFields
    <3> QED BY <3>2, <3>3, <3>4, ZenonT(120) DEF GpioInv
  <2> QED BY <2>1, <2>2
<1>3. CASE DataSource_Gpio_Run
  BY <1>3, SMTT(60) DEF DataSource_Gpio_Run, GpioInv, GpioFields
<1>4. CASE DataSource_Gpio_RunEnds
  BY <1>4, SMTT(60) DEF DataSource_Gpio_RunEnds, GpioInv, GpioFields
<1> QED BY <1>1, <1>2, <1>3, <1>4

(* A tachometer: the count that is kept is the interval of the last edges, *)
(* and the silent polls are counted once the last count has been fed.      *)

LEMMA IntDivision ==
    ASSUME NEW a \in Int, NEW p \in Nat \ {0}
    PROVE  /\ a \div p \in Int /\ a % p \in 0 .. p - 1
           /\ a = p * (a \div p) + (a % p)
BY Z3

LEMMA ProductOfStep ==
    ASSUME NEW p \in Nat \ {0}, NEW q \in Int, NEW r \in Int
    PROVE  /\ p * q \in Int
           /\ q < r => p * q + p <= p * r
           /\ p * (q + 1) = p * q + p /\ p * (q - 1) = p * q - p
           /\ p * (q - r) = p * q - p * r /\ p * (q + r) = p * q + p * r
BY Z3

LEMMA OneRemainder ==
    ASSUME NEW a \in Int, NEW p \in Nat \ {0}, NEW q \in Int, NEW x \in 0 .. p - 1,
           a = p * q + x
    PROVE  a % p = x
<1> DEFINE r == a \div p
           y == a % p
<1>1. r \in Int /\ y \in 0 .. p - 1 /\ a = p * r + y
  BY IntDivision, SMTT(60)
<1> HIDE DEF r, y
<1>2. p * q \in Int /\ p * r \in Int
  BY <1>1, ProductOfStep
<1>3. ~(q < r) /\ ~(r < q)
  BY <1>1, <1>2, ProductOfStep
<1>4. q = r
  BY <1>1, <1>3
<1> QED BY <1>1, <1>2, <1>4 DEF y

\* What comes d after c is d away from it, also around the end of the counter.
LEMMA AroundTheCounter ==
    ASSUME NEW c \in Int, NEW d \in Int, NEW p \in Nat \ {0}
    PROVE  (((c + d) % p) - c) % p = d % p
<1> DEFINE k == (c + d) \div p
           x == (c + d) % p
           l == d \div p
           y == d % p
<1>1. k \in Int /\ x \in 0 .. p - 1 /\ c + d = p * k + x
  BY IntDivision, SMTT(60)
<1>2. l \in Int /\ y \in 0 .. p - 1 /\ d = p * l + y
  BY IntDivision, SMTT(60)
<1> HIDE DEF k, x, l, y
<1>3. /\ p * k \in Int /\ p * l \in Int /\ l - k \in Int
      /\ p * (l - k) = p * l - p * k
  BY <1>1, <1>2, ProductOfStep
<1>4. x - c = p * (l - k) + y /\ x - c \in Int
  BY <1>1, <1>2, <1>3
<1>5. (x - c) % p = y
  BY <1>2, <1>3, <1>4, OneRemainder
<1> QED BY <1>5 DEF x, y

CaptureFields ==
    {"counter", "previous", "firstCaptureCompleted", "dataReady", "feedbackCounts", "real",
     "polls", "filter", "fedReal", "polling", "silent"}

CaptureInv(s) ==
    /\ DOMAIN s = CaptureFields
    /\ s.counter \in Int /\ s.previous \in Int /\ s.polls \in Nat /\ s.silent \in Nat
    /\ s.firstCaptureCompleted => s.previous = s.counter
    /\ s.feedbackCounts = s.real % CounterModulus
    /\ s.filter # OffCounts => s.filter = s.fedReal % CounterModulus
    /\ s.dataReady /\ ~s.polling => s.silent = 0
    /\ s.polling => s.dataReady /\ s.silent <= 1
    /\ ~s.dataReady => s.silent <= s.polls + 1
    /\ ~s.dataReady /\ s.polls > PollsToOff => s.filter = OffCounts

LEMMA CaptureStep ==
    ASSUME BoardDriversAssumption, CaptureInv(st),
           Edge \/ PollInputCapture \/ PollInputCaptureEnds
    PROVE  CaptureInv(st')
<1>0. /\ CounterModulus \in Nat \ {0} /\ Intervals \subseteq Nat /\ PollsToOff \in Nat \ {0}
      /\ DOMAIN st = CaptureFields /\ st.counter \in Int /\ st.previous \in Int
      /\ st.polls \in Nat /\ st.silent \in Nat
  BY DEF BoardDriversAssumption, CaptureInv
<1>1. CASE Edge
  <2>1. PICK d \in Intervals :
          st' = InputCaptureCompareMatch(
                   [st EXCEPT !.counter = (@ + d) % CounterModulus, !.silent = 0], d)
    BY <1>1, Zenon DEF Edge
  <2> DEFINE c == (st.counter + d) % CounterModulus
             s == [st EXCEPT !.counter = c, !.silent = 0]
             f == CalculateFeedbackCounts(st.previous, c)
             use == st.firstCaptureCompleted /\ ~st.dataReady
             fc == IF use THEN f ELSE st.feedbackCounts
             rl == IF use THEN d ELSE st.real
             dr == st.dataReady \/ use
  <2>2. c \in Int /\ d \in Int
    <3>1. d \in Int /\ st.counter + d \in Int
      BY <1>0
    <3>2. c \in 0 .. CounterModulus - 1
      BY <1>0, <3>1, IntDivision
    <3> QED BY <1>0, <3>1, <3>2
  <2>3. use => f = d % CounterModulus
    <3>1. ASSUME use PROVE st.previous = st.counter
      BY <3>1 DEF CaptureInv
    <3> QED BY <1>0, <3>1, <2>2, AroundTheCounter DEF CalculateFeedbackCounts
  <2>4. /\ DOMAIN s = CaptureFields /\ s.counter = c /\ s.silent = 0
        /\ s.firstCaptureCompleted = st.firstCaptureCompleted /\ s.dataReady = st.dataReady
        /\ s.previous = st.previous /\ s.feedbackCounts = st.feedbackCounts /\ s.real = st.real
        /\ s.polling = st.polling /\ s.filter = st.filter /\ s.fedReal = st.fedReal
        /\ s.polls = st.polls
    BY <1>0, SMTT(60) DEF CaptureFields
  <2>5. st' = [s EXCEPT !.previous = c, !.firstCaptureCompleted = TRUE, !.dataReady = dr,
                        !.feedbackCounts = fc, !.real = rl]
    BY <2>1, <2>4 DEF InputCaptureCompareMatch
  <2>6. fc = rl % CounterModulus
    BY <2>3 DEF CaptureInv
  <2>7. (st.dataReady => dr) /\ (~dr => ~st.dataReady)
    OBVIOUS
  <2> HIDE DEF c, s, f, use, fc, rl, dr
  <2>8. /\ DOMAIN st' = CaptureFields /\ st'.counter = c /\ st'.silent = 0 /\ st'.previous = c
        /\ st'.dataReady = dr /\ st'.feedbackCounts = fc /\ st'.real = rl
        /\ st'.polling = st.polling /\ st'.filter = st.filter /\ st'.fedReal = st.fedReal
        /\ st'.polls = st.polls
    BY <2>4, <2>5, SMTT(60) DEF CaptureFields
  <2> QED BY <1>0, <2>2, <2>6, <2>7, <2>8, SMTT(60) DEF CaptureInv
<1>2. CASE PollInputCapture
  <2> DEFINE k == IF st.silent > PollsToOff + 1 THEN st.silent ELSE st.silent + 1
             s == [st EXCEPT !.silent = k]
             polls == IF st.polls > PollsToOff THEN st.polls ELSE st.polls + 1
             filter == IF polls > PollsToOff THEN OffCounts ELSE st.filter
  <2>1. ~st.polling /\ k \in Nat /\ polls \in Nat
    <3>1. ~st.polling
      BY <1>2, ZenonT(120) DEF PollInputCapture
    <3>2. k \in Nat /\ polls \in Nat
      BY <1>0
    <3> QED BY <3>1, <3>2
  <2>2. /\ DOMAIN s = CaptureFields /\ s.silent = k
        /\ s.counter = st.counter /\ s.polls = st.polls
        /\ s.firstCaptureCompleted = st.firstCaptureCompleted /\ s.dataReady = st.dataReady
        /\ s.previous = st.previous /\ s.feedbackCounts = st.feedbackCounts /\ s.real = st.real
        /\ s.polling = st.polling /\ s.filter = st.filter /\ s.fedReal = st.fedReal
    BY <1>0, SMTT(60) DEF CaptureFields
  <2>3. CASE st.dataReady
    <3>1. st' = [s EXCEPT !.filter = st.feedbackCounts, !.fedReal = st.real, !.polling = TRUE]
      BY <1>2, <2>2, <2>3 DEF PollInputCapture
    <3>2. k <= 1
      BY <1>0, <2>1, <2>3 DEF CaptureInv
    <3> HIDE DEF s, k
    <3>3. /\ DOMAIN st' = CaptureFields /\ st'.silent = k
          /\ st'.counter = st.counter /\ st'.polls = st.polls
          /\ st'.firstCaptureCompleted = st.firstCaptureCompleted /\ st'.dataReady = st.dataReady
          /\ st'.previous = st.previous /\ st'.feedbackCounts = st.feedbackCounts
          /\ st'.real = st.real /\ st'.polling /\ st'.filter = st.feedbackCounts
          /\ st'.fedReal = st.real
      BY <2>2, <3>1, SMTT(60) DEF CaptureFields
    <3> QED BY <1>0, <2>1, <2>3, <3>2, <3>3, SMTT(60) DEF CaptureInv
  <2>4. CASE ~st.dataReady
    <3>1. st' = [s EXCEPT !.polls = polls, !.filter = filter]
      BY <1>2, <2>2, <2>4, ZenonT(120) DEF PollInputCapture
    <3>2. k <= polls + 1
      BY <1>0, <2>4 DEF CaptureInv
    <3>3. (polls > PollsToOff => filter = OffCounts) /\ (filter = OffCounts \/ filter = st.filter)
      OBVIOUS
    <3> HIDE DEF s, k, polls, filter
    <3>4. /\ DOMAIN st' = CaptureFields /\ st'.silent = k
          /\ st'.counter = st.counter /\ st'.polls = polls
          /\ st'.firstCaptureCompleted = st.firstCaptureCompleted /\ st'.dataReady = st.dataReady
          /\ st'.previous = st.previous /\ st'.feedbackCounts = st.feedbackCounts
          /\ st'.real = st.real /\ st'.polling = st.polling /\ st'.filter = filter
          /\ st'.fedReal = st.fedReal
      BY <2>2, <3>1, SMTT(60) DEF CaptureFields
    <3> QED BY <1>0, <2>1, <2>4, <3>2, <3>3, <3>4, SMTT(60) DEF CaptureInv
  <2> QED BY <2>3, <2>4
<1>3. CASE PollInputCaptureEnds
  <2>1. /\ st.polling /\ DOMAIN st' = CaptureFields /\ st'.silent = st.silent
        /\ st'.counter = st.counter /\ st'.polls = 0 /\ ~st'.polling /\ ~st'.dataReady
        /\ st'.firstCaptureCompleted = st.firstCaptureCompleted
        /\ st'.previous = st.previous /\ st'.feedbackCounts = st.feedbackCounts
        /\ st'.real = st.real /\ st'.filter = st.filter /\ st'.fedReal = st.fedReal
    <3>1. st.polling /\ st' = [st EXCEPT !.dataReady = FALSE, !.polls = 0, !.polling = FALSE]
      BY <1>3, ZenonT(120) DEF PollInputCaptureEnds
    <3>2. /\ DOMAIN st' = CaptureFields /\ st'.silent = st.silent
          /\ st'.counter = st.counter /\ st'.polls = 0 /\ ~st'.polling /\ ~st'.dataReady
      BY <1>0, <3>1, SMTT(60) DEF CaptureFields
    <3>3. /\ st'.firstCaptureCompleted = st.firstCaptureCompleted
          /\ st'.previous = st.previous /\ st'.feedbackCounts = st.feedbackCounts
          /\ st'.real = st.real /\ st'.filter = st.filter /\ st'.fedReal = st.fedReal
      BY <1>0, <3>1, SMTT(60) DEF CaptureFields
    <3> QED BY <3>1, <3>2, <3>3
  <2> QED BY <1>0, <2>1, SMTT(60) DEF CaptureInv
<1> QED BY <1>1, <1>2, <1>3

LEMMA CaptureInvShowsIntervals ==
    ASSUME BoardDriversAssumption, CaptureInv(st)
    PROVE  IntervalsAreWhole
<1>1. PollsToOff \in Nat \ {0}
  BY DEF BoardDriversAssumption
<1>2. ASSUME st.silent > PollsToOff + 1
      PROVE  st.filter = OffCounts
  <2>1. /\ st.dataReady /\ ~st.polling => st.silent = 0
        /\ st.polling => st.silent <= 1
        /\ ~st.dataReady => st.silent <= st.polls + 1
        /\ ~st.dataReady /\ st.polls > PollsToOff => st.filter = OffCounts
        /\ st.silent \in Nat /\ st.polls \in Nat
    BY ZenonT(120) DEF CaptureInv
  <2>2. st.silent \in Nat /\ st.polls \in Nat
    BY <2>1
  <2>3. /\ ~(st.silent = 0) /\ ~(st.silent <= 1)
        /\ st.silent <= st.polls + 1 => st.polls > PollsToOff
    BY <1>1, <1>2, <2>2
  <2> QED BY <2>1, <2>3, ZenonT(120)
<1> QED BY <1>2, ZenonT(120) DEF IntervalsAreWhole, CaptureInv

(* A buffered UART: between expected and next, the ring holds the bytes that *)
(* have not been taken.                                                    *)

\* i places after a in a ring of p.
Wrap(a, i, p) == IF a + i < p THEN a + i ELSE (a + i) - p

LEMMA WrapIsRemainder ==
    ASSUME NEW p \in Nat \ {0}, NEW a \in 0 .. p - 1, NEW i \in 0 .. p
    PROVE  (a + i) % p = Wrap(a, i, p) /\ Wrap(a, i, p) \in 0 .. p - 1
<1>1. CASE a + i < p
  <2>1. a + i \in 0 .. p - 1 /\ a + i \in Int /\ p * 0 = 0 /\ a + i = 0 + (a + i)
    BY <1>1
  <2>2. (a + i) % p = a + i
    BY <2>1, OneRemainder
  <2> QED BY <1>1, <2>1, <2>2 DEF Wrap
<1>2. CASE ~(a + i < p)
  <2>1. (a + i) - p \in 0 .. p - 1 /\ a + i \in Int /\ p * 1 = p /\ a + i = p + ((a + i) - p)
    BY <1>2
  <2>2. (a + i) % p = (a + i) - p
    BY <2>1, OneRemainder
  <2> QED BY <1>2, <2>1, <2>2 DEF Wrap
<1> QED BY <1>1, <1>2

LEMMA DistanceIsRemainder ==
    ASSUME NEW p \in Nat \ {0}, NEW a \in 0 .. p - 1, NEW b \in 0 .. p - 1
    PROVE  (a - b) % p = IF a >= b THEN a - b ELSE (a - b) + p
<1>1. CASE a >= b
  <2>1. a - b \in 0 .. p - 1 /\ a - b \in Int /\ p * 0 = 0 /\ a - b = 0 + (a - b)
    BY <1>1
  <2>2. (a - b) % p = a - b
    BY <2>1, OneRemainder
  <2> QED BY <1>1, <2>2
<1>2. CASE ~(a >= b)
  <2>1. (a - b) + p \in 0 .. p - 1 /\ a - b \in Int /\ p * (-1) = -p /\ a - b = (-p) + ((a - b) + p)
    BY <1>2
  <2>2. (a - b) % p = (a - b) + p
    BY <2>1, OneRemainder
  <2> QED BY <1>2, <2>2
<1> QED BY <1>1, <1>2

LEMMA WrapFacts ==
    ASSUME NEW p \in Nat, NEW a \in 0 .. p - 1, NEW i \in 0 .. p - 1
    PROVE  /\ Wrap(a, i, p) \in 0 .. p - 1
           /\ i + 1 < p => /\ Wrap(Wrap(a, i, p), 1, p) = Wrap(a, i + 1, p)
                          /\ Wrap(Wrap(a, 1, p), i, p) = Wrap(a, i + 1, p)
           /\ i = IF Wrap(a, i, p) >= a THEN Wrap(a, i, p) - a ELSE p - (a - Wrap(a, i, p))
<1> DEFINE w == Wrap(a, i, p)
<1>1. /\ a + i < p => w = a + i
      /\ ~(a + i < p) => w = (a + i) - p
  BY DEF Wrap
<1>2. w \in 0 .. p - 1
  BY <1>1
<1>3. i = IF w >= a THEN w - a ELSE p - (a - w)
  BY <1>1, <1>2
<1>4. ASSUME i + 1 < p
      PROVE  Wrap(w, 1, p) = Wrap(a, i + 1, p)
  <2>1. Wrap(w, 1, p) = IF w + 1 < p THEN w + 1 ELSE (w + 1) - p
    BY DEF Wrap
  <2>2. Wrap(a, i + 1, p) = IF a + (i + 1) < p THEN a + (i + 1) ELSE (a + (i + 1)) - p
    BY DEF Wrap
  <2> HIDE DEF w
  <2> QED BY <1>1, <1>2, <1>4, <2>1, <2>2
<1>5. ASSUME i + 1 < p
      PROVE  Wrap(Wrap(a, 1, p), i, p) = Wrap(a, i + 1, p)
  <2> DEFINE v == Wrap(a, 1, p)
  <2>1. v = IF a + 1 < p THEN a + 1 ELSE (a + 1) - p
    BY DEF Wrap
  <2>2. Wrap(a, i + 1, p) = IF a + (i + 1) < p THEN a + (i + 1) ELSE (a + (i + 1)) - p
    BY DEF Wrap
  <2>3. Wrap(v, i, p) = IF v + i < p THEN v + i ELSE (v + i) - p
    BY DEF Wrap
  <2> HIDE DEF v
  <2>4. v \in Int
    BY <2>1
  <2>5. Wrap(v, i, p) = Wrap(a, i + 1, p)
    BY <1>5, <2>1, <2>2, <2>3, <2>4
  <2> QED BY <2>5 DEF v
<1> QED BY <1>2, <1>3, <1>4, <1>5

\* Two places of a ring differ.
LEMMA WrapIsInjective ==
    ASSUME NEW p \in Nat, NEW a \in 0 .. p - 1, NEW i \in 0 .. p - 1, NEW j \in 0 .. p - 1,
           i # j
    PROVE  Wrap(a, i, p) # Wrap(a, j, p)
<1> DEFINE v == Wrap(a, i, p)
           w == Wrap(a, j, p)
<1>1. /\ v = IF a + i < p THEN a + i ELSE (a + i) - p
      /\ w = IF a + j < p THEN a + j ELSE (a + j) - p
  BY DEF Wrap
<1> HIDE DEF v, w
<1>2. v # w
  BY <1>1
<1> QED BY <1>2 DEF v, w

\* The count of the DTC runs down from p to 1 while the head runs up from 0.
LEMMA CountAgainstHead ==
    ASSUME NEW p \in Nat, NEW c \in 1 .. p
    PROVE  /\ (IF c = 1 THEN p ELSE c - 1) \in 1 .. p /\ p - c \in 0 .. p - 1
           /\ p - (IF c = 1 THEN p ELSE c - 1) = Wrap(p - c, 1, p)
<1>1. Wrap(p - c, 1, p) = IF (p - c) + 1 < p THEN (p - c) + 1 ELSE ((p - c) + 1) - p
  BY DEF Wrap
<1> QED BY <1>1

UartFields ==
    {"cral", "tail", "ring", "next", "expected", "left", "waiting", "cra", "dtce", "tdre",
     "packet", "sent"}

Receiving(s, u) ==
    /\ s.cral \in 1 .. BufferSize /\ s.tail \in 0 .. BufferSize - 1
    /\ s.next \in 0 .. SequenceModulus - 1 /\ s.expected \in 0 .. SequenceModulus - 1
    /\ u \in 0 .. BufferSize - 1
    /\ s.next = Wrap(s.expected, u, SequenceModulus)
    /\ RingHead(s) = Wrap(s.tail, u, BufferSize)
    /\ s.left \in Nat /\ s.left <= u
    /\ DOMAIN s.ring = 0 .. BufferSize - 1
    /\ \A i \in 0 .. u - 1 :
        s.ring[Wrap(s.tail, i, BufferSize)] = Wrap(s.expected, i, SequenceModulus)

Transmitting(s) ==
    /\ s.cra \in Nat /\ s.packet \in Nat /\ s.sent \in Nat
    /\ s.waiting \in BOOLEAN /\ s.tdre \in BOOLEAN /\ s.dtce \in BOOLEAN
    /\ s.dtce <=> s.cra > 0
    /\ s.sent + s.cra + (IF s.tdre THEN 0 ELSE 1) = s.packet
    /\ ~s.waiting => s.cra = 0 /\ s.tdre

UartInv(s) ==
    /\ DOMAIN s = UartFields
    /\ \E u : Receiving(s, u)
    /\ Transmitting(s)

LEMMA Sizes ==
    ASSUME BoardDriversAssumption
    PROVE  /\ BufferSize \in Nat /\ BufferSize > 1 /\ SequenceModulus \in Nat
           /\ SequenceModulus > BufferSize
BY DEF BoardDriversAssumption

LEMMA CountIsUnread ==
    ASSUME BoardDriversAssumption, NEW s, NEW u, Receiving(s, u)
    PROVE  DtcRingBuffer_GetCount(s) = u /\ Unread(s) = u
<1> DEFINE h == RingHead(s)
<1>1. /\ BufferSize \in Nat /\ BufferSize > 1 /\ SequenceModulus \in Nat
      /\ SequenceModulus > BufferSize
  BY Sizes
<1>2. /\ s.tail \in 0 .. BufferSize - 1 /\ u \in 0 .. BufferSize - 1
      /\ h = Wrap(s.tail, u, BufferSize)
      /\ s.next \in 0 .. SequenceModulus - 1 /\ s.expected \in 0 .. SequenceModulus - 1
      /\ s.next = Wrap(s.expected, u, SequenceModulus)
  BY DEF Receiving
<1>3. Unread(s) = u
  <2> DEFINE w == Wrap(s.expected, u, SequenceModulus)
  <2>0. SequenceModulus \in Nat \ {0} /\ u \in 0 .. SequenceModulus - 1
    BY <1>1, <1>2
  <2>1. (s.next - s.expected) % SequenceModulus
        = IF s.next >= s.expected THEN s.next - s.expected
          ELSE (s.next - s.expected) + SequenceModulus
    BY <1>2, <2>0, DistanceIsRemainder
  <2>2. u = IF w >= s.expected THEN w - s.expected ELSE SequenceModulus - (s.expected - w)
    BY <1>1, <1>2, <2>0, WrapFacts, ZenonT(120)
  <2> HIDE DEF w
  <2>3. s.next = w
    BY <1>2 DEF w
  <2> QED BY <1>1, <1>2, <2>1, <2>2, <2>3 DEF Unread
<1>4. h = Wrap(s.tail, u, BufferSize)
  BY <1>2
<1> HIDE DEF h
<1>5. u = IF h >= s.tail THEN h - s.tail ELSE BufferSize - (s.tail - h)
  <2> DEFINE w == Wrap(s.tail, u, BufferSize)
  <2>1. u = IF w >= s.tail THEN w - s.tail ELSE BufferSize - (s.tail - w)
    BY <1>1, <1>2, WrapFacts
  <2>2. h = w
    BY <1>4
  <2> HIDE DEF w
  <2> QED BY <2>1, <2>2
<1>6. DtcRingBuffer_GetCount(s) = u
  BY <1>5, ZenonT(120) DEF DtcRingBuffer_GetCount, h
<1> QED BY <1>3, <1>6

\* What concerns one direction only leaves the other one as it is.
LEMMA SameReceiving ==
    ASSUME NEW s, NEW t, NEW u, Receiving(s, u), t.cral = s.cral, t.tail = s.tail,
           t.ring = s.ring, t.next = s.next, t.expected = s.expected, t.left = s.left
    PROVE  Receiving(t, u)
BY DEF Receiving, RingHead

LEMMA SameTransmitting ==
    ASSUME NEW s, NEW t, Transmitting(s), t.waiting = s.waiting, t.cra = s.cra,
           t.dtce = s.dtce, t.tdre = s.tdre, t.packet = s.packet, t.sent = s.sent
    PROVE  Transmitting(t)
BY DEF Transmitting

LEMMA ReceivedStep ==
    ASSUME BoardDriversAssumption, UartInv(st), DtcReceives
    PROVE  UartInv(st')
<1>1. PICK u : Receiving(st, u)
  BY DEF UartInv
<1>2. u < BufferSize - 1
  BY <1>1, CountIsUnread DEF DtcReceives
<1> DEFINE h == RingHead(st)
           ring == [st.ring EXCEPT ![h] = st.next]
           next == (st.next + 1) % SequenceModulus
           cral == IF st.cral = 1 THEN BufferSize ELSE st.cral - 1
<1>3. /\ BufferSize \in Nat /\ BufferSize > 1 /\ SequenceModulus \in Nat
      /\ SequenceModulus > BufferSize
  BY Sizes
<1>4. st' = [st EXCEPT !.ring = ring, !.next = next, !.cral = cral]
  BY ZenonT(120) DEF DtcReceives
<1>5. /\ st.cral \in 1 .. BufferSize /\ st.tail \in 0 .. BufferSize - 1
      /\ st.next \in 0 .. SequenceModulus - 1 /\ st.expected \in 0 .. SequenceModulus - 1
      /\ u \in 0 .. BufferSize - 1
      /\ st.next = Wrap(st.expected, u, SequenceModulus)
      /\ h = Wrap(st.tail, u, BufferSize) /\ h = BufferSize - st.cral
      /\ st.left \in Nat /\ st.left <= u
      /\ DOMAIN st.ring = 0 .. BufferSize - 1
      /\ \A i \in 0 .. u - 1 :
          st.ring[Wrap(st.tail, i, BufferSize)] = Wrap(st.expected, i, SequenceModulus)
  BY <1>1, ZenonT(120) DEF Receiving, RingHead
<1>a. u \in 0 .. BufferSize - 1 /\ st.left \in Nat /\ st.left <= u
  BY <1>5, ZenonT(120)
<1>b. st.cral \in 1 .. BufferSize /\ h = BufferSize - st.cral
  BY <1>5, ZenonT(120)
<1>c. st.tail \in 0 .. BufferSize - 1 /\ st.expected \in 0 .. SequenceModulus - 1
  BY <1>5, ZenonT(120)
<1>6. next = Wrap(st.next, 1, SequenceModulus) /\ next \in 0 .. SequenceModulus - 1
  <2>1. SequenceModulus \in Nat \ {0} /\ 1 \in 0 .. SequenceModulus
    BY <1>3
  <2>2. st.next \in 0 .. SequenceModulus - 1
    BY <1>5
  <2>3. /\ (st.next + 1) % SequenceModulus = Wrap(st.next, 1, SequenceModulus)
        /\ Wrap(st.next, 1, SequenceModulus) \in 0 .. SequenceModulus - 1
    BY <2>1, <2>2, WrapIsRemainder
  <2> QED BY <2>3, ZenonT(120)
<1> HIDE DEF h, next
<1>7. next = Wrap(st.expected, u + 1, SequenceModulus)
  <2>1. u \in 0 .. SequenceModulus - 1 /\ u + 1 < SequenceModulus
    BY <1>2, <1>3, <1>a, SMTT(60)
  <2>2. Wrap(Wrap(st.expected, u, SequenceModulus), 1, SequenceModulus)
        = Wrap(st.expected, u + 1, SequenceModulus)
    BY <1>3, <1>c, <2>1, WrapFacts, ZenonT(120)
  <2> QED BY <1>5, <1>6, <2>2, ZenonT(120)
<1>8. cral \in 1 .. BufferSize /\ BufferSize - cral = Wrap(st.tail, u + 1, BufferSize)
  <2>1. u + 1 < BufferSize
    BY <1>2, <1>3, <1>a
  <2>2. cral \in 1 .. BufferSize /\ BufferSize - cral = Wrap(BufferSize - st.cral, 1, BufferSize)
    BY <1>3, <1>5, CountAgainstHead
  <2> HIDE DEF cral
  <2>3. BufferSize - st.cral = h
    BY <1>5
  <2>4. Wrap(h, 1, BufferSize) = Wrap(st.tail, u + 1, BufferSize)
    <3>1. Wrap(Wrap(st.tail, u, BufferSize), 1, BufferSize) = Wrap(st.tail, u + 1, BufferSize)
      BY <1>3, <1>a, <1>c, <2>1, WrapFacts, ZenonT(120)
    <3> QED BY <1>5, <3>1, ZenonT(120)
  <2> QED BY <2>2, <2>3, <2>4, ZenonT(120)
<1>9. h \in 0 .. BufferSize - 1
  BY <1>3, <1>b, SMTT(60)
<1>10. DOMAIN ring = 0 .. BufferSize - 1
  BY <1>5
<1>11. ASSUME NEW i \in 0 .. u
       PROVE  ring[Wrap(st.tail, i, BufferSize)] = Wrap(st.expected, i, SequenceModulus)
  <2> DEFINE k == Wrap(st.tail, i, BufferSize)
  <2>0. i \in 0 .. BufferSize - 1
    BY <1>3, <1>5
  <2>1. k \in 0 .. BufferSize - 1
    BY <1>3, <1>5, <2>0, WrapFacts
  <2>2. CASE i = u
    BY <1>5, <1>9, <2>2
  <2>3. CASE i # u
    <3>0. k # h
      BY <1>3, <1>5, <2>0, <2>3, WrapIsInjective, ZenonT(120)
    <3>1. i \in 0 .. u - 1
      BY <1>3, <1>5, <2>3
    <3>2. st.ring[k] = Wrap(st.expected, i, SequenceModulus)
      BY <1>5, <3>1
    <3> QED BY <1>5, <2>1, <3>0, <3>2, SMTT(60)
  <2> QED BY <2>2, <2>3
<1> HIDE DEF ring, cral
<1>12. DOMAIN st = UartFields /\ Transmitting(st)
  BY DEF UartInv
<1>13. /\ DOMAIN st' = UartFields /\ st'.ring = ring /\ st'.next = next /\ st'.cral = cral
       /\ st'.tail = st.tail /\ st'.expected = st.expected /\ st'.left = st.left
       /\ st'.waiting = st.waiting /\ st'.cra = st.cra /\ st'.dtce = st.dtce
       /\ st'.tdre = st.tdre /\ st'.packet = st.packet /\ st'.sent = st.sent
  BY <1>4, <1>12, SMTT(60) DEF UartFields
<1>14. u + 1 \in 0 .. BufferSize - 1 /\ st.left <= u + 1 /\ (u + 1) - 1 = u
  BY <1>2, <1>3, <1>a, SMTT(60)
<1>15. Receiving(st', u + 1)
  BY <1>5, <1>6, <1>7, <1>8, <1>10, <1>11, <1>13, <1>14, ZenonT(120) DEF Receiving, RingHead
<1>16. Transmitting(st')
  BY <1>12, <1>13, SameTransmitting
<1> QED BY <1>13, <1>15, <1>16 DEF UartInv

LEMMA TakenStep ==
    ASSUME BoardDriversAssumption, UartInv(st), UartRunTakes
    PROVE  UartInv(st')
<1>1. PICK u : Receiving(st, u)
  BY DEF UartInv
<1> DEFINE tail == (st.tail + 1) % BufferSize
           expected == (st.expected + 1) % SequenceModulus
           left == st.left - 1
<1>3. /\ BufferSize \in Nat /\ BufferSize > 1 /\ SequenceModulus \in Nat
      /\ SequenceModulus > BufferSize
  BY Sizes
<1>4. st' = [st EXCEPT !.left = left, !.tail = tail, !.expected = expected] /\ st.left > 0
  BY ZenonT(120) DEF UartRunTakes
<1>5. /\ st.cral \in 1 .. BufferSize /\ st.tail \in 0 .. BufferSize - 1
      /\ st.next \in 0 .. SequenceModulus - 1 /\ st.expected \in 0 .. SequenceModulus - 1
      /\ u \in 0 .. BufferSize - 1
      /\ st.next = Wrap(st.expected, u, SequenceModulus)
      /\ BufferSize - st.cral = Wrap(st.tail, u, BufferSize)
      /\ st.left \in Nat /\ st.left <= u
      /\ DOMAIN st.ring = 0 .. BufferSize - 1
      /\ \A i \in 0 .. u - 1 :
          st.ring[Wrap(st.tail, i, BufferSize)] = Wrap(st.expected, i, SequenceModulus)
  BY <1>1, ZenonT(120) DEF Receiving, RingHead
<1>6. /\ tail = Wrap(st.tail, 1, BufferSize) /\ tail \in 0 .. BufferSize - 1
      /\ expected = Wrap(st.expected, 1, SequenceModulus) /\ expected \in 0 .. SequenceModulus - 1
  <2>1. /\ SequenceModulus \in Nat \ {0} /\ 1 \in 0 .. SequenceModulus
        /\ BufferSize \in Nat \ {0} /\ 1 \in 0 .. BufferSize
    BY <1>3
  <2>2. st.expected \in 0 .. SequenceModulus - 1 /\ st.tail \in 0 .. BufferSize - 1
    BY <1>5
  <2>3. /\ (st.expected + 1) % SequenceModulus = Wrap(st.expected, 1, SequenceModulus)
        /\ Wrap(st.expected, 1, SequenceModulus) \in 0 .. SequenceModulus - 1
    BY <2>1, <2>2, WrapIsRemainder
  <2>4. /\ (st.tail + 1) % BufferSize = Wrap(st.tail, 1, BufferSize)
        /\ Wrap(st.tail, 1, BufferSize) \in 0 .. BufferSize - 1
    BY <2>1, <2>2, WrapIsRemainder
  <2> QED BY <2>3, <2>4, ZenonT(120)
<1>7. left \in Nat /\ left <= u - 1 /\ u - 1 \in 0 .. BufferSize - 1 /\ u >= 1
  <2>1. st.left > 0 /\ st.left \in Nat /\ st.left <= u /\ u \in 0 .. BufferSize - 1
    BY <1>4, <1>5, ZenonT(120)
  <2> QED BY <1>3, <2>1
<1> HIDE DEF tail, expected, left
<1>8. ASSUME NEW i \in 0 .. u - 1
      PROVE  /\ Wrap(tail, i, BufferSize) = Wrap(st.tail, i + 1, BufferSize)
             /\ Wrap(expected, i, SequenceModulus) = Wrap(st.expected, i + 1, SequenceModulus)
  <2>0. u \in 0 .. BufferSize - 1
    BY <1>5
  <2>1. /\ i \in 0 .. SequenceModulus - 1 /\ i + 1 < SequenceModulus
        /\ i \in 0 .. BufferSize - 1 /\ i + 1 < BufferSize
    BY <1>3, <2>0
  <2>2. st.expected \in 0 .. SequenceModulus - 1 /\ st.tail \in 0 .. BufferSize - 1
    BY <1>5
  <2>3. /\ Wrap(Wrap(st.tail, 1, BufferSize), i, BufferSize) = Wrap(st.tail, i + 1, BufferSize)
        /\ Wrap(Wrap(st.expected, 1, SequenceModulus), i, SequenceModulus)
           = Wrap(st.expected, i + 1, SequenceModulus)
    BY <1>3, <2>1, <2>2, WrapFacts
  <2> QED BY <1>6, <2>3, ZenonT(120)
<1>9. /\ st.next = Wrap(expected, u - 1, SequenceModulus)
      /\ BufferSize - st.cral = Wrap(tail, u - 1, BufferSize)
  <2>0. u \in 0 .. BufferSize - 1
    BY <1>5, ZenonT(120)
  <2>1. u - 1 \in 0 .. u - 1 /\ (u - 1) + 1 = u
    BY <1>3, <1>7, <2>0, SMTT(60)
  <2> QED BY <1>5, <1>8, <2>1
<1>10. \A i \in 0 .. (u - 1) - 1 :
          st.ring[Wrap(tail, i, BufferSize)] = Wrap(expected, i, SequenceModulus)
  <2> SUFFICES ASSUME NEW i \in 0 .. (u - 1) - 1
               PROVE  st.ring[Wrap(tail, i, BufferSize)] = Wrap(expected, i, SequenceModulus)
    OBVIOUS
  <2>1. i \in 0 .. u - 1 /\ i + 1 \in 0 .. u - 1
    BY <1>5
  <2> QED BY <1>5, <1>8, <2>1
<1>12. DOMAIN st = UartFields /\ Transmitting(st)
  BY DEF UartInv
<1>13. /\ DOMAIN st' = UartFields /\ st'.tail = tail /\ st'.expected = expected /\ st'.left = left
       /\ st'.ring = st.ring /\ st'.next = st.next /\ st'.cral = st.cral
       /\ st'.waiting = st.waiting /\ st'.cra = st.cra /\ st'.dtce = st.dtce
       /\ st'.tdre = st.tdre /\ st'.packet = st.packet /\ st'.sent = st.sent
  BY <1>4, <1>12, SMTT(60) DEF UartFields
<1>15. Receiving(st', u - 1)
  BY <1>5, <1>6, <1>7, <1>9, <1>10, <1>13, ZenonT(120) DEF Receiving, RingHead
<1>16. Transmitting(st')
  BY <1>12, <1>13, SameTransmitting
<1> QED BY <1>13, <1>15, <1>16 DEF UartInv

LEMMA CountedStep ==
    ASSUME BoardDriversAssumption, UartInv(st), UartRunCounts
    PROVE  UartInv(st')
<1>1. PICK u : Receiving(st, u)
  BY DEF UartInv
<1>2. st' = [st EXCEPT !.left = u]
  BY <1>1, CountIsUnread, ZenonT(120) DEF UartRunCounts
<1>3. DOMAIN st = UartFields /\ Transmitting(st)
  BY DEF UartInv
<1>4. /\ DOMAIN st' = UartFields /\ st'.left = u /\ st'.tail = st.tail /\ st'.expected = st.expected
      /\ st'.ring = st.ring /\ st'.next = st.next /\ st'.cral = st.cral
      /\ st'.waiting = st.waiting /\ st'.cra = st.cra /\ st'.dtce = st.dtce
      /\ st'.tdre = st.tdre /\ st'.packet = st.packet /\ st'.sent = st.sent
  BY <1>2, <1>3, SMTT(60) DEF UartFields
<1>5. BufferSize \in Nat
  BY Sizes
<1>6. u \in 0 .. BufferSize - 1
  BY <1>1 DEF Receiving
<1>7. u \in Nat /\ u <= u
  BY <1>5, <1>6
<1>8. Receiving(st', u)
  BY <1>1, <1>4, <1>7, ZenonT(120) DEF Receiving, RingHead
<1>9. Transmitting(st')
  BY <1>3, <1>4, SameTransmitting
<1> QED BY <1>4, <1>8, <1>9 DEF UartInv

LEMMA TransmitterStep ==
    ASSUME BoardDriversAssumption, UartInv(st),
           UartTransmit \/ TransmitRegisterEmpties \/ DtcTransmits \/ UartRunCompletes
    PROVE  UartInv(st')
<1>1. PICK u : Receiving(st, u)
  BY DEF UartInv
<1>2. /\ DOMAIN st = UartFields
      /\ st.cra \in Nat /\ st.packet \in Nat /\ st.sent \in Nat
      /\ st.waiting \in BOOLEAN /\ st.tdre \in BOOLEAN /\ st.dtce \in BOOLEAN
      /\ st.dtce <=> st.cra > 0
      /\ st.sent + st.cra + (IF st.tdre THEN 0 ELSE 1) = st.packet
      /\ ~st.waiting => st.cra = 0 /\ st.tdre
  BY ZenonT(120) DEF UartInv, Transmitting
<1>d. DOMAIN st = UartFields
  BY <1>2
<1>3. SUFFICES /\ DOMAIN st' = UartFields /\ st'.left = st.left /\ st'.tail = st.tail
               /\ st'.expected = st.expected
               /\ st'.ring = st.ring /\ st'.next = st.next /\ st'.cral = st.cral
               /\ Transmitting(st')
  BY <1>1, SameReceiving DEF UartInv
<1>4. CASE UartTransmit
  <2>1. PICK n \in PacketSizes : st' = Transmit(st, n)
    BY <1>4 DEF UartTransmit
  <2> DEFINE c == n - 1
             b == n > 1
  <2>2. c \in Nat /\ n \in Nat /\ b \in BOOLEAN /\ (b <=> c > 0) /\ 0 + c + 1 = n
    <3>1. n \in Nat \ {0}
      BY DEF BoardDriversAssumption
    <3> QED BY <3>1
  <2>3. st' = [st EXCEPT !.waiting = TRUE, !.cra = c, !.dtce = b, !.tdre = FALSE,
                         !.packet = n, !.sent = 0]
    BY <2>1 DEF Transmit
  <2> HIDE DEF c, b
  <2>4. /\ DOMAIN st' = UartFields /\ st'.left = st.left /\ st'.tail = st.tail
        /\ st'.expected = st.expected
        /\ st'.ring = st.ring /\ st'.next = st.next /\ st'.cral = st.cral
        /\ st'.waiting = TRUE /\ st'.cra = c /\ st'.dtce = b /\ st'.tdre = FALSE
        /\ st'.packet = n /\ st'.sent = 0
    BY <1>d, <2>3, SMTT(60) DEF UartFields
  <2>5. n \in Nat /\ 0 \in Nat /\ c \in Nat /\ 0 + c + (IF FALSE THEN 0 ELSE 1) = n
    BY <2>2
  <2> QED BY <2>2, <2>4, <2>5, ZenonT(120) DEF Transmitting
<1>5. CASE TransmitRegisterEmpties
  <2>1. ~st.tdre /\ st' = [st EXCEPT !.tdre = TRUE, !.sent = st.sent + 1]
    BY <1>5, ZenonT(120) DEF TransmitRegisterEmpties
  <2>2. /\ DOMAIN st' = UartFields /\ st'.left = st.left /\ st'.tail = st.tail
        /\ st'.expected = st.expected
        /\ st'.ring = st.ring /\ st'.next = st.next /\ st'.cral = st.cral
        /\ st'.waiting = st.waiting /\ st'.cra = st.cra /\ st'.dtce = st.dtce /\ st'.tdre = TRUE
        /\ st'.packet = st.packet /\ st'.sent = st.sent + 1
    BY <1>d, <2>1, SMTT(60) DEF UartFields
  <2>3. st.sent + 1 \in Nat /\ (st.sent + 1) + st.cra + (IF TRUE THEN 0 ELSE 1) = st.packet
    BY <1>2, <2>1
  <2>4. st.waiting
    BY <1>2, <2>1, ZenonT(120)
  <2> QED BY <1>2, <2>2, <2>3, <2>4, ZenonT(120) DEF Transmitting
<1>6. CASE DtcTransmits
  <2>0. st.cra \in Nat /\ st.cra > 0 /\ st.tdre
    BY <1>2, <1>6, ZenonT(120) DEF DtcTransmits
  <2> DEFINE c == st.cra - 1
             b == st.cra > 1
  <2>1. c \in Nat /\ b \in BOOLEAN /\ (b <=> c > 0) /\ c + 1 = st.cra
    BY <2>0
  <2>2. st' = [st EXCEPT !.tdre = FALSE, !.cra = c, !.dtce = b]
    BY <1>6, ZenonT(120) DEF DtcTransmits
  <2> HIDE DEF c, b
  <2>3. /\ DOMAIN st' = UartFields /\ st'.left = st.left /\ st'.tail = st.tail
        /\ st'.expected = st.expected
        /\ st'.ring = st.ring /\ st'.next = st.next /\ st'.cral = st.cral
        /\ st'.waiting = st.waiting /\ st'.cra = c /\ st'.dtce = b /\ st'.tdre = FALSE
        /\ st'.packet = st.packet /\ st'.sent = st.sent
    BY <1>d, <2>2, SMTT(60) DEF UartFields
  <2>4. st.sent + c + (IF FALSE THEN 0 ELSE 1) = st.packet
    <3>1. st.sent + st.cra + 0 = st.packet
      BY <1>2, <2>0
    <3> QED BY <1>2, <2>1, <3>1
  <2>5. st.waiting
    <3>1. st.cra # 0
      BY <2>0
    <3> QED BY <1>2, <3>1, ZenonT(120)
  <2> QED BY <1>2, <2>1, <2>3, <2>4, <2>5, ZenonT(120) DEF Transmitting
<1>7. CASE UartRunCompletes
  <2>0. st' = [st EXCEPT !.waiting = FALSE]
    BY <1>7, ZenonT(120) DEF UartRunCompletes
  <2>1. st.cra = 0 /\ st.tdre
    BY <1>7, ZenonT(120) DEF UartRunCompletes
  <2>2. /\ DOMAIN st' = UartFields /\ st'.left = st.left /\ st'.tail = st.tail
        /\ st'.expected = st.expected
        /\ st'.ring = st.ring /\ st'.next = st.next /\ st'.cral = st.cral
        /\ st'.waiting = FALSE /\ st'.cra = st.cra /\ st'.dtce = st.dtce /\ st'.tdre = st.tdre
        /\ st'.packet = st.packet /\ st'.sent = st.sent
    BY <1>d, <2>0, SMTT(60) DEF UartFields
  <2> QED BY <1>2, <2>1, <2>2, ZenonT(120) DEF Transmitting
<1> QED BY <1>4, <1>5, <1>6, <1>7

LEMMA UartInvShowsBytes ==
    ASSUME BoardDriversAssumption, UartInv(st)
    PROVE  UartBytesAreExact
<1>1. PICK u : Receiving(st, u)
  BY DEF UartInv
<1>2. DtcRingBuffer_GetCount(st) = u /\ Unread(st) = u
  BY <1>1, CountIsUnread
<1>3. st.left <= u
  BY <1>1 DEF Receiving
<1>4. ASSUME NEW i \in 0 .. u - 1
      PROVE  st.ring[(st.tail + i) % BufferSize] = (st.expected + i) % SequenceModulus
  <2>1. /\ BufferSize \in Nat \ {0} /\ SequenceModulus \in Nat \ {0}
        /\ SequenceModulus > BufferSize
    BY Sizes
  <2>2. /\ st.tail \in 0 .. BufferSize - 1 /\ st.expected \in 0 .. SequenceModulus - 1
        /\ u \in 0 .. BufferSize - 1
    BY <1>1 DEF Receiving
  <2>3. i \in 0 .. BufferSize /\ i \in 0 .. SequenceModulus
    BY <2>1, <2>2
  <2>4. /\ (st.tail + i) % BufferSize = Wrap(st.tail, i, BufferSize)
        /\ (st.expected + i) % SequenceModulus = Wrap(st.expected, i, SequenceModulus)
    BY <2>1, <2>2, <2>3, WrapIsRemainder
  <2> QED BY <1>1, <2>4 DEF Receiving
<1>5. st.waiting \/ st.sent = st.packet
  <2>1. ASSUME ~st.waiting
        PROVE  st.sent = st.packet
    <3>1. /\ st.cra = 0 /\ st.tdre /\ st.sent \in Nat /\ st.packet \in Nat
          /\ st.sent + st.cra + (IF st.tdre THEN 0 ELSE 1) = st.packet
      BY <2>1, ZenonT(120) DEF UartInv, Transmitting
    <3> QED BY <3>1
  <2> QED BY <2>1
<1> QED BY <1>2, <1>3, <1>4, <1>5, ZenonT(120) DEF UartBytesAreExact

I2cFields ==
    {"op", "callback", "index", "readSize", "writeSize", "dataHasBeenRead", "busBusy", "rie", "tie",
     "ackt", "wire", "request", "told", "acks", "client"}

I2cTransfers == {"Write", "WriteByte", "ReadFirstByte", "ReadAdditionalBytes", "ReadByte"}

\* The answers to the first n of r bytes: only the last one of all is refused.
ReadAnswer(n, r) == IF n = r THEN "Nack" ELSE "Ack"
ReadAnswers(n, r) == [i \in 1 .. n |-> ReadAnswer(i, r)]

\* What the driver is asked to do, and what it is therefore waiting for.
Asking(s) ==
    /\ s.client \in {"free", "started", "owner", "failed", "waiting"}
    /\ s.client # "waiting" => s.op = "Idle" /\ s.request = "none" /\ s.wire # "out"
    /\ s.client = "waiting" =>
        /\ s.op \in I2cTransfers =>
              s.wire # "none" /\ s.tie /\ s.request = "none" /\ s.busBusy
        /\ s.op \notin I2cTransfers =>
              s.op \in {"Start", "Restart", "Stop", "Idle"} /\ s.request # "none"
        /\ s.op \in {"Start", "Restart"} => s.busBusy
    /\ s.client \in {"started", "owner", "failed"} => s.tie /\ s.busBusy
    /\ s.client = "started" => ~s.rie
    /\ s.client = "free" => ~s.busBusy

\* Who is called.
Calling(s) ==
    /\ s.client = "waiting" =>
        /\ s.op \in {"Write", "WriteByte"} => s.callback = "write"
        /\ s.op \in {"ReadFirstByte", "ReadAdditionalBytes"} => s.callback = "read"
        /\ s.op = "ReadByte" => s.callback = "readByte"
        /\ s.op \notin I2cTransfers => s.callback = "condition"
    /\ s.client \in {"started", "owner", "free"} /\ s.told # "none" => s.told = s.callback

\* A read, in its first byte, in the others, and when it is over.
Reading(s) ==
    /\ s.op = "ReadFirstByte" =>
        /\ s.wire = "out" /\ ~s.rie /\ s.index = 0 /\ s.acks = <<>>
        /\ s.readSize \in Nat /\ s.readSize > 1
    /\ s.op = "ReadAdditionalBytes" =>
        /\ s.rie /\ s.acks = ReadAnswers(s.index, s.readSize)
        /\ s.readSize \in Nat /\ s.index \in Nat
        /\ s.wire = "out" => s.index < s.readSize /\ s.ackt = ReadAnswer(s.index + 1, s.readSize)
        /\ s.wire # "out" => s.index <= s.readSize /\ s.ackt = ReadAnswer(s.index, s.readSize)
    /\ s.client = "owner" /\ s.told = "read" => s.acks = ReadAnswers(s.readSize, s.readSize)

I2cInv(s) == DOMAIN s = I2cFields /\ Asking(s) /\ Calling(s) /\ Reading(s)

LEMMA AnswersAppend ==
    ASSUME NEW n \in Nat, NEW r
    PROVE  Append(ReadAnswers(n, r), ReadAnswer(n + 1, r)) = ReadAnswers(n + 1, r)
<1> DEFINE a == ReadAnswers(n, r)
           x == ReadAnswer(n + 1, r)
           S == {"Ack", "Nack"}
<1>1. x \in S /\ \A i \in 1 .. n : ReadAnswer(i, r) \in S
  BY DEF ReadAnswer
<1>2. a \in [1 .. n -> S]
  BY <1>1, ZenonT(120) DEF ReadAnswers
<1>3. a \in Seq(S) /\ Len(a) = n
  BY <1>2
<1>4. /\ Append(a, x) \in Seq(S) /\ Len(Append(a, x)) = n + 1
      /\ \A i \in 1 .. n : Append(a, x)[i] = a[i]
      /\ Append(a, x)[n + 1] = x
  BY <1>1, <1>3, AppendProperties
<1>5. \A i \in 1 .. n : a[i] = ReadAnswer(i, r)
  BY DEF ReadAnswers
<1> HIDE DEF a, x
<1>6. Append(a, x) = [i \in 1 .. n + 1 |-> Append(a, x)[i]]
  <2>1. Append(a, x) \in [1 .. n + 1 -> S]
    BY <1>4, LenProperties
  <2> QED BY <2>1, ZenonT(120)
<1>7. \A i \in 1 .. n + 1 : Append(a, x)[i] = ReadAnswer(i, r)
  <2> SUFFICES ASSUME NEW i \in 1 .. n + 1
               PROVE  Append(a, x)[i] = ReadAnswer(i, r)
    OBVIOUS
  <2>1. CASE i = n + 1
    BY <1>4, <2>1 DEF x
  <2>2. CASE i # n + 1
    <3>1. i \in 1 .. n
      BY <2>2
    <3> QED BY <1>4, <1>5, <3>1
  <2> QED BY <2>1, <2>2
<1>8. Append(a, x) = ReadAnswers(n + 1, r)
  BY <1>6, <1>7, ZenonT(120) DEF ReadAnswers
<1> QED BY <1>8 DEF a, x

\* The end of an operation, and what the caller is told of.
LEMMA NotifyFields ==
    ASSUME NEW s, DOMAIN s = I2cFields, NEW kind
    PROVE  LET t == NotifyCaller(s, kind) IN
           /\ DOMAIN t = I2cFields /\ t.op = "Idle" /\ t.told = kind
           /\ kind = "error" /\ s.request = "none" => t.client = "failed"
           /\ kind = "error" /\ s.request # "none" => t.client = s.client
           /\ kind = "condition" /\ s.busBusy => t.client = "started"
           /\ kind = "condition" /\ ~s.busBusy => t.client = "free"
           /\ kind \in {"write", "read", "readByte"} => t.client = "owner"
           /\ t.callback = s.callback /\ t.index = s.index /\ t.readSize = s.readSize
           /\ t.busBusy = s.busBusy /\ t.rie = s.rie /\ t.tie = s.tie /\ t.ackt = s.ackt
           /\ t.wire = s.wire /\ t.request = s.request /\ t.acks = s.acks
<1> DEFINE i == [s EXCEPT !.op = "Idle"]
           c == CASE kind = "error" -> IF i.request = "none" THEN "failed" ELSE i.client
                  [] kind = "condition" -> IF i.busBusy THEN "started" ELSE "free"
                  [] OTHER -> "owner"
           t == NotifyCaller(s, kind)
<1>1. /\ DOMAIN i = I2cFields /\ i.op = "Idle" /\ i.busBusy = s.busBusy /\ i.client = s.client
      /\ i.callback = s.callback /\ i.index = s.index /\ i.readSize = s.readSize
      /\ i.rie = s.rie /\ i.tie = s.tie /\ i.ackt = s.ackt
      /\ i.wire = s.wire /\ i.request = s.request /\ i.acks = s.acks
  BY SMTT(60) DEF I2cFields
<1>2. t = [i EXCEPT !.told = kind, !.client = c]
  BY DEF NotifyCaller, CallerHears
<1>3. /\ kind = "error" /\ s.request = "none" => c = "failed"
      /\ kind = "error" /\ s.request # "none" => c = s.client
  BY <1>1
<1>4. kind = "condition" /\ s.busBusy => c = "started"
  <2>1. kind = "condition" => kind # "error"
    OBVIOUS
  <2> QED BY <1>1, <2>1
<1>5. kind = "condition" /\ ~s.busBusy => c = "free"
  <2>1. kind = "condition" => kind # "error"
    OBVIOUS
  <2> QED BY <1>1, <2>1
<1>6. kind \in {"write", "read", "readByte"} => c = "owner"
  <2>1. kind \in {"write", "read", "readByte"} => kind # "error" /\ kind # "condition"
    OBVIOUS
  <2> QED BY <2>1
<1> HIDE DEF i, c, t
<1>7. /\ DOMAIN t = I2cFields /\ t.op = i.op /\ t.told = kind /\ t.client = c
      /\ t.callback = i.callback /\ t.index = i.index /\ t.readSize = i.readSize
      /\ t.busBusy = i.busBusy /\ t.rie = i.rie /\ t.tie = i.tie /\ t.ackt = i.ackt
      /\ t.wire = i.wire /\ t.request = i.request /\ t.acks = i.acks
  BY <1>1, <1>2, SMTT(60) DEF I2cFields
<1>8. /\ DOMAIN t = I2cFields /\ t.op = "Idle" /\ t.told = kind
      /\ kind = "error" /\ s.request = "none" => t.client = "failed"
      /\ kind = "error" /\ s.request # "none" => t.client = s.client
      /\ kind = "condition" /\ s.busBusy => t.client = "started"
      /\ kind = "condition" /\ ~s.busBusy => t.client = "free"
      /\ kind \in {"write", "read", "readByte"} => t.client = "owner"
  BY <1>1, <1>3, <1>4, <1>5, <1>6, <1>7, ZenonT(120)
<1>9. /\ t.callback = s.callback /\ t.index = s.index /\ t.readSize = s.readSize
      /\ t.busBusy = s.busBusy /\ t.rie = s.rie /\ t.tie = s.tie /\ t.ackt = s.ackt
      /\ t.wire = s.wire /\ t.request = s.request /\ t.acks = s.acks
  BY <1>1, <1>7, ZenonT(120)
<1> QED BY <1>8, <1>9, ZenonT(120) DEF t

LEMMA I2cTransferStep ==
    ASSUME BoardDriversAssumption, I2cInv(st), I2cTransfer
    PROVE  I2cInv(st')
<1>1. DOMAIN st = I2cFields /\ Asking(st) /\ Calling(st) /\ Reading(st)
  BY DEF I2cInv
<1>2. st.client \in {"started", "owner"}
  BY ZenonT(120) DEF I2cTransfer
<1>3. st.tie /\ st.busBusy /\ st.request = "none" /\ (st.client = "started" => ~st.rie)
  BY <1>1, <1>2, SMTT(60) DEF Asking
\* What all four have in common.
<1>4. ASSUME /\ DOMAIN st' = I2cFields /\ st'.client = "waiting" /\ st'.wire = "out"
             /\ st'.busBusy = st.busBusy /\ st'.rie = st.rie /\ st'.tie = st.tie
             /\ st'.request = st.request
             /\ \/ st'.op \in {"Write", "WriteByte"} /\ st'.callback = "write"
                \/ st'.op = "ReadFirstByte" /\ st'.callback = "read"
                \/ st'.op = "ReadByte" /\ st'.callback = "readByte",
             Reading(st')
      PROVE  I2cInv(st')
  <2>1. Asking(st')
    BY <1>3, <1>4, SMTT(60) DEF Asking, I2cTransfers
  <2>2. Calling(st')
    BY <1>4, SMTT(60) DEF Calling, I2cTransfers
  <2> QED BY <1>4, <2>1, <2>2 DEF I2cInv
<1>5. CASE \E n \in WriteSizes : st' = I2c_Write(st, n)
  <2>1. PICK n \in WriteSizes : st' = I2c_Write(st, n)
    BY <1>5
  <2> DEFINE a == I2cAsked(st, "Write", "write")
  <2>2. /\ DOMAIN a = I2cFields
        /\ a.op = "Write" /\ a.callback = "write" /\ a.client = "waiting"
        /\ a.busBusy = st.busBusy /\ a.rie = st.rie /\ a.tie = st.tie /\ a.request = st.request
    BY <1>1, SMTT(60) DEF a, I2cAsked, I2cFields
  <2>3. st' = [[a EXCEPT !.writeSize = n, !.index = 0, !.dataHasBeenRead = FALSE] EXCEPT !.wire = "out"]
    BY <2>1 DEF I2c_Write, WriteByteToTransmitRegister
  <2> HIDE DEF a
  <2>4. /\ DOMAIN st' = I2cFields /\ st'.client = "waiting" /\ st'.wire = "out"
        /\ st'.busBusy = st.busBusy /\ st'.rie = st.rie /\ st'.tie = st.tie
        /\ st'.request = st.request /\ st'.op = "Write" /\ st'.callback = "write"
    BY <2>2, <2>3, SMTT(60) DEF I2cFields
  <2>5. Reading(st')
    BY <2>4, SMTT(60) DEF Reading
  <2> QED BY <1>4, <2>4, <2>5
<1>6. CASE st.client = "started" /\ \E n \in ReadSizes : st' = I2c_Read(st, n)
  <2>1. PICK n \in ReadSizes : st' = I2c_Read(st, n)
    BY <1>6
  <2> DEFINE a == I2cAsked(st, "ReadFirstByte", "read")
  <2>2. /\ DOMAIN a = I2cFields
        /\ a.op = "ReadFirstByte" /\ a.callback = "read" /\ a.client = "waiting"
        /\ a.busBusy = st.busBusy /\ a.rie = st.rie /\ a.tie = st.tie /\ a.request = st.request
    BY <1>1, SMTT(60) DEF a, I2cAsked, I2cFields
  <2>3. st' = [[a EXCEPT !.readSize = n, !.index = 0, !.dataHasBeenRead = FALSE, !.acks = <<>>]
               EXCEPT !.wire = "out"]
    BY <2>1 DEF I2c_Read, WriteByteToTransmitRegister
  <2> HIDE DEF a
  <2>4. /\ DOMAIN st' = I2cFields /\ st'.client = "waiting" /\ st'.wire = "out"
        /\ st'.busBusy = st.busBusy /\ st'.rie = st.rie /\ st'.tie = st.tie
        /\ st'.request = st.request /\ st'.op = "ReadFirstByte" /\ st'.callback = "read"
        /\ st'.index = 0 /\ st'.acks = <<>> /\ st'.readSize = n
    BY <2>2, <2>3, SMTT(60) DEF I2cFields
  <2>5. n \in Nat /\ n > 1
    BY DEF BoardDriversAssumption
  <2>6. ~st'.rie
    BY <1>3, <1>6, <2>4, ZenonT(120)
  <2>7. Reading(st')
    BY <2>4, <2>5, <2>6, SMTT(60) DEF Reading
  <2> QED BY <1>4, <2>4, <2>7
<1>7. CASE st' = I2c_ReadByte(st)
  <2> DEFINE a == I2cAsked(st, "ReadByte", "readByte")
  <2>2. /\ DOMAIN a = I2cFields
        /\ a.op = "ReadByte" /\ a.callback = "readByte" /\ a.client = "waiting"
        /\ a.busBusy = st.busBusy /\ a.rie = st.rie /\ a.tie = st.tie /\ a.request = st.request
    BY <1>1, SMTT(60) DEF a, I2cAsked, I2cFields
  <2>3. st' = [[a EXCEPT !.readSize = 0, !.index = 0, !.dataHasBeenRead = FALSE, !.acks = <<>>]
               EXCEPT !.wire = "out"]
    BY <1>7 DEF I2c_ReadByte, WriteByteToTransmitRegister
  <2> HIDE DEF a
  <2>4. /\ DOMAIN st' = I2cFields /\ st'.client = "waiting" /\ st'.wire = "out"
        /\ st'.busBusy = st.busBusy /\ st'.rie = st.rie /\ st'.tie = st.tie
        /\ st'.request = st.request /\ st'.op = "ReadByte" /\ st'.callback = "readByte"
    BY <2>2, <2>3, SMTT(60) DEF I2cFields
  <2>5. Reading(st')
    BY <2>4, SMTT(60) DEF Reading
  <2> QED BY <1>4, <2>4, <2>5
<1>8. CASE st' = I2c_WriteByte(st)
  <2> DEFINE a == I2cAsked(st, "WriteByte", "write")
  <2>2. /\ DOMAIN a = I2cFields
        /\ a.op = "WriteByte" /\ a.callback = "write" /\ a.client = "waiting"
        /\ a.busBusy = st.busBusy /\ a.rie = st.rie /\ a.tie = st.tie /\ a.request = st.request
    BY <1>1, SMTT(60) DEF a, I2cAsked, I2cFields
  <2>3. st' = [[a EXCEPT !.writeSize = 0, !.index = 0] EXCEPT !.wire = "out"]
    BY <1>8 DEF I2c_WriteByte, WriteByteToTransmitRegister
  <2> HIDE DEF a
  <2>4. /\ DOMAIN st' = I2cFields /\ st'.client = "waiting" /\ st'.wire = "out"
        /\ st'.busBusy = st.busBusy /\ st'.rie = st.rie /\ st'.tie = st.tie
        /\ st'.request = st.request /\ st'.op = "WriteByte" /\ st'.callback = "write"
    BY <2>2, <2>3, SMTT(60) DEF I2cFields
  <2>5. Reading(st')
    BY <2>4, SMTT(60) DEF Reading
  <2> QED BY <1>4, <2>4, <2>5
<1> QED BY <1>5, <1>6, <1>7, <1>8, ZenonT(120) DEF I2cTransfer

\* What generates a condition: the caller waits for it, and a start makes the
\* bus busy.
LEMMA ConditionFields ==
    ASSUME NEW s, DOMAIN s = I2cFields
    PROVE  LET t == GenerateCondition(s) IN
           /\ DOMAIN t = I2cFields /\ t.request # "none"
           /\ t.op = s.op /\ t.callback = s.callback /\ t.client = s.client
           /\ t.busBusy = s.busBusy /\ t.tie = s.tie /\ t.told = s.told /\ t.wire = s.wire
<1> DEFINE t == GenerateCondition(s)
<1>1. CASE s.op = "Start"
  <2>1. t = [s EXCEPT !.rie = FALSE, !.request = "start"]
    BY <1>1 DEF GenerateCondition
  <2> HIDE DEF t
  <2>2. /\ DOMAIN t = I2cFields /\ t.request # "none"
        /\ t.op = s.op /\ t.callback = s.callback /\ t.client = s.client
        /\ t.busBusy = s.busBusy /\ t.tie = s.tie /\ t.told = s.told /\ t.wire = s.wire
    BY <2>1, SMTT(60) DEF I2cFields
  <2> QED BY <2>2 DEF t
<1>2. CASE s.op = "Restart"
  <2>0. s.op # "Start"
    BY <1>2
  <2>1. t = [s EXCEPT !.request = "restart"]
    BY <1>2, <2>0 DEF GenerateCondition
  <2> HIDE DEF t
  <2>2. /\ DOMAIN t = I2cFields /\ t.request # "none"
        /\ t.op = s.op /\ t.callback = s.callback /\ t.client = s.client
        /\ t.busBusy = s.busBusy /\ t.tie = s.tie /\ t.told = s.told /\ t.wire = s.wire
    BY <2>1, SMTT(60) DEF I2cFields
  <2> QED BY <2>2 DEF t
<1>3. CASE s.op # "Start" /\ s.op # "Restart"
  <2>1. t = [s EXCEPT !.ackt = "Nack", !.request = "stop"]
    BY <1>3 DEF GenerateCondition
  <2> HIDE DEF t
  <2>2. /\ DOMAIN t = I2cFields /\ t.request # "none"
        /\ t.op = s.op /\ t.callback = s.callback /\ t.client = s.client
        /\ t.busBusy = s.busBusy /\ t.tie = s.tie /\ t.told = s.told /\ t.wire = s.wire
    BY <2>1, SMTT(60) DEF I2cFields
  <2> QED BY <2>2 DEF t
<1> QED BY <1>1, <1>2, <1>3

LEMMA I2cAskedConditionStep ==
    ASSUME I2cInv(st), I2cCondition \/ I2cCancel
    PROVE  I2cInv(st')
<1>1. DOMAIN st = I2cFields /\ Asking(st) /\ Calling(st) /\ Reading(st)
  BY DEF I2cInv
\* What all four have in common.
<1>2. ASSUME NEW op \in {"Start", "Restart", "Stop", "Idle"},
             NEW a, DOMAIN a = I2cFields, a.op = op, a.callback = "condition", a.client = "waiting",
             op \in {"Start", "Restart"} => a.busBusy, st' = GenerateCondition(a)
      PROVE  I2cInv(st')
  <2>1. /\ DOMAIN st' = I2cFields /\ st'.request # "none" /\ st'.op = op
        /\ st'.callback = "condition" /\ st'.client = "waiting"
        /\ op \in {"Start", "Restart"} => st'.busBusy
    BY <1>2, ConditionFields, ZenonT(120)
  <2>2. Asking(st')
    BY <2>1, SMTT(60) DEF Asking, I2cTransfers
  <2>3. Calling(st')
    BY <2>1, SMTT(60) DEF Calling, I2cTransfers
  <2>4. Reading(st')
    BY <2>1, SMTT(60) DEF Reading
  <2> QED BY <2>1, <2>2, <2>3, <2>4, SMTT(60) DEF I2cInv
<1>3. CASE st' = I2c_Start(st)
  <2> DEFINE a == [I2cAsked(st, "Start", "condition") EXCEPT !.busBusy = TRUE]
  <2>1. /\ DOMAIN a = I2cFields /\ a.op = "Start" /\ a.callback = "condition"
        /\ a.client = "waiting" /\ a.busBusy
    BY <1>1, SMTT(60) DEF I2cAsked, I2cFields
  <2>2. st' = GenerateCondition(a)
    BY <1>3 DEF I2c_Start
  <2> HIDE DEF a
  <2> QED BY <1>2, <2>1, <2>2, SMTT(60)
<1>4. CASE st.client \in {"started", "owner"} /\ st' = I2c_Restart(st)
  <2> DEFINE a == I2cAsked(st, "Restart", "condition")
  <2>0. st.busBusy
    BY <1>1, <1>4, SMTT(60) DEF Asking
  <2>1. /\ DOMAIN a = I2cFields /\ a.op = "Restart" /\ a.callback = "condition"
        /\ a.client = "waiting" /\ a.busBusy = st.busBusy
    BY <1>1, SMTT(60) DEF I2cAsked, I2cFields
  <2>2. st' = GenerateCondition(a)
    BY <1>4 DEF I2c_Restart
  <2> HIDE DEF a
  <2>3. a.busBusy
    BY <2>0, <2>1, ZenonT(120)
  <2> QED BY <1>2, <2>1, <2>2, <2>3
<1>5. CASE st' = I2c_Stop(st)
  <2> DEFINE a == I2cAsked(st, "Stop", "condition")
  <2>1. /\ DOMAIN a = I2cFields /\ a.op = "Stop" /\ a.callback = "condition"
        /\ a.client = "waiting"
    BY <1>1, SMTT(60) DEF I2cAsked, I2cFields
  <2>2. st' = GenerateCondition(a)
    BY <1>5 DEF I2c_Stop
  <2> HIDE DEF a
  <2>3. "Stop" \notin {"Start", "Restart"}
    OBVIOUS
  <2> QED BY <1>2, <2>1, <2>2, <2>3
<1>6. CASE st' = I2c_Cancel(st)
  <2> DEFINE a == I2cAsked(st, "Idle", "condition")
  <2>1. /\ DOMAIN a = I2cFields /\ a.op = "Idle" /\ a.callback = "condition"
        /\ a.client = "waiting"
    BY <1>1, SMTT(60) DEF I2cAsked, I2cFields
  <2>2. st' = GenerateCondition(a)
    BY <1>6 DEF I2c_Cancel
  <2> HIDE DEF a
  <2>3. "Idle" \notin {"Start", "Restart"}
    OBVIOUS
  <2> QED BY <1>2, <2>1, <2>2, <2>3
<1> QED BY <1>3, <1>4, <1>5, <1>6, ZenonT(120) DEF I2cCondition, I2cCancel

\* An operation that ends without a condition, in error or as it was asked.
LEMMA I2cTransferEnds ==
    ASSUME NEW s, DOMAIN s = I2cFields, NEW t, NEW kind,
           s.tie, s.busBusy, s.request = "none", s.wire # "out",
           t = NotifyCaller(s, kind),
           \/ kind = "error"
           \/ kind \in {"write", "read", "readByte"} /\ kind = s.callback,
           kind = "read" => s.acks = ReadAnswers(s.readSize, s.readSize)
    PROVE  I2cInv(t)
<1>1. /\ DOMAIN t = I2cFields /\ t.op = "Idle" /\ t.told = kind
      /\ kind = "error" => t.client = "failed"
      /\ kind \in {"write", "read", "readByte"} => t.client = "owner"
      /\ t.callback = s.callback /\ t.readSize = s.readSize
      /\ t.busBusy = s.busBusy /\ t.tie = s.tie /\ t.wire = s.wire
      /\ t.request = s.request /\ t.acks = s.acks
  <2>1. /\ kind = "error" => NotifyCaller(s, kind).client = "failed"
        /\ kind \in {"write", "read", "readByte"} => NotifyCaller(s, kind).client = "owner"
    BY NotifyFields, SMTT(60)
  <2>2. /\ DOMAIN NotifyCaller(s, kind) = I2cFields
        /\ NotifyCaller(s, kind).op = "Idle" /\ NotifyCaller(s, kind).told = kind
        /\ NotifyCaller(s, kind).callback = s.callback
        /\ NotifyCaller(s, kind).readSize = s.readSize
    BY NotifyFields, SMTT(60)
  <2>3. /\ NotifyCaller(s, kind).busBusy = s.busBusy
        /\ NotifyCaller(s, kind).tie = s.tie /\ NotifyCaller(s, kind).wire = s.wire
        /\ NotifyCaller(s, kind).request = s.request
        /\ NotifyCaller(s, kind).acks = s.acks
    BY NotifyFields, ZenonT(120)
  <2> QED BY <2>1, <2>2, <2>3, ZenonT(120)
<1>2. kind = "error" => kind \notin {"write", "read", "readByte"}
  OBVIOUS
<1>3. Asking(t)
  BY <1>1, SMTT(60) DEF Asking, I2cTransfers
<1>4. Calling(t)
  BY <1>1, SMTT(60) DEF Calling, I2cTransfers
<1>5. Reading(t)
  BY <1>1, SMTT(60) DEF Reading
<1> QED BY <1>1, <1>3, <1>4, <1>5 DEF I2cInv

\* A transfer belongs to a caller who waits.
LEMMA TransfersWait ==
    ASSUME I2cInv(st), st.op \in I2cTransfers
    PROVE  /\ st.client = "waiting" /\ st.wire # "none" /\ st.tie /\ st.request = "none"
           /\ st.busBusy
           /\ st.op \in {"Write", "WriteByte"} => st.callback = "write"
           /\ st.op \in {"ReadFirstByte", "ReadAdditionalBytes"} => st.callback = "read"
           /\ st.op = "ReadByte" => st.callback = "readByte"
<1>1. st.client = "waiting"
  BY SMTT(60) DEF I2cInv, Asking, I2cTransfers
<1>2. st.wire # "none" /\ st.tie /\ st.request = "none" /\ st.busBusy
  BY <1>1, ZenonT(120) DEF I2cInv, Asking
<1>3. /\ st.op \in {"Write", "WriteByte"} => st.callback = "write"
      /\ st.op \in {"ReadFirstByte", "ReadAdditionalBytes"} => st.callback = "read"
      /\ st.op = "ReadByte" => st.callback = "readByte"
  BY <1>1, ZenonT(120) DEF I2cInv, Calling
<1> QED BY <1>1, <1>2, <1>3

\* A transfer that goes on: what is waited for stays the same.
LEMMA I2cTransferGoesOn ==
    ASSUME I2cInv(st), st.op \in I2cTransfers,
           DOMAIN st' = I2cFields, st'.client = st.client, st'.wire # "none", st'.tie = st.tie,
           st'.busBusy = st.busBusy, st'.request = st.request, st'.callback = st.callback,
           \/ st'.op = st.op
           \/ st.op = "ReadFirstByte" /\ st'.op = "ReadAdditionalBytes",
           Reading(st')
    PROVE  I2cInv(st')
<1>1. /\ st.client = "waiting" /\ st.wire # "none" /\ st.tie /\ st.request = "none"
      /\ st.busBusy
      /\ st.op \in {"Write", "WriteByte"} => st.callback = "write"
      /\ st.op \in {"ReadFirstByte", "ReadAdditionalBytes"} => st.callback = "read"
      /\ st.op = "ReadByte" => st.callback = "readByte"
  BY TransfersWait
<1>2. st'.op \in I2cTransfers
  BY DEF I2cTransfers
<1>3. Asking(st')
  BY <1>1, <1>2, SMTT(60) DEF Asking, I2cTransfers
<1>4. Calling(st')
  BY <1>1, <1>2, SMTT(60) DEF Calling, I2cTransfers
<1> QED BY <1>3, <1>4 DEF I2cInv

\* An interrupt that finds no transfer changes the wire alone.
LEMMA I2cWireAlone ==
    ASSUME I2cInv(st), st.op \notin I2cTransfers, NEW w, w # "out", st' = [st EXCEPT !.wire = w]
    PROVE  I2cInv(st')
<1>1. DOMAIN st = I2cFields /\ Asking(st) /\ Calling(st) /\ Reading(st)
  BY DEF I2cInv
<1>2. /\ DOMAIN st' = I2cFields
      /\ st'.op = st.op /\ st'.callback = st.callback /\ st'.client = st.client /\ st'.wire = w
      /\ st'.index = st.index /\ st'.readSize = st.readSize /\ st'.busBusy = st.busBusy
      /\ st'.rie = st.rie /\ st'.tie = st.tie /\ st'.ackt = st.ackt
      /\ st'.request = st.request /\ st'.told = st.told /\ st'.acks = st.acks
  BY <1>1, SMTT(60) DEF I2cFields
<1>3. Asking(st')
  BY <1>1, <1>2, ZenonT(120) DEF Asking
<1>4. Calling(st')
  BY <1>1, <1>2, ZenonT(120) DEF Calling
<1>5. st.op # "ReadFirstByte" /\ st.op # "ReadAdditionalBytes"
  BY DEF I2cTransfers
<1>6. Reading(st')
  BY <1>1, <1>2, <1>5, ZenonT(120) DEF Reading
<1> QED BY <1>2, <1>3, <1>4, <1>6 DEF I2cInv

LEMMA ReceivedByteStep ==
    ASSUME I2cInv(st), SCI0_RXI0
    PROVE  I2cInv(st')
<1> DEFINE s == [st EXCEPT !.wire = "in"]
<1>1. DOMAIN st = I2cFields /\ Asking(st) /\ Calling(st) /\ Reading(st)
  BY DEF I2cInv
<1>2. /\ DOMAIN s = I2cFields /\ s.wire = "in"
      /\ s.op = st.op /\ s.callback = st.callback /\ s.client = st.client
      /\ s.index = st.index /\ s.readSize = st.readSize /\ s.busBusy = st.busBusy
      /\ s.rie = st.rie /\ s.tie = st.tie /\ s.ackt = st.ackt
      /\ s.request = st.request /\ s.told = st.told /\ s.acks = st.acks
  BY <1>1, SMTT(60) DEF I2cFields
<1>3. /\ st.wire = "out" /\ st.rie
      /\ \/ st' = NotifyCaller(s, "error")
         \/ st' = ByteIsRead(s)
  BY ZenonT(120) DEF SCI0_RXI0
<1>4. CASE st.op \notin I2cTransfers /\ st' = ByteIsRead(s)
  <2>1. ~(s.op = "ReadByte") /\ ~(s.op \in {"ReadFirstByte", "ReadAdditionalBytes"})
    BY <1>2, <1>4, SMTT(60) DEF I2cTransfers
  <2>2. ByteIsRead(s) = s
    BY <2>1, ZenonT(120) DEF ByteIsRead
  <2>3. st' = [st EXCEPT !.wire = "in"]
    BY <1>4, <2>2, ZenonT(120)
  <2>4. "in" # "out"
    OBVIOUS
  <2> QED BY <1>4, <2>3, <2>4, I2cWireAlone
<1> HIDE DEF s
\* An overrun behind a cancelled read: the caller waits for its stop as before.
<1>7. CASE st.op \notin I2cTransfers /\ st' = NotifyCaller(s, "error")
  <2>1. st.client = "waiting"
    BY <1>1, <1>3, ZenonT(120) DEF Asking
  <2>2. st.request # "none" /\ st.callback = "condition"
    BY <1>1, <1>7, <2>1, ZenonT(120) DEF Asking, Calling
  <2>3. s.request # "none"
    BY <1>2, <2>2
  <2>4. /\ DOMAIN st' = I2cFields /\ st'.op = "Idle" /\ st'.client = s.client
        /\ st'.callback = s.callback /\ st'.request = s.request
    <3>1. /\ DOMAIN NotifyCaller(s, "error") = I2cFields
          /\ NotifyCaller(s, "error").op = "Idle"
          /\ NotifyCaller(s, "error").callback = s.callback
          /\ NotifyCaller(s, "error").request = s.request
      BY <1>2, NotifyFields, SMTT(60)
    <3>2. NotifyCaller(s, "error").client = s.client
      BY <1>2, <2>3, NotifyFields, SMTT(60)
    <3> QED BY <1>7, <3>1, <3>2, ZenonT(120)
  <2>5. /\ st'.client = "waiting" /\ st'.request # "none" /\ st'.callback = "condition"
    BY <1>2, <2>1, <2>2, <2>4, ZenonT(120)
  <2>6. Asking(st')
    BY <2>4, <2>5, SMTT(60) DEF Asking, I2cTransfers
  <2>7. Calling(st')
    BY <2>4, <2>5, SMTT(60) DEF Calling, I2cTransfers
  <2>8. Reading(st')
    BY <2>4, <2>5, SMTT(60) DEF Reading
  <2> QED BY <2>4, <2>6, <2>7, <2>8 DEF I2cInv
<1>5. CASE st.op \in I2cTransfers /\ st' = NotifyCaller(s, "error")
  <2>1. st.tie /\ st.request = "none" /\ st.busBusy
    BY <1>5, TransfersWait
  <2>2. s.tie /\ s.request = "none" /\ s.busBusy
    BY <1>2, <2>1, ZenonT(120)
  <2>3. s.wire # "out"
    BY <1>2
  <2> QED BY <1>2, <1>5, <2>2, <2>3, I2cTransferEnds
<1>6. CASE st.op \in I2cTransfers /\ st' = ByteIsRead(s)
  <2>0. "in" # "none" /\ "in" # "out"
    OBVIOUS
  <2>1. CASE st.op = "ReadByte"
    <3>1. s.op = "ReadByte"
      BY <1>2, <2>1
    <3>2. st' = [s EXCEPT !.dataHasBeenRead = TRUE, !.acks = Append(s.acks, s.ackt)]
      BY <1>6, <3>1 DEF ByteIsRead
    <3>3. /\ DOMAIN st' = I2cFields /\ st'.wire = s.wire
          /\ st'.op = s.op /\ st'.callback = s.callback /\ st'.client = s.client
          /\ st'.busBusy = s.busBusy /\ st'.tie = s.tie /\ st'.request = s.request
      BY <1>2, <3>2, SMTT(60) DEF I2cFields
    <3>4. /\ DOMAIN st' = I2cFields /\ st'.client = st.client /\ st'.wire # "none"
          /\ st'.tie = st.tie
          /\ st'.busBusy = st.busBusy /\ st'.request = st.request /\ st'.callback = st.callback
          /\ st'.op = st.op
      BY <1>2, <2>0, <3>3, ZenonT(120)
    <3>5. st.client = "waiting"
      BY <1>6, TransfersWait
    <3>6. Reading(st')
      BY <2>1, <3>4, <3>5, SMTT(60) DEF Reading
    <3> QED BY <1>6, <3>4, <3>6, I2cTransferGoesOn
  <2>2. CASE st.op = "ReadAdditionalBytes"
    <3>1. s.op = "ReadAdditionalBytes" /\ s.op # "ReadByte"
      BY <1>2, <2>2
    <3>2. st' = [s EXCEPT !.dataHasBeenRead = TRUE, !.index = s.index + 1, !.acks = Append(s.acks, s.ackt)]
      BY <1>6, <3>1 DEF ByteIsRead
    <3>3. /\ DOMAIN st' = I2cFields /\ st'.wire = s.wire
          /\ st'.op = s.op /\ st'.callback = s.callback /\ st'.client = s.client
          /\ st'.busBusy = s.busBusy /\ st'.tie = s.tie /\ st'.request = s.request
          /\ st'.index = s.index + 1 /\ st'.acks = Append(s.acks, s.ackt)
          /\ st'.readSize = s.readSize /\ st'.rie = s.rie /\ st'.ackt = s.ackt
      BY <1>2, <3>2, SMTT(60) DEF I2cFields
    <3>4. /\ DOMAIN st' = I2cFields /\ st'.client = st.client /\ st'.wire # "none"
          /\ st'.tie = st.tie
          /\ st'.busBusy = st.busBusy /\ st'.request = st.request /\ st'.callback = st.callback
          /\ st'.op = st.op
      BY <1>2, <2>0, <3>3, ZenonT(120)
    <3>5. /\ st.rie /\ st.acks = ReadAnswers(st.index, st.readSize)
          /\ st.readSize \in Nat /\ st.index \in Nat
          /\ st.index < st.readSize /\ st.ackt = ReadAnswer(st.index + 1, st.readSize)
      BY <1>1, <1>3, <2>2, ZenonT(120) DEF Reading
    <3>6. Append(st.acks, st.ackt) = ReadAnswers(st.index + 1, st.readSize)
      BY <3>5, AnswersAppend, ZenonT(120)
    <3>7. /\ st'.index = st.index + 1 /\ st'.acks = ReadAnswers(st'.index, st'.readSize)
          /\ st'.rie /\ st'.readSize = st.readSize /\ st'.ackt = ReadAnswer(st'.index, st'.readSize)
          /\ st'.wire = "in"
      BY <1>2, <3>3, <3>5, <3>6, ZenonT(120)
    <3>8. st'.index \in Nat /\ st'.readSize \in Nat /\ st'.index <= st'.readSize
      BY <3>5, <3>7
    <3>9. st'.op = "ReadAdditionalBytes" /\ st'.client = "waiting"
      <4>1. st.client = "waiting"
        BY <1>6, TransfersWait
      <4> QED BY <2>2, <3>4, <4>1
    <3>10. Reading(st')
      <4>1. st'.op # "ReadFirstByte" /\ st'.client # "owner" /\ st'.wire # "out"
        BY <3>7, <3>9
      <4> QED BY <3>7, <3>8, <4>1, ZenonT(120) DEF Reading
    <3> QED BY <1>6, <3>4, <3>10, I2cTransferGoesOn
  <2>3. CASE st.op = "ReadFirstByte"
    BY <1>1, <1>3, <2>3, ZenonT(120) DEF Reading
  <2>4. CASE st.op \in {"Write", "WriteByte"}
    <3>1. ~(s.op = "ReadByte") /\ ~(s.op \in {"ReadFirstByte", "ReadAdditionalBytes"})
      BY <1>2, <2>4, SMTT(60)
    <3>2. st' = s
      BY <1>6, <3>1, ZenonT(120) DEF ByteIsRead
    <3>3. /\ DOMAIN st' = I2cFields /\ st'.client = st.client /\ st'.wire # "none"
          /\ st'.tie = st.tie
          /\ st'.busBusy = st.busBusy /\ st'.request = st.request /\ st'.callback = st.callback
          /\ st'.op = st.op
      BY <1>2, <2>0, <3>2, ZenonT(120)
    <3>4. st.client = "waiting"
      BY <1>6, TransfersWait
    <3>5. Reading(st')
      BY <2>4, <3>3, <3>4, SMTT(60) DEF Reading
    <3> QED BY <1>6, <3>3, <3>5, I2cTransferGoesOn
  <2> QED BY <1>6, <2>1, <2>2, <2>3, <2>4, ZenonT(120) DEF I2cTransfers
<1> QED BY <1>3, <1>4, <1>5, <1>6, <1>7, ZenonT(120)

LEMMA TransmittedByteStep ==
    ASSUME I2cInv(st), SCI0_TXI0
    PROVE  I2cInv(st')
<1> DEFINE s == [st EXCEPT !.wire = "none"]
<1>1. DOMAIN st = I2cFields /\ Reading(st)
  BY DEF I2cInv
<1>2. /\ DOMAIN s = I2cFields /\ s.wire = "none"
      /\ s.op = st.op /\ s.callback = st.callback /\ s.client = st.client
      /\ s.index = st.index /\ s.readSize = st.readSize /\ s.busBusy = st.busBusy
      /\ s.rie = st.rie /\ s.tie = st.tie /\ s.ackt = st.ackt
      /\ s.request = st.request /\ s.told = st.told /\ s.acks = st.acks
  BY <1>1, SMTT(60) DEF I2cFields
<1>3. PICK ack \in BOOLEAN : st' = AfterTransmission(s, ack)
  BY ZenonT(120) DEF SCI0_TXI0
<1>4. st.wire = "in" \/ (st.wire = "out" /\ ~st.rie)
  BY ZenonT(120) DEF SCI0_TXI0
<1>5. CASE st.op \notin I2cTransfers
  <2>1. /\ ~(s.op \in {"Write", "WriteByte"}) /\ ~(s.op = "ReadFirstByte")
        /\ ~(s.op = "ReadAdditionalBytes") /\ ~(s.op = "ReadByte")
    BY <1>2, <1>5, SMTT(60) DEF I2cTransfers
  <2>2. AfterTransmission(s, ack) = s
    BY <2>1, ZenonT(120) DEF AfterTransmission
  <2>3. st' = [st EXCEPT !.wire = "none"]
    BY <1>3, <2>2, ZenonT(120)
  <2>4. "none" # "out"
    OBVIOUS
  <2> QED BY <1>5, <2>3, <2>4, I2cWireAlone
<1> HIDE DEF s
<1> SUFFICES ASSUME st.op \in I2cTransfers
             PROVE  I2cInv(st')
  BY <1>5
<1>6. /\ st.client = "waiting" /\ st.tie /\ st.request = "none" /\ st.busBusy
      /\ st.op \in {"Write", "WriteByte"} => st.callback = "write"
      /\ st.op \in {"ReadFirstByte", "ReadAdditionalBytes"} => st.callback = "read"
      /\ st.op = "ReadByte" => st.callback = "readByte"
  BY TransfersWait
<1>7. s.tie /\ s.request = "none" /\ s.busBusy /\ s.wire # "out"
  <2>1. s.wire # "out"
    BY <1>2
  <2> QED BY <1>2, <1>6, <2>1, ZenonT(120)
\* The two ways a transfer may end.
<1>8. ASSUME st' = NotifyCaller(s, "error")
      PROVE  I2cInv(st')
  BY <1>2, <1>7, <1>8, I2cTransferEnds
<1>9. ASSUME NEW kind \in {"write", "read", "readByte"}, kind = s.callback,
             kind = "read" => s.acks = ReadAnswers(s.readSize, s.readSize),
             st' = NotifyCaller(s, kind)
      PROVE  I2cInv(st')
  BY <1>2, <1>7, <1>9, I2cTransferEnds
\* The next byte goes out.
<1>10. ASSUME NEW t, DOMAIN t = I2cFields, st' = [t EXCEPT !.wire = "out"],
              t.client = s.client, t.tie = s.tie, t.busBusy = s.busBusy, t.request = s.request,
              t.callback = s.callback,
              \/ t.op = s.op
              \/ s.op = "ReadFirstByte" /\ t.op = "ReadAdditionalBytes",
              t.op = "ReadAdditionalBytes" =>
                /\ t.rie /\ t.acks = ReadAnswers(t.index, t.readSize)
                /\ t.readSize \in Nat /\ t.index \in Nat
                /\ t.index < t.readSize /\ t.ackt = ReadAnswer(t.index + 1, t.readSize),
              t.op # "ReadFirstByte"
       PROVE  I2cInv(st')
  <2>1. /\ DOMAIN st' = I2cFields /\ st'.wire = "out" /\ st'.op = t.op
        /\ st'.client = t.client /\ st'.tie = t.tie /\ st'.busBusy = t.busBusy
        /\ st'.request = t.request /\ st'.callback = t.callback
        /\ st'.rie = t.rie /\ st'.index = t.index /\ st'.readSize = t.readSize
        /\ st'.acks = t.acks /\ st'.ackt = t.ackt
    BY <1>10, SMTT(60) DEF I2cFields
  <2>2. /\ st'.client = st.client /\ st'.wire # "none" /\ st'.tie = st.tie
        /\ st'.busBusy = st.busBusy /\ st'.request = st.request /\ st'.callback = st.callback
        /\ \/ st'.op = st.op
           \/ st.op = "ReadFirstByte" /\ st'.op = "ReadAdditionalBytes"
    <3>1. "out" # "none"
      OBVIOUS
    <3> QED BY <1>2, <1>10, <2>1, <3>1, ZenonT(120)
  <2>3. Reading(st')
    <3>1. st'.client # "owner" /\ st'.op # "ReadFirstByte"
      BY <1>6, <1>10, <2>1, <2>2
    <3>2. st'.op = "ReadAdditionalBytes" =>
            /\ st'.rie /\ st'.acks = ReadAnswers(st'.index, st'.readSize)
            /\ st'.readSize \in Nat /\ st'.index \in Nat
            /\ st'.index < st'.readSize /\ st'.ackt = ReadAnswer(st'.index + 1, st'.readSize)
      BY <1>10, <2>1, ZenonT(120)
    <3> QED BY <2>1, <3>1, <3>2, ZenonT(120) DEF Reading
  <2> QED BY <2>1, <2>2, <2>3, I2cTransferGoesOn
<1>11. CASE st.op \in {"Write", "WriteByte"}
  <2>1. s.op \in {"Write", "WriteByte"} /\ s.callback = "write"
    BY <1>2, <1>6, <1>11, ZenonT(120)
  <2>2. st' = IF ~ack THEN NotifyCaller(s, "error")
              ELSE IF AllBytesHaveBeenWritten(s) THEN NotifyCaller(s, "write")
              ELSE WriteByteToTransmitRegister([s EXCEPT !.index = s.index + 1])
    BY <1>3, <2>1 DEF AfterTransmission
  <2>3. CASE ack /\ ~AllBytesHaveBeenWritten(s)
    <3> DEFINE t == [s EXCEPT !.index = s.index + 1]
    <3>1. /\ DOMAIN t = I2cFields /\ t.client = s.client /\ t.tie = s.tie /\ t.busBusy = s.busBusy
          /\ t.request = s.request /\ t.callback = s.callback /\ t.op = s.op
      BY <1>2, SMTT(60) DEF I2cFields
    <3>2. st' = [t EXCEPT !.wire = "out"]
      BY <2>2, <2>3, ZenonT(120) DEF WriteByteToTransmitRegister
    <3> HIDE DEF t
    <3>3. t.op # "ReadAdditionalBytes" /\ t.op # "ReadFirstByte"
      BY <2>1, <3>1
    <3> QED BY <1>10, <3>1, <3>2, <3>3
  <2>4. "write" # "read" /\ "write" \in {"write", "read", "readByte"}
    OBVIOUS
  <2>5. CASE ack /\ AllBytesHaveBeenWritten(s)
    <3>1. st' = NotifyCaller(s, "write")
      BY <2>2, <2>5, ZenonT(120)
    <3> QED BY <1>9, <2>1, <2>4, <3>1
  <2>6. CASE ~ack
    BY <1>8, <2>2, <2>6, ZenonT(120)
  <2> QED BY <2>3, <2>5, <2>6, ZenonT(120)
<1>12. CASE st.op = "ReadFirstByte"
  <2>1. s.op = "ReadFirstByte" /\ ~(s.op \in {"Write", "WriteByte"})
    BY <1>2, <1>12
  <2>2. st' = IF ~ack THEN NotifyCaller(s, "error")
              ELSE SendDummyData([s EXCEPT !.ackt = "Ack", !.rie = TRUE, !.op = "ReadAdditionalBytes"])
    BY <1>3, <2>1 DEF AfterTransmission
  <2>3. CASE ack
    <3> DEFINE t == [s EXCEPT !.ackt = "Ack", !.rie = TRUE, !.op = "ReadAdditionalBytes"]
    <3>1. /\ DOMAIN t = I2cFields /\ t.client = s.client /\ t.tie = s.tie /\ t.busBusy = s.busBusy
          /\ t.request = s.request /\ t.callback = s.callback /\ t.op = "ReadAdditionalBytes"
          /\ t.rie = TRUE /\ t.acks = s.acks /\ t.index = s.index /\ t.readSize = s.readSize
          /\ t.ackt = "Ack"
      BY <1>2, SMTT(60) DEF I2cFields
    <3>2. st' = [t EXCEPT !.wire = "out"]
      BY <2>2, <2>3, ZenonT(120) DEF SendDummyData, WriteByteToTransmitRegister
    <3> HIDE DEF t
    <3>3. st.index = 0 /\ st.acks = <<>> /\ st.readSize \in Nat /\ st.readSize > 1
      BY <1>1, <1>12, ZenonT(120) DEF Reading
    <3>4. t.index = 0 /\ t.acks = <<>> /\ t.readSize \in Nat /\ t.readSize > 1
      BY <1>2, <3>1, <3>3, ZenonT(120)
    <3>5. /\ t.acks = ReadAnswers(0, t.readSize) /\ 0 \in Nat /\ 0 < t.readSize
          /\ t.ackt = ReadAnswer(0 + 1, t.readSize)
      <4>1. 1 .. 0 = {} /\ 0 + 1 # t.readSize /\ 0 < t.readSize
        BY <3>4
      <4>2. ReadAnswers(0, t.readSize) = <<>>
        BY <4>1 DEF ReadAnswers
      <4> QED BY <3>1, <3>4, <4>1, <4>2 DEF ReadAnswer
    <3>6. t.op # "ReadFirstByte"
      BY <3>1
    <3>7. /\ t.rie /\ t.acks = ReadAnswers(t.index, t.readSize)
          /\ t.readSize \in Nat /\ t.index \in Nat
          /\ t.index < t.readSize /\ t.ackt = ReadAnswer(t.index + 1, t.readSize)
      BY <3>1, <3>4, <3>5, ZenonT(120)
    <3> QED BY <1>10, <2>1, <3>1, <3>2, <3>6, <3>7
  <2>4. CASE ~ack
    BY <1>8, <2>2, <2>4, ZenonT(120)
  <2> QED BY <2>3, <2>4, ZenonT(120)
<1>13. CASE st.op = "ReadAdditionalBytes"
  <2>1. /\ s.op = "ReadAdditionalBytes" /\ ~(s.op \in {"Write", "WriteByte"})
        /\ ~(s.op = "ReadFirstByte")
    BY <1>2, <1>13
  <2>2. st' = IF AllBytesHaveBeenRead(s) THEN NotifyCaller(s, "read")
              ELSE SendDummyData([s EXCEPT !.ackt = IF TheNextByteIsTheLastByteToBeRead(s)
                                                     THEN "Nack" ELSE s.ackt])
    BY <1>3, <2>1 DEF AfterTransmission
  <2>3. /\ st.rie /\ st.acks = ReadAnswers(st.index, st.readSize)
        /\ st.readSize \in Nat /\ st.index \in Nat
    BY <1>1, <1>13, ZenonT(120) DEF Reading
  <2>4. st.index <= st.readSize /\ st.ackt = ReadAnswer(st.index, st.readSize)
    <3>1. st.wire # "out"
      BY <1>4, <2>3
    <3> QED BY <1>1, <1>13, <3>1, ZenonT(120) DEF Reading
  <2>5. CASE AllBytesHaveBeenRead(s)
    <3>1. s.index >= s.readSize
      BY <2>5 DEF AllBytesHaveBeenRead
    <3>2. st.index = st.readSize
      BY <1>2, <2>3, <2>4, <3>1
    <3>3. s.acks = ReadAnswers(s.readSize, s.readSize) /\ s.callback = "read"
      BY <1>2, <1>6, <1>13, <2>3, <3>2
    <3>4. st' = NotifyCaller(s, "read")
      BY <2>2, <2>5, ZenonT(120)
    <3>5. "read" \in {"write", "read", "readByte"}
      OBVIOUS
    <3> QED BY <1>9, <3>3, <3>4, <3>5
  <2>6. CASE ~AllBytesHaveBeenRead(s)
    <3> DEFINE x == IF TheNextByteIsTheLastByteToBeRead(s) THEN "Nack" ELSE s.ackt
               t == [s EXCEPT !.ackt = x]
    <3>1. st.index < st.readSize
      <4>1. ~(s.index >= s.readSize)
        BY <2>6 DEF AllBytesHaveBeenRead
      <4> QED BY <1>2, <2>3, <4>1
    <3>2. x = ReadAnswer(st.index + 1, st.readSize)
      <4>1. st.index # st.readSize
        BY <2>3, <3>1
      <4>2. s.ackt = "Ack"
        BY <1>2, <2>4, <4>1 DEF ReadAnswer
      <4>3. TheNextByteIsTheLastByteToBeRead(s) <=> st.index + 1 = st.readSize
        BY <1>2 DEF TheNextByteIsTheLastByteToBeRead
      <4> QED BY <4>2, <4>3 DEF ReadAnswer
    <3> HIDE DEF x
    <3>3. /\ DOMAIN t = I2cFields /\ t.client = s.client /\ t.tie = s.tie /\ t.busBusy = s.busBusy
          /\ t.request = s.request /\ t.callback = s.callback /\ t.op = s.op
          /\ t.rie = s.rie /\ t.acks = s.acks /\ t.index = s.index /\ t.readSize = s.readSize
          /\ t.ackt = x
      BY <1>2, SMTT(60) DEF I2cFields
    <3>4. st' = [t EXCEPT !.wire = "out"]
      BY <2>2, <2>6, ZenonT(120) DEF SendDummyData, WriteByteToTransmitRegister, x
    <3> HIDE DEF t
    <3>5. /\ t.rie /\ t.acks = ReadAnswers(t.index, t.readSize)
          /\ t.readSize \in Nat /\ t.index \in Nat
          /\ t.index < t.readSize /\ t.ackt = ReadAnswer(t.index + 1, t.readSize)
      BY <1>2, <2>3, <3>1, <3>2, <3>3, ZenonT(120)
    <3>6. t.op # "ReadFirstByte"
      BY <2>1, <3>3
    <3> QED BY <1>10, <3>3, <3>4, <3>5, <3>6
  <2> QED BY <2>5, <2>6, ZenonT(120)
<1>14. CASE st.op = "ReadByte"
  <2>1. /\ s.op = "ReadByte" /\ ~(s.op \in {"Write", "WriteByte"})
        /\ ~(s.op = "ReadFirstByte") /\ ~(s.op = "ReadAdditionalBytes")
    BY <1>2, <1>14
  <2>2. st' = IF s.dataHasBeenRead THEN NotifyCaller(s, "readByte")
              ELSE IF ~ack THEN NotifyCaller(s, "error")
              ELSE SendDummyData([s EXCEPT !.ackt = "Nack", !.rie = TRUE])
    BY <1>3, <2>1 DEF AfterTransmission
  <2>3. CASE s.dataHasBeenRead
    <3>1. st' = NotifyCaller(s, "readByte")
      BY <2>2, <2>3, ZenonT(120)
    <3>2. s.callback = "readByte"
      BY <1>2, <1>6, <1>14
    <3>3. "readByte" \in {"write", "read", "readByte"} /\ "readByte" # "read"
      OBVIOUS
    <3> QED BY <1>9, <3>1, <3>2, <3>3
  <2>4. CASE ~s.dataHasBeenRead /\ ~ack
    BY <1>8, <2>2, <2>4, ZenonT(120)
  <2>5. CASE ~s.dataHasBeenRead /\ ack
    <3> DEFINE t == [s EXCEPT !.ackt = "Nack", !.rie = TRUE]
    <3>1. /\ DOMAIN t = I2cFields /\ t.client = s.client /\ t.tie = s.tie /\ t.busBusy = s.busBusy
          /\ t.request = s.request /\ t.callback = s.callback /\ t.op = s.op
      BY <1>2, SMTT(60) DEF I2cFields
    <3>2. st' = [t EXCEPT !.wire = "out"]
      BY <2>2, <2>5, ZenonT(120) DEF SendDummyData, WriteByteToTransmitRegister
    <3> HIDE DEF t
    <3>3. t.op # "ReadAdditionalBytes" /\ t.op # "ReadFirstByte"
      BY <2>1, <3>1
    <3> QED BY <1>10, <3>1, <3>2, <3>3
  <2> QED BY <2>3, <2>4, <2>5, ZenonT(120)
<1> QED BY <1>11, <1>12, <1>13, <1>14 DEF I2cTransfers

LEMMA GeneratedConditionStep ==
    ASSUME I2cInv(st), SCI0_TEI0
    PROVE  I2cInv(st')
<1>1. DOMAIN st = I2cFields /\ Asking(st) /\ Calling(st)
  BY DEF I2cInv
<1> DEFINE s == [st EXCEPT !.request = "none"]
           c == ConditionIsGenerated(s)
<1>2. /\ DOMAIN s = I2cFields /\ s.request = "none"
      /\ s.op = st.op /\ s.callback = st.callback /\ s.client = st.client
      /\ s.busBusy = st.busBusy /\ s.rie = st.rie /\ s.tie = st.tie /\ s.wire = st.wire
  BY <1>1, SMTT(60) DEF I2cFields
<1>3. st.request # "none" /\ st.wire = "none" /\ st' = NotifyCaller(c, "condition")
  BY ZenonT(120) DEF SCI0_TEI0
<1> HIDE DEF s
<1>4. /\ st.client = "waiting" /\ st.op \in {"Start", "Restart", "Stop", "Idle"}
      /\ st.op \in {"Start", "Restart"} => st.busBusy
  BY <1>1, <1>3, SMTT(60) DEF Asking, I2cTransfers
<1>5. st.callback = "condition"
  BY <1>1, <1>4, SMTT(60) DEF Calling, I2cTransfers
<1>6. /\ DOMAIN c = I2cFields /\ c.request = "none" /\ c.callback = "condition"
      /\ ~c.rie /\ (c.busBusy => c.tie) /\ c.wire = "none"
  <2>1. CASE st.op \in {"Start", "Restart"}
    <3>1. c = [s EXCEPT !.rie = FALSE, !.tie = TRUE]
      BY <1>2, <2>1 DEF ConditionIsGenerated
    <3> HIDE DEF c
    <3>2. /\ DOMAIN c = I2cFields /\ c.request = s.request /\ c.callback = s.callback
          /\ c.rie = FALSE /\ c.tie = TRUE /\ c.wire = s.wire
      BY <1>2, <3>1, SMTT(60) DEF I2cFields
    <3> QED BY <1>2, <1>3, <1>5, <3>2, ZenonT(120)
  <2>2. CASE st.op \in {"Stop", "Idle"}
    <3>0. ~(s.op \in {"Start", "Restart"}) /\ s.op \in {"Idle", "Stop"}
      BY <1>2, <2>2, SMTT(60)
    <3>1. c = [s EXCEPT !.rie = FALSE, !.tie = FALSE, !.busBusy = FALSE]
      BY <3>0 DEF ConditionIsGenerated
    <3> HIDE DEF c
    <3>2. /\ DOMAIN c = I2cFields /\ c.request = s.request /\ c.callback = s.callback
          /\ c.rie = FALSE /\ c.busBusy = FALSE /\ c.wire = s.wire
      BY <1>2, <3>1, SMTT(60) DEF I2cFields
    <3> QED BY <1>2, <1>3, <1>5, <3>2, ZenonT(120)
  <2> QED BY <1>4, <2>1, <2>2, ZenonT(120)
<1> HIDE DEF c
<1>7. /\ DOMAIN st' = I2cFields /\ st'.op = "Idle" /\ st'.told = "condition"
      /\ c.busBusy => st'.client = "started"
      /\ ~c.busBusy => st'.client = "free"
      /\ st'.callback = c.callback /\ st'.busBusy = c.busBusy
      /\ st'.rie = c.rie /\ st'.tie = c.tie /\ st'.request = c.request
      /\ st'.wire = c.wire
  <2> DEFINE k == "condition"
             t == NotifyCaller(c, k)
  <2>1. st' = t
    BY <1>3
  <2>2. k = "condition"
    OBVIOUS
  <2> HIDE DEF k
  <2>3. /\ DOMAIN t = I2cFields /\ t.op = "Idle" /\ t.told = k
        /\ k = "condition" /\ c.busBusy => t.client = "started"
        /\ k = "condition" /\ ~c.busBusy => t.client = "free"
        /\ t.callback = c.callback /\ t.busBusy = c.busBusy
        /\ t.rie = c.rie /\ t.tie = c.tie /\ t.request = c.request /\ t.wire = c.wire
    BY <1>6, NotifyFields, SMTT(60)
  <2> HIDE DEF t
  <2> QED BY <2>1, <2>2, <2>3, ZenonT(120)
<1>8. st'.client \in {"started", "free"}
  BY <1>7, ZenonT(120)
<1>9. Asking(st')
  <2>1. CASE c.busBusy
    BY <1>6, <1>7, <2>1, SMTT(60) DEF Asking
  <2>2. CASE ~c.busBusy
    BY <1>6, <1>7, <2>2, SMTT(60) DEF Asking
  <2> QED BY <2>1, <2>2
<1>10. Calling(st')
  BY <1>6, <1>7, <1>8, SMTT(60) DEF Calling
<1>11. Reading(st')
  BY <1>7, <1>8, SMTT(60) DEF Reading
<1> QED BY <1>7, <1>9, <1>10, <1>11 DEF I2cInv

LEMMA I2cStartsWell ==
    ASSUME st = I2cStates
    PROVE  I2cInv(st)
<1>1. DOMAIN st = I2cFields
  BY DEF I2cStates, I2cFields
<1>2. /\ st.op = "Idle" /\ st.request = "none" /\ st.client = "free" /\ st.busBusy = FALSE
      /\ st.told = "none" /\ st.wire = "none"
  BY DEF I2cStates
<1> QED BY <1>1, <1>2, SMTT(60) DEF I2cInv, Asking, Calling, Reading

LEMMA I2cInvShowsTransfers ==
    ASSUME I2cInv(st)
    PROVE  I2cTransfersAreWhole
<1>1. Asking(st) /\ Calling(st) /\ Reading(st)
  BY DEF I2cInv
<1>2. (st.client = "waiting") <=>
         (st.request # "none" \/ (st.op # "Idle" /\ st.wire # "none" /\ st.tie))
  <2>1. CASE st.client = "waiting"
    BY <1>1, <2>1, SMTT(60) DEF Asking, I2cTransfers
  <2>2. CASE st.client # "waiting"
    BY <1>1, <2>2, SMTT(60) DEF Asking
  <2> QED BY <2>1, <2>2
<1>3. st.client \in {"started", "owner", "free"} /\ st.told # "none" => st.told = st.callback
  BY <1>1 DEF Calling
<1>4. (st.told = "read" /\ st.client = "owner" /\ st.op = "Idle") =>
         st.acks = [i \in 1 .. st.readSize |-> IF i = st.readSize THEN "Nack" ELSE "Ack"]
  BY <1>1, ZenonT(120) DEF Reading, ReadAnswers, ReadAnswer
<1>5. /\ st.client = "free" => ~st.busBusy
      /\ st.client \in {"started", "owner", "failed"} => st.busBusy
  BY <1>1, ZenonT(120) DEF Asking
<1> QED BY <1>2, <1>3, <1>4, <1>5, ZenonT(120) DEF I2cTransfersAreWhole

(* The four drivers together.                                              *)

BoardDriversInv ==
    /\ unit \in {"i2c", "uart", "input capture", "gpio"}
    /\ unit = "i2c" => I2cInv(st)
    /\ unit = "uart" => UartInv(st)
    /\ unit = "input capture" => CaptureInv(st)
    /\ unit = "gpio" => GpioInv(st)

LEMMA UartStartsWell ==
    ASSUME BoardDriversAssumption, st = UartStates
    PROVE  UartInv(st)
<1>1. /\ BufferSize \in Nat /\ BufferSize > 1 /\ SequenceModulus \in Nat
      /\ SequenceModulus > BufferSize
  BY Sizes
<1>2. /\ DOMAIN st = UartFields
      /\ st.cral = BufferSize /\ st.tail = 0 /\ st.ring = [i \in 0 .. BufferSize - 1 |-> 0]
      /\ st.next = 0 /\ st.expected = 0 /\ st.left = 0 /\ st.waiting = FALSE /\ st.cra = 0
      /\ st.dtce = FALSE /\ st.tdre = TRUE /\ st.packet = 0 /\ st.sent = 0
  BY SMTT(60) DEF UartStates, UartFields
<1>3. /\ Wrap(0, 0, SequenceModulus) = 0 /\ Wrap(0, 0, BufferSize) = 0
      /\ BufferSize \in 1 .. BufferSize /\ BufferSize - BufferSize = 0
      /\ 0 \in 0 .. BufferSize - 1 /\ 0 \in 0 .. SequenceModulus - 1
      /\ 0 \in Nat /\ 0 <= 0 /\ 0 .. 0 - 1 = {}
  BY <1>1 DEF Wrap
<1>4. RingHead(st) = 0
  BY <1>2, <1>3, ZenonT(120) DEF RingHead
<1>5. DOMAIN st.ring = 0 .. BufferSize - 1
  BY <1>2, ZenonT(120)
<1>6. \A i \in 0 .. 0 - 1 :
        st.ring[Wrap(st.tail, i, BufferSize)] = Wrap(st.expected, i, SequenceModulus)
  BY <1>3, ZenonT(120)
<1>7. Receiving(st, 0)
  BY <1>2, <1>3, <1>4, <1>5, <1>6, ZenonT(120) DEF Receiving
<1>8. Transmitting(st)
  <2>1. ~(0 > 0) /\ 0 + 0 + (IF TRUE THEN 0 ELSE 1) = 0
    OBVIOUS
  <2> QED BY <1>2, <1>3, <2>1, ZenonT(120) DEF Transmitting
<1> QED BY <1>2, <1>7, <1>8 DEF UartInv

LEMMA CaptureStartsWell ==
    ASSUME BoardDriversAssumption, st = CaptureStates
    PROVE  CaptureInv(st)
<1>1. CounterModulus \in Nat \ {0} /\ PollsToOff \in Nat \ {0}
  BY DEF BoardDriversAssumption
<1>2. /\ DOMAIN st = CaptureFields
      /\ st.counter = 0 /\ st.previous = 0 /\ st.firstCaptureCompleted = FALSE
      /\ st.dataReady = FALSE /\ st.feedbackCounts = 0 /\ st.real = 0 /\ st.polls = 0
      /\ st.filter = OffCounts /\ st.fedReal = 0 /\ st.polling = FALSE /\ st.silent = 0
  BY SMTT(60) DEF CaptureStates, CaptureFields
<1>3. 0 % CounterModulus = 0
  BY <1>1, Z3
<1> QED BY <1>1, <1>2, <1>3, SMTT(60) DEF CaptureInv

LEMMA GpioStartsWell ==
    ASSUME st = GpioStates
    PROVE  GpioInv(st)
BY SMTT(60) DEF GpioStates, GpioInv, GpioFields

LEMMA DriversStartWell ==
    ASSUME BoardDriversInit
    PROVE  BoardDriversInv
<1>1. CASE unit = "i2c" /\ st = I2cStates
  BY <1>1, I2cStartsWell, ZenonT(120) DEF BoardDriversInv
<1>2. CASE unit = "uart" /\ st = UartStates
  BY <1>2, UartStartsWell, BoardDriversAssumption, ZenonT(120) DEF BoardDriversInv
<1>3. CASE unit = "input capture" /\ st = CaptureStates
  BY <1>3, CaptureStartsWell, BoardDriversAssumption, ZenonT(120) DEF BoardDriversInv
<1>4. CASE unit = "gpio" /\ st = GpioStates
  BY <1>4, GpioStartsWell, ZenonT(120) DEF BoardDriversInv
<1> QED BY <1>1, <1>2, <1>3, <1>4, ZenonT(120) DEF BoardDriversInit

\* A step of one driver concerns no other.
LEMMA DriversStep ==
    ASSUME BoardDriversInv, BoardDriversNext
    PROVE  BoardDriversInv'
<1>1. CASE I2cTransfer \/ I2cCondition \/ I2cCancel \/ SCI0_RXI0 \/ SCI0_TXI0 \/ SCI0_TEI0
  <2>1. unit = "i2c" /\ unit' = "i2c"
    BY <1>1, ZenonT(120)
       DEF I2cTransfer, I2cCondition, I2cCancel, SCI0_RXI0, SCI0_TXI0, SCI0_TEI0, Runs
  <2>2. I2cInv(st)
    BY <2>1, ZenonT(120) DEF BoardDriversInv
  <2>3. I2cInv(st')
    BY <1>1, <2>2, BoardDriversAssumption, I2cTransferStep, I2cAskedConditionStep,
       ReceivedByteStep, TransmittedByteStep, GeneratedConditionStep, ZenonT(120)
  <2> QED BY <2>1, <2>3, ZenonT(120) DEF BoardDriversInv
<1>2. CASE \/ DtcReceives \/ UartRunCounts \/ UartRunTakes
           \/ UartTransmit \/ TransmitRegisterEmpties \/ DtcTransmits \/ UartRunCompletes
  <2>1. unit = "uart" /\ unit' = "uart"
    BY <1>2, ZenonT(120)
       DEF DtcReceives, UartRunCounts, UartRunTakes, UartTransmit, TransmitRegisterEmpties,
           DtcTransmits, UartRunCompletes, Runs
  <2>2. UartInv(st)
    BY <2>1, ZenonT(120) DEF BoardDriversInv
  <2>3. UartInv(st')
    BY <1>2, <2>2, BoardDriversAssumption, ReceivedStep, TakenStep, CountedStep,
       TransmitterStep, ZenonT(120)
  <2> QED BY <2>1, <2>3, ZenonT(120) DEF BoardDriversInv
<1>3. CASE Edge \/ PollInputCapture \/ PollInputCaptureEnds
  <2>1. unit = "input capture" /\ unit' = "input capture"
    BY <1>3, ZenonT(120) DEF Edge, PollInputCapture, PollInputCaptureEnds, Runs
  <2>2. CaptureInv(st)
    BY <2>1, ZenonT(120) DEF BoardDriversInv
  <2>3. CaptureInv(st')
    BY <1>3, <2>2, BoardDriversAssumption, CaptureStep, ZenonT(120)
  <2> QED BY <2>1, <2>3, ZenonT(120) DEF BoardDriversInv
<1>4. CASE PinChanges \/ DebounceCallback \/ DataSource_Gpio_Run \/ DataSource_Gpio_RunEnds
  <2>1. unit = "gpio" /\ unit' = "gpio"
    BY <1>4, ZenonT(120)
       DEF PinChanges, DebounceCallback, DataSource_Gpio_Run, DataSource_Gpio_RunEnds, Runs
  <2>2. GpioInv(st)
    BY <2>1, ZenonT(120) DEF BoardDriversInv
  <2>3. GpioInv(st')
    BY <1>4, <2>2, GpioStep, ZenonT(120)
  <2> QED BY <2>1, <2>3, ZenonT(120) DEF BoardDriversInv
<1> QED BY <1>1, <1>2, <1>3, <1>4, ZenonT(120) DEF BoardDriversNext

LEMMA DriversInvSuffices ==
    ASSUME BoardDriversInv
    PROVE  DriversKeepTheirData
<1>1. I2cTransfersAreWhole
  <2>1. unit = "i2c" => I2cTransfersAreWhole
    BY I2cInvShowsTransfers, ZenonT(120) DEF BoardDriversInv
  <2> QED BY <2>1, ZenonT(120) DEF I2cTransfersAreWhole
<1>2. UartBytesAreExact
  <2>1. unit = "uart" => UartBytesAreExact
    BY UartInvShowsBytes, BoardDriversAssumption, ZenonT(120) DEF BoardDriversInv
  <2> QED BY <2>1, ZenonT(120) DEF UartBytesAreExact
<1>3. IntervalsAreWhole
  <2>1. unit = "input capture" => IntervalsAreWhole
    BY CaptureInvShowsIntervals, BoardDriversAssumption, ZenonT(120) DEF BoardDriversInv
  <2> QED BY <2>1, ZenonT(120) DEF IntervalsAreWhole
<1>4. InputsArePublished
  BY ZenonT(120) DEF BoardDriversInv, GpioInv, InputsArePublished
<1> QED BY <1>1, <1>2, <1>3, <1>4 DEF DriversKeepTheirData

BoardDriversSpec == BoardDriversInit /\ [][BoardDriversNext]_unitVars

\* I2c_Rx130SerialChannel0.c, the BufferedUart_Channels, DataSource_InputCapture.c
\* and DataSource_Gpio.c: a caller of the I2C driver that waits is owed an
\* enabled interrupt and a read refuses its last byte alone; every received byte
\* is taken once and in order; a tachometer is fed whole intervals; and an input
\* that is not being published has been.
THEOREM BoardDriversKeepTheirData == BoardDriversSpec => []DriversKeepTheirData
<1>1. BoardDriversInit => BoardDriversInv
  BY DriversStartWell
<1>2. BoardDriversInv /\ [BoardDriversNext]_unitVars => BoardDriversInv'
  <2>1. CASE BoardDriversInv /\ BoardDriversNext
    BY <2>1, DriversStep
  <2>2. CASE BoardDriversInv /\ UNCHANGED unitVars
    BY <2>2, ZenonT(120) DEF BoardDriversInv, unitVars
  <2> QED BY <2>1, <2>2, ZenonT(120)
<1>3. BoardDriversInv => DriversKeepTheirData
  BY DriversInvSuffices
<1> QED BY <1>1, <1>2, <1>3, PTL DEF BoardDriversSpec
=============================================================================
