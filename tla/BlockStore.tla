----------------------------- MODULE BlockStore -----------------------------
(***************************************************************************)
(* What a driver of a non-volatile memory promises its clients: a job      *)
(* changes only the cells it names, only to the values it gives them, and  *)
(* is reported done only when it is.  Nothing is promised about a job that *)
(* failed or that a power failure cut off, and nothing about the order in  *)
(* which its cells are written.  The bus to the memory may stall: of the   *)
(* job it stalls in, only the values that it stores are certain, neither   *)
(* their cells nor the report.                                             *)
(***************************************************************************)
CONSTANTS
    Clients,    \* who asks for jobs, each for one at a time
    Jobs,       \* a job: [kind, cells, value]
    NoJob

VARIABLES
    mem,        \* cell -> value
    job,        \* client -> the job it has not heard of again
    heard,      \* client -> what it heard of its last job: the job, its result
                \* and, of a read, the contents
    stalled     \* the clients during whose job the bus has stalled

storeVars == <<mem, job, heard, stalled>>

\* A store changes only its own cells, unless it is astray, to its own value.
Takes(j, astray) ==
    IF j.kind = "store"
    THEN \A a \in DOMAIN mem :
            mem'[a] = mem[a] \/ ((a \in j.cells \/ astray) /\ mem'[a] = j.value)
    ELSE mem' = mem

IsDone(j, contents, memory) ==
    IF j.kind = "store" THEN \A a \in j.cells : memory[a] = j.value
    ELSE \A a \in j.cells : contents[a] = memory[a]

\* Work on a job, from the moment its client asks for it: the memory takes
\* some of its values, and the client may hear that it has ended.
Work(c) ==
    \E j \in IF job[c] = NoJob THEN Jobs ELSE {job[c]} :
        \/ /\ stalled' \in {stalled, stalled \union {c}}
           /\ Takes(j, c \in stalled')
           /\ job' = [job EXCEPT ![c] = j]
           /\ \/ heard' = heard
              \/ heard' = [heard EXCEPT ![c] = heard'[c]] /\ heard'[c].result = "nothing"
        \/ /\ Takes(j, c \in stalled)
           /\ job' = [job EXCEPT ![c] = NoJob]
           /\ heard' = [heard EXCEPT ![c] = heard'[c]]
           /\ heard'[c].job = j
           /\ heard'[c].result = "done" => c \in stalled \/ IsDone(j, heard'[c].contents, mem')
           /\ stalled' = stalled \ {c}

\* The clients are gone as well, and have heard nothing.
PowerFails ==
    /\ job' = [c \in Clients |-> NoJob]
    /\ \A c \in Clients : heard'[c].result # "done"
    /\ stalled' = {}
    /\ UNCHANGED mem

StoreNext == PowerFails \/ \E c \in Clients : Work(c)

StoreSpec ==
    /\ job = [c \in Clients |-> NoJob] /\ stalled = {}
    /\ [][StoreNext]_storeVars
=============================================================================
