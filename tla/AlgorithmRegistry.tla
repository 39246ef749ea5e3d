-------------------------- MODULE AlgorithmRegistry --------------------------
(***************************************************************************)
(* The global algorithm registry of pkg/signing/algorithm.go: a Go map     *)
(* behind a sync.RWMutex, used by any number of goroutines.  Every access  *)
(* of the map is a step of its own, so that a missing or misplaced lock    *)
(* shows.  A goroutine is in at most one call at a time and makes calls    *)
(* for ever; nothing bounds their number.                                  *)
(*                                                                         *)
(* The sync.RWMutex is external (Go's standard library).  What the code    *)
(* relies on is modelled: writers exclude each other through an inner      *)
(* mutex, a writer that holds the inner mutex waits for the readers that   *)
(* are inside, readers that arrive meanwhile wait, and all of them enter   *)
(* when the writer leaves.                                                 *)
(***************************************************************************)
CONSTANTS Procs, Ids, EmptyID, Impls, NoAlg, Builtin,
          NoProc  \* nobody holds the writers' mutex

ASSUME RegistryAssumption ==
    /\ EmptyID \in Ids
    /\ NoAlg \notin Impls
    /\ NoProc \notin Procs
    /\ Builtin \in [Ids -> Impls \cup {NoAlg}]

VARIABLES
    algorithmRegistry,  \* identifier -> implementation, NoAlg where absent
    writer,             \* the goroutine that holds the RWMutex's inner mutex
    readers,            \* the goroutines that hold the read lock
    blocked,            \* the goroutines asleep inside RLock
    pc,                 \* where each goroutine is
    call,               \* the call it is in, with its arguments
    todo,               \* the keys its range loop has still to visit
    algorithms,         \* the keys its range loop has appended
    result              \* the call's return value once it is known

lockVars == <<writer, readers, blocked>>
vars == <<algorithmRegistry, writer, readers, blocked, pc, call, todo,
          algorithms, result>>

Abstract == INSTANCE AtomicRegistry
              WITH reg <- algorithmRegistry, pending <- call, answer <- result

Idle      == Abstract!Idle
NoAnswer  == Abstract!NoAnswer
ErrorAnswer == [kind |-> "error"]

Init ==
    /\ algorithmRegistry = Builtin
    /\ writer = NoProc
    /\ readers = {}
    /\ blocked = {}
    /\ pc = [p \in Procs |-> "idle"]
    /\ call = [p \in Procs |-> Idle]
    /\ todo = [p \in Procs |-> {}]
    /\ algorithms = [p \in Procs |-> {}]
    /\ result = [p \in Procs |-> NoAnswer]

Goto(p, from, to) ==
    /\ pc[p] = from
    /\ pc' = [pc EXCEPT ![p] = to]

-----------------------------------------------------------------------------
(* The RWMutex.                                                            *)

\* Lock, first half: take the inner mutex, which turns new readers away.
LockInner(p) ==
    /\ writer = NoProc
    /\ writer' = p
    /\ UNCHANGED <<readers, blocked>>

\* Lock, second half: the readers that were inside have left.
LockDrained == readers = {}

\* Unlock lets every reader that went to sleep in, then frees the inner mutex.
Unlock(p) ==
    /\ writer' = NoProc
    /\ readers' = readers \cup blocked
    /\ blocked' = {}

RLockEnter(p) ==
    /\ writer = NoProc
    /\ readers' = readers \cup {p}
    /\ UNCHANGED <<writer, blocked>>

RLockSleep(p) ==
    /\ writer # NoProc
    /\ blocked' = blocked \cup {p}
    /\ UNCHANGED <<writer, readers>>

RUnlock(p) ==
    /\ readers' = readers \ {p}
    /\ UNCHANGED <<writer, blocked>>

-----------------------------------------------------------------------------
(* RegisterAlgorithm(alg)                                                  *)

\* id := alg.ID(), before any lock is taken.
RegisterAlgorithm(p) ==
    /\ Goto(p, "idle", "Lock")
    /\ \E id \in Ids, impl \in Impls :
         call' = [call EXCEPT ![p] = [op |-> "register", id |-> id, impl |-> impl]]
    /\ UNCHANGED <<algorithmRegistry, lockVars, todo, algorithms, result>>

\* Mutant: the call goes on without the lock.
RegisterUnlocked(p) ==
    /\ Goto(p, "Lock", "check")
    /\ UNCHANGED <<algorithmRegistry, lockVars, call, todo, algorithms, result>>

RegisterLock(p) ==
    /\ Goto(p, "Lock", "drain")
    /\ LockInner(p)
    /\ UNCHANGED <<algorithmRegistry, call, todo, algorithms, result>>

RegisterEnter(p) ==
    /\ Goto(p, "drain", "check")
    /\ LockDrained
    /\ UNCHANGED <<algorithmRegistry, lockVars, call, todo, algorithms, result>>

\* Mutant: the error path returns without the deferred Unlock.
RegisterExistsLocked(p) ==
    /\ Goto(p, "check", "return")
    /\ algorithmRegistry[call[p].id] # NoAlg
    /\ result' = [result EXCEPT ![p] = ErrorAnswer]
    /\ UNCHANGED <<algorithmRegistry, lockVars, call, todo, algorithms>>

\* An existing entry is never replaced: the call fails.
RegisterExists(p) ==
    /\ Goto(p, "check", "Unlock")
    /\ algorithmRegistry[call[p].id] # NoAlg
    /\ result' = [result EXCEPT ![p] = ErrorAnswer]
    /\ UNCHANGED <<algorithmRegistry, lockVars, call, todo, algorithms>>

\* Mutant: the identifier is not looked up before the insertion.
RegisterUnchecked(p) ==
    /\ Goto(p, "check", "insert")
    /\ UNCHANGED <<algorithmRegistry, lockVars, call, todo, algorithms, result>>

RegisterAbsent(p) ==
    /\ Goto(p, "check", "insert")
    /\ algorithmRegistry[call[p].id] = NoAlg
    /\ UNCHANGED <<algorithmRegistry, lockVars, call, todo, algorithms, result>>

RegisterInsert(p) ==
    /\ Goto(p, "insert", "Unlock")
    /\ algorithmRegistry' = [algorithmRegistry EXCEPT ![call[p].id] = call[p].impl]
    /\ result' = [result EXCEPT ![p] = [kind |-> "ok"]]
    /\ UNCHANGED <<lockVars, call, todo, algorithms>>

\* The deferred Unlock runs on both ways out.
RegisterUnlock(p) ==
    /\ Goto(p, "Unlock", "return")
    /\ Unlock(p)
    /\ UNCHANGED <<algorithmRegistry, call, todo, algorithms, result>>

-----------------------------------------------------------------------------
(* GetAlgorithm(id)                                                        *)

\* The empty identifier is refused without a look at the map.
GetAlgorithmEmpty(p) ==
    /\ Goto(p, "idle", "refuse")
    /\ call' = [call EXCEPT ![p] = [op |-> "get", id |-> EmptyID]]
    /\ UNCHANGED <<algorithmRegistry, lockVars, todo, algorithms, result>>

GetRefuse(p) ==
    /\ Goto(p, "refuse", "return")
    /\ result' = [result EXCEPT ![p] = ErrorAnswer]
    /\ UNCHANGED <<algorithmRegistry, lockVars, call, todo, algorithms>>

GetAlgorithm(p) ==
    /\ Goto(p, "idle", "RLock")
    /\ \E id \in Ids \ {EmptyID} :
         call' = [call EXCEPT ![p] = [op |-> "get", id |-> id]]
    /\ UNCHANGED <<algorithmRegistry, lockVars, todo, algorithms, result>>

GetLookup(p) ==
    /\ Goto(p, "lookup", "RUnlock")
    /\ LET alg == algorithmRegistry[call[p].id]
       IN  result' = [result EXCEPT ![p] =
                        IF alg = NoAlg THEN ErrorAnswer
                        ELSE [kind |-> "alg", alg |-> alg]]
    /\ UNCHANGED <<algorithmRegistry, lockVars, call, todo, algorithms>>

-----------------------------------------------------------------------------
(* SupportedAlgorithms()                                                   *)

SupportedAlgorithms(p) ==
    /\ Goto(p, "idle", "RLock")
    /\ call' = [call EXCEPT ![p] = [op |-> "supported"]]
    /\ UNCHANGED <<algorithmRegistry, lockVars, todo, algorithms, result>>

\* make([]string, 0, ...) and the start of the range over the map.
SupportedRange(p) ==
    /\ Goto(p, "range", "next")
    /\ todo' = [todo EXCEPT ![p] = Abstract!Registered(algorithmRegistry)]
    /\ algorithms' = [algorithms EXCEPT ![p] = {}]
    /\ UNCHANGED <<algorithmRegistry, lockVars, call, result>>

\* One iteration; Go visits the keys of a map in any order.
SupportedNext(p) ==
    /\ pc[p] = "next"
    /\ \E id \in todo[p] :
         /\ todo' = [todo EXCEPT ![p] = @ \ {id}]
         /\ algorithms' = [algorithms EXCEPT ![p] = @ \cup {id}]
    /\ UNCHANGED <<algorithmRegistry, lockVars, pc, call, result>>

SupportedDone(p) ==
    /\ Goto(p, "next", "RUnlock")
    /\ todo[p] = {}
    /\ result' = [result EXCEPT ![p] = [kind |-> "ids", ids |-> algorithms[p]]]
    /\ UNCHANGED <<algorithmRegistry, lockVars, call, todo, algorithms>>

-----------------------------------------------------------------------------
(* The read lock of GetAlgorithm and SupportedAlgorithms, and the return.  *)

AfterRLock(p) == IF call[p].op = "get" THEN "lookup" ELSE "range"

\* Mutant: the reader does not take the lock.
ReadUnlocked(p) ==
    /\ Goto(p, "RLock", AfterRLock(p))
    /\ UNCHANGED <<algorithmRegistry, lockVars, call, todo, algorithms, result>>

ReadLock(p) ==
    /\ Goto(p, "RLock", AfterRLock(p))
    /\ RLockEnter(p)
    /\ UNCHANGED <<algorithmRegistry, call, todo, algorithms, result>>

ReadSleep(p) ==
    /\ Goto(p, "RLock", "asleep")
    /\ RLockSleep(p)
    /\ UNCHANGED <<algorithmRegistry, call, todo, algorithms, result>>

ReadWake(p) ==
    /\ Goto(p, "asleep", AfterRLock(p))
    /\ p \in readers
    /\ UNCHANGED <<algorithmRegistry, lockVars, call, todo, algorithms, result>>

ReadUnlock(p) ==
    /\ Goto(p, "RUnlock", "return")
    /\ RUnlock(p)
    /\ UNCHANGED <<algorithmRegistry, call, todo, algorithms, result>>

ReturnToCaller(p) ==
    /\ Goto(p, "return", "idle")
    /\ call' = [call EXCEPT ![p] = Idle]
    /\ result' = [result EXCEPT ![p] = NoAnswer]
    /\ algorithms' = [algorithms EXCEPT ![p] = {}]
    /\ UNCHANGED <<algorithmRegistry, lockVars, todo>>

-----------------------------------------------------------------------------
\* A new call: the caller's choice, made at any time.
Start(p) ==
    \/ RegisterAlgorithm(p)
    \/ GetAlgorithmEmpty(p)
    \/ GetAlgorithm(p)
    \/ SupportedAlgorithms(p)

\* A step of a call in progress, the wait for the writers' mutex apart.
Step(p) ==
    \/ RegisterEnter(p)
    \/ RegisterExists(p)
    \/ RegisterAbsent(p)
    \/ RegisterInsert(p)
    \/ RegisterUnlock(p)
    \/ GetRefuse(p)
    \/ GetLookup(p)
    \/ SupportedRange(p)
    \/ SupportedNext(p)
    \/ SupportedDone(p)
    \/ ReadLock(p)
    \/ ReadSleep(p)
    \/ ReadWake(p)
    \/ ReadUnlock(p)
    \/ ReturnToCaller(p)

Next == \E p \in Procs : Start(p) \/ RegisterLock(p) \/ Step(p)

Spec == Init /\ [][Next]_vars

(***************************************************************************)
(* A running goroutine is scheduled again, and Go's sync.Mutex hands over  *)
(* to a waiter it has starved, so that taking the inner mutex is strongly  *)
(* fair.  Nobody has to start a call.                                      *)
(***************************************************************************)
Fairness == \A p \in Procs : WF_vars(Step(p)) /\ SF_vars(RegisterLock(p))

FairSpec == Spec /\ Fairness

-----------------------------------------------------------------------------
(* Correctness                                                             *)

PCs == {"idle", "Lock", "drain", "check", "insert", "Unlock", "refuse",
        "RLock", "asleep", "lookup", "range", "next", "RUnlock", "return"}

Answers == [kind: {"none", "error", "ok"}]
             \cup [kind: {"alg"}, alg: Impls]
             \cup [kind: {"ids"}, ids: SUBSET Ids]

\* Every variable has its type.
TypeOK ==
    /\ algorithmRegistry \in [Ids -> Impls \cup {NoAlg}]
    /\ writer \in Procs \cup {NoProc}
    /\ readers \subseteq Procs
    /\ blocked \subseteq Procs
    /\ pc \in [Procs -> PCs]
    /\ call \in [Procs -> Abstract!Calls \cup {Idle}]
    /\ todo \in [Procs -> SUBSET Ids]
    /\ algorithms \in [Procs -> SUBSET Ids]
    /\ result \in [Procs -> Answers]

\* The next step of p reads the map, or writes it.
Reading(p) == pc[p] \in {"check", "lookup", "range", "next"}
Writing(p) == pc[p] = "insert"

\* algorithm.go: "This function is safe for concurrent use".  While a goroutine
\* is about to write the map nobody else is about to read or write it: a
\* concurrent access of a Go map is a data race the runtime may abort on.
NoDataRace ==
    \A p, q \in Procs : p # q /\ Writing(p) => ~Reading(q) /\ ~Writing(q)

\* RegisterAlgorithm: an identifier that is registered keeps its
\* implementation for ever, whoever registers it again and however the calls
\* interleave (a check made before the lock would break it).
FirstRegistrationWins ==
    [][\A id \in Ids : algorithmRegistry[id] # NoAlg =>
         algorithmRegistry'[id] = algorithmRegistry[id]]_vars

\* Every call takes effect atomically between its invocation and its return:
\* the split critical sections implement the atomic registry, so a list is a
\* snapshot and of two registrations of one identifier exactly one succeeds.
Refinement == Abstract!ASpec

\* A call that was made returns: no order of Lock, RLock and their release
\* leaves a goroutine waiting for ever.
EveryCallReturns ==
    \A p \in Procs : call[p] # Idle ~> call[p] = Idle
-----------------------------------------------------------------------------
(* The inductive invariant behind the theorems of AlgorithmRegistryProof.  *)

\* Who holds the lock, told from the program counters: a writer from LockInner
\* to Unlock, a reader from the moment it is let in to RUnlock, and no reader
\* inside once the writer has seen them leave.
LockInv ==
    /\ \A p \in Procs :
         (writer = p) <=> (pc[p] \in {"drain", "check", "insert", "Unlock"})
    /\ \A p \in Procs :
         pc[p] \in {"lookup", "range", "next", "RUnlock"} => p \in readers
    /\ \A p \in readers :
         pc[p] \in {"asleep", "lookup", "range", "next", "RUnlock"}
    /\ \A p \in Procs :
         pc[p] \in {"check", "insert", "Unlock"} => readers = {}
    /\ \A p \in blocked : pc[p] = "asleep" /\ p \notin readers

\* What each program counter says of the call in progress and of its result;
\* at "insert" the identifier is still free, and a range loop has between its
\* two sets exactly the keys of the map.
CallInv ==
    \A p \in Procs :
      /\ (call[p] = Idle) <=> (pc[p] = "idle")
      /\ pc[p] \in {"Lock", "drain", "check", "insert", "Unlock"} =>
           call[p].op = "register"
      /\ pc[p] \in {"RLock", "asleep"} =>
           call[p].op = "supported" \/ (call[p].op = "get" /\ call[p].id # EmptyID)
      /\ pc[p] = "lookup" => call[p].op = "get" /\ call[p].id # EmptyID
      /\ pc[p] = "refuse" => call[p] = [op |-> "get", id |-> EmptyID]
      /\ pc[p] \in {"range", "next"} => call[p].op = "supported"
      /\ (result[p] = NoAnswer) <=> (pc[p] \notin {"Unlock", "RUnlock", "return"})
      /\ pc[p] = "insert" => algorithmRegistry[call[p].id] = NoAlg
      /\ pc[p] = "next" =>
           todo[p] \cup algorithms[p] = Abstract!Registered(algorithmRegistry)

IInv == TypeOK /\ LockInv /\ CallInv

=============================================================================
