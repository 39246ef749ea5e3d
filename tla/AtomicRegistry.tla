--------------------------- MODULE AtomicRegistry ---------------------------
(***************************************************************************)
(* What the algorithm registry of pkg/signing promises its callers: a map  *)
(* from algorithm identifiers to implementations on which every call       *)
(* (register, look up, list) takes effect in one indivisible step between  *)
(* its invocation and its return, and in which the first registration of   *)
(* an identifier is the last.  AlgorithmRegistry, the lock-based code, is  *)
(* shown to implement this specification.                                  *)
(***************************************************************************)
CONSTANTS
    Procs,    \* the goroutines
    Ids,      \* algorithm identifiers
    EmptyID,  \* the identifier ""
    Impls,    \* values that implement the Algorithm interface
    NoAlg,    \* "no entry in the map"
    Builtin   \* the map after the package's init functions have run

VARIABLES
    reg,      \* the map
    pending,  \* the call each goroutine is in, Idle between calls
    answer    \* what the call will return, NoAnswer before it took effect

avars == <<reg, pending, answer>>

Idle     == [op |-> "idle"]
NoAnswer == [kind |-> "none"]

Calls == [op: {"register"}, id: Ids, impl: Impls]
           \cup [op: {"get"}, id: Ids]
           \cup [op: {"supported"}]

\* The identifiers that have an implementation.
Registered(m) == {id \in Ids : m[id] # NoAlg}

AnswerTo(m, c) ==
    CASE c.op = "register" ->
           IF m[c.id] # NoAlg THEN [kind |-> "error"] ELSE [kind |-> "ok"]
      [] c.op = "get" ->
           IF c.id = EmptyID \/ m[c.id] = NoAlg
           THEN [kind |-> "error"]
           ELSE [kind |-> "alg", alg |-> m[c.id]]
      [] c.op = "supported" -> [kind |-> "ids", ids |-> Registered(m)]

EffectOf(m, c) ==
    IF c.op = "register" /\ m[c.id] = NoAlg
    THEN [m EXCEPT ![c.id] = c.impl]
    ELSE m

AInit ==
    /\ reg = Builtin
    /\ pending = [p \in Procs |-> Idle]
    /\ answer = [p \in Procs |-> NoAnswer]

Invoke(p, c) ==
    /\ pending[p] = Idle
    /\ pending' = [pending EXCEPT ![p] = c]
    /\ UNCHANGED <<reg, answer>>

TakeEffect(p) ==
    /\ pending[p] # Idle
    /\ answer[p] = NoAnswer
    /\ answer' = [answer EXCEPT ![p] = AnswerTo(reg, pending[p])]
    /\ reg' = EffectOf(reg, pending[p])
    /\ UNCHANGED pending

Return(p) ==
    /\ answer[p] # NoAnswer
    /\ pending' = [pending EXCEPT ![p] = Idle]
    /\ answer' = [answer EXCEPT ![p] = NoAnswer]
    /\ UNCHANGED reg

ANext == \E p \in Procs :
           \/ \E c \in Calls : Invoke(p, c)
           \/ TakeEffect(p)
           \/ Return(p)

ASpec == AInit /\ [][ANext]_avars
=============================================================================
