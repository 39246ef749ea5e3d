---------------------------- MODULE SigningProof ----------------------------
(***************************************************************************)
(* pkg/signing.  The registry is race-free, keeps its first registrations  *)
(* and implements the atomic registry, for any number of goroutines,       *)
(* identifiers and implementations.                                        *)
(*                                                                         *)
(* The parsers of keys.go and the algorithms agree on which key pairs can  *)
(* be used: for every set of key pairs and every file.  Suitable(alg, p)   *)
(* says it without files or Go types.  A parser reads the usable pairs in  *)
(* the formats it is for and nothing else (ReadPrivate, ReadPublic,        *)
(* WhatWasRead), and of these an algorithm takes both halves or neither    *)
(* (SignsSuitable, VerifiesSuitable).                                      *)
(*                                                                         *)
(* A signature goes from Sign to Verify unchanged or is refused: the two   *)
(* numbers of an ECDSA signature and their bytes are one to one            *)
(* (FilledIsRead, ReadIsFilled), whatever the length of a component.  The  *)
(* recursive functions of the encoding exist (Recursion), and a claim      *)
(* about them holds from byte to byte (NumberByNumber).                    *)
(***************************************************************************)
EXTENDS AlgorithmRegistry, KeyExchange, SigningExchange, SequenceTheorems, FiniteSetTheorems,
        WellFoundedInduction, TLAPS

-----------------------------------------------------------------------------
(* The registry.                                                           *)

LEMMA InitIInv == Init => IInv
  <1> SUFFICES ASSUME Init PROVE IInv
    OBVIOUS
  <1> USE RegistryAssumption DEF Init, Idle, NoAnswer, Abstract!Idle, Abstract!NoAnswer
  <1>1. TypeOK
    BY DEF TypeOK, PCs, Answers
  <1>2. LockInv
    BY DEF LockInv
  <1>3. CallInv
    BY DEF CallInv
  <1> QED
    BY <1>1, <1>2, <1>3 DEF IInv

\* A call in progress has a type its operation tells.
LEMMA CallTypes ==
    ASSUME TypeOK, NEW p \in Procs
    PROVE  /\ call[p].op = "register" => call[p].id \in Ids /\ call[p].impl \in Impls
           /\ call[p].op = "get" => call[p].id \in Ids
  BY DEF TypeOK, Abstract!Calls, Idle, Abstract!Idle

LEMMA StepTypeOK == IInv /\ [Next]_vars => TypeOK'
  <1> SUFFICES ASSUME IInv, [Next]_vars PROVE TypeOK'
    OBVIOUS
  <1> USE RegistryAssumption DEF TypeOK, PCs, Goto, lockVars, IInv
  <1>0. CASE UNCHANGED vars
    BY <1>0 DEF vars
  <1>1. ASSUME NEW p \in Procs, Start(p) PROVE TypeOK'
    BY <1>1 DEF Start, RegisterAlgorithm, GetAlgorithmEmpty, GetAlgorithm,
                SupportedAlgorithms, Abstract!Calls
  <1>2. ASSUME NEW p \in Procs, RegisterLock(p) PROVE TypeOK'
    BY <1>2 DEF RegisterLock, LockInner
  <1>3. ASSUME NEW p \in Procs, Step(p) PROVE TypeOK'
    <2>1. CASE RegisterEnter(p) \/ RegisterExists(p) \/ RegisterAbsent(p)
      BY <2>1 DEF RegisterEnter, RegisterExists, RegisterAbsent, Answers, ErrorAnswer
    <2>2. CASE RegisterInsert(p)
      <3>1. call[p].id \in Ids /\ call[p].impl \in Impls
        BY <2>2, CallTypes DEF CallInv, RegisterInsert
      <3> QED
        BY <2>2, <3>1 DEF RegisterInsert, Answers
    <2>3. CASE RegisterUnlock(p)
      BY <2>3 DEF RegisterUnlock, Unlock
    <2>4. CASE GetRefuse(p)
      BY <2>4 DEF GetRefuse, Answers, ErrorAnswer
    <2>5. CASE GetLookup(p)
      <3>1. call[p].id \in Ids
        BY <2>5, CallTypes DEF CallInv, GetLookup
      <3> QED
        BY <2>5, <3>1 DEF GetLookup, Answers, ErrorAnswer
    <2>6. CASE SupportedRange(p) \/ SupportedNext(p)
      BY <2>6 DEF SupportedRange, SupportedNext, Abstract!Registered
    <2>7. CASE SupportedDone(p)
      BY <2>7 DEF SupportedDone, Answers
    <2>8. CASE ReadLock(p) \/ ReadSleep(p) \/ ReadWake(p) \/ ReadUnlock(p)
      BY <2>8 DEF ReadLock, RLockEnter, ReadSleep, RLockSleep, ReadWake,
                  ReadUnlock, RUnlock, AfterRLock
    <2>9. CASE ReturnToCaller(p)
      BY <2>9 DEF ReturnToCaller, Answers, NoAnswer, Abstract!NoAnswer
    <2> QED
      BY <1>3, <2>1, <2>2, <2>3, <2>4, <2>5, <2>6, <2>7, <2>8, <2>9 DEF Step
  <1> QED
    BY <1>0, <1>1, <1>2, <1>3 DEF Next

LEMMA StepLockInv == IInv /\ [Next]_vars => LockInv'
  <1> SUFFICES ASSUME IInv, [Next]_vars PROVE LockInv'
    OBVIOUS
  <1> USE RegistryAssumption DEF LockInv, TypeOK, Goto, lockVars, IInv
  <1>0. CASE UNCHANGED vars
    BY <1>0 DEF vars
  <1>1. ASSUME NEW p \in Procs, Start(p) PROVE LockInv'
    BY <1>1 DEF Start, RegisterAlgorithm, GetAlgorithmEmpty, GetAlgorithm,
                SupportedAlgorithms
  <1>2. ASSUME NEW p \in Procs, RegisterLock(p) PROVE LockInv'
    BY <1>2 DEF RegisterLock, LockInner
  <1>3. ASSUME NEW p \in Procs, Step(p) PROVE LockInv'
    <2>1. CASE RegisterEnter(p) \/ RegisterExists(p) \/ RegisterAbsent(p)
      BY <2>1 DEF RegisterEnter, RegisterExists, RegisterAbsent, LockDrained
    <2>2. CASE RegisterInsert(p)
      BY <2>2 DEF RegisterInsert
    <2>3. CASE RegisterUnlock(p)
      BY <2>3 DEF RegisterUnlock, Unlock
    <2>4. CASE GetRefuse(p) \/ GetLookup(p)
      BY <2>4 DEF GetRefuse, GetLookup
    <2>6. CASE SupportedRange(p) \/ SupportedNext(p) \/ SupportedDone(p)
      BY <2>6 DEF SupportedRange, SupportedNext, SupportedDone
    <2>7. CASE ReadLock(p)
      BY <2>7 DEF ReadLock, RLockEnter, AfterRLock
    <2>8. CASE ReadSleep(p) \/ ReadWake(p) \/ ReadUnlock(p)
      BY <2>8 DEF ReadSleep, RLockSleep, ReadWake, ReadUnlock, RUnlock, AfterRLock
    <2>9. CASE ReturnToCaller(p)
      BY <2>9 DEF ReturnToCaller
    <2> QED
      BY <1>3, <2>1, <2>2, <2>3, <2>4, <2>6, <2>7, <2>8, <2>9 DEF Step
  <1> QED
    BY <1>0, <1>1, <1>2, <1>3 DEF Next

LEMMA StepCallInv == IInv /\ [Next]_vars => CallInv'
  <1> SUFFICES ASSUME IInv, [Next]_vars PROVE CallInv'
    OBVIOUS
  <1> USE RegistryAssumption DEF CallInv, TypeOK, Goto, lockVars, IInv,
        Idle, NoAnswer, Abstract!Idle, Abstract!NoAnswer, Abstract!Registered
  <1>0. CASE UNCHANGED vars
    BY <1>0 DEF vars
  <1>1. ASSUME NEW p \in Procs, Start(p) PROVE CallInv'
    BY <1>1 DEF Start, RegisterAlgorithm, GetAlgorithmEmpty, GetAlgorithm,
                SupportedAlgorithms
  <1>2. ASSUME NEW p \in Procs, RegisterLock(p) PROVE CallInv'
    BY <1>2 DEF RegisterLock, LockInner
  <1>3. ASSUME NEW p \in Procs, Step(p) PROVE CallInv'
    <2>1. CASE RegisterEnter(p) \/ RegisterExists(p) \/ RegisterAbsent(p)
      BY <2>1 DEF RegisterEnter, RegisterExists, RegisterAbsent, ErrorAnswer
    <2>2. CASE RegisterInsert(p)
      BY <2>2 DEF RegisterInsert, LockInv
    <2>3. CASE RegisterUnlock(p)
      BY <2>3 DEF RegisterUnlock, Unlock
    <2>4. CASE GetRefuse(p) \/ GetLookup(p)
      BY <2>4 DEF GetRefuse, GetLookup, ErrorAnswer
    <2>6. CASE SupportedRange(p) \/ SupportedNext(p) \/ SupportedDone(p)
      BY <2>6 DEF SupportedRange, SupportedNext, SupportedDone
    <2>7. CASE ReadLock(p) \/ ReadSleep(p) \/ ReadWake(p) \/ ReadUnlock(p)
      BY <2>7 DEF ReadLock, RLockEnter, ReadSleep, RLockSleep, ReadWake,
                  ReadUnlock, RUnlock, AfterRLock
    <2>9. CASE ReturnToCaller(p)
      BY <2>9 DEF ReturnToCaller
    <2> QED
      BY <1>3, <2>1, <2>2, <2>3, <2>4, <2>6, <2>7, <2>9 DEF Step
  <1> QED
    BY <1>0, <1>1, <1>2, <1>3 DEF Next

\* The invariant holds in every reachable state: each variable keeps its type,
\* the lock is held by exactly the goroutines inside a critical section, and
\* every program counter tells what its call has done so far.
THEOREM InvariantHolds == Spec => []IInv
  <1>1. IInv /\ [Next]_vars => IInv'
    BY StepTypeOK, StepLockInv, StepCallInv DEF IInv
  <1> QED
    BY <1>1, InitIInv, PTL DEF Spec

\* Every variable of the registry keeps its type (TypeOK).
THEOREM TypeCorrect == Spec => []TypeOK
  <1>1. IInv => TypeOK
    BY DEF IInv
  <1> QED
    BY <1>1, InvariantHolds, PTL

\* RegisterAlgorithm, GetAlgorithm and SupportedAlgorithms never access the
\* map concurrently with a write of it, for any number of goroutines.
THEOREM RaceFree == Spec => []NoDataRace
  <1>1. IInv => NoDataRace
    BY DEF IInv, TypeOK, LockInv, NoDataRace, Reading, Writing
  <1> QED
    BY <1>1, InvariantHolds, PTL

\* RegisterAlgorithm never replaces an implementation, whoever registers what
\* and however the calls interleave.
THEOREM FirstWins == Spec => FirstRegistrationWins
  <1> DEFINE Kept == \A id \in Ids : algorithmRegistry[id] # NoAlg =>
                        algorithmRegistry'[id] = algorithmRegistry[id]
  <1>1. IInv /\ [Next]_vars => [Kept]_vars
    <2> SUFFICES ASSUME IInv, Next PROVE Kept
      OBVIOUS
    <2> PICK p \in Procs : Start(p) \/ RegisterLock(p) \/ Step(p)
      BY DEF Next
    <2> USE DEF lockVars
    <2>1. CASE Start(p)
      BY <2>1 DEF Start, RegisterAlgorithm, GetAlgorithmEmpty, GetAlgorithm,
                  SupportedAlgorithms
    <2>2. CASE RegisterLock(p)
      BY <2>2 DEF RegisterLock
    <2>3. CASE RegisterInsert(p)
      BY <2>3 DEF RegisterInsert, Goto, IInv, TypeOK, CallInv
    <2>4. CASE Step(p) /\ ~RegisterInsert(p)
      BY <2>4 DEF Step, RegisterEnter, RegisterExists, RegisterAbsent,
           RegisterUnlock, GetRefuse, GetLookup, SupportedRange, SupportedNext,
           SupportedDone, ReadLock, ReadSleep, ReadWake, ReadUnlock,
           ReturnToCaller
    <2> QED
      BY <2>1, <2>2, <2>3, <2>4
  <1> QED
    BY <1>1, InvariantHolds, PTL DEF Spec, FirstRegistrationWins

\* Each step of the lock-based registry is a step of the atomic one or leaves
\* the atomic registry's state alone.
LEMMA StepSimulation == IInv /\ [Next]_vars => [Abstract!ANext]_(Abstract!avars)
  <1> SUFFICES ASSUME IInv, [Next]_vars
               PROVE  Abstract!ANext \/ UNCHANGED Abstract!avars
    OBVIOUS
  <1> USE DEF Goto, lockVars, Abstract!avars
  <1>0. CASE UNCHANGED vars
    BY <1>0 DEF vars
  <1>1. ASSUME NEW p \in Procs, Start(p) PROVE Abstract!ANext
    <2>1. PICK c \in Abstract!Calls : call' = [call EXCEPT ![p] = c]
      BY <1>1, RegistryAssumption
      DEF Start, RegisterAlgorithm, GetAlgorithmEmpty, GetAlgorithm,
          SupportedAlgorithms, Abstract!Calls
    <2>2. call[p] = Abstract!Idle /\ UNCHANGED <<algorithmRegistry, result>>
      BY <1>1 DEF Start, RegisterAlgorithm, GetAlgorithmEmpty, GetAlgorithm,
           SupportedAlgorithms, IInv, CallInv, Idle
    <2> QED
      BY <2>1, <2>2 DEF Abstract!ANext, Abstract!Invoke
  <1>2. ASSUME NEW p \in Procs, RegisterLock(p) PROVE UNCHANGED Abstract!avars
    BY <1>2 DEF RegisterLock
  <1>3. ASSUME NEW p \in Procs, Step(p)
        PROVE  Abstract!ANext \/ UNCHANGED Abstract!avars
    <2>1. CASE RegisterEnter(p) \/ RegisterAbsent(p) \/ RegisterUnlock(p)
               \/ SupportedRange(p) \/ SupportedNext(p) \/ ReadLock(p)
               \/ ReadSleep(p) \/ ReadWake(p) \/ ReadUnlock(p)
      BY <2>1 DEF RegisterEnter, RegisterAbsent, RegisterUnlock, SupportedRange,
           SupportedNext, ReadLock, ReadSleep, ReadWake, ReadUnlock
    <2>2. CASE RegisterExists(p) \/ RegisterInsert(p) \/ GetRefuse(p)
               \/ GetLookup(p) \/ SupportedDone(p)
      <3>1. call[p] # Abstract!Idle /\ result[p] = Abstract!NoAnswer
        BY <2>2 DEF RegisterExists, RegisterInsert, GetRefuse, GetLookup,
             SupportedDone, IInv, CallInv, Idle, NoAnswer
      <3>2. UNCHANGED call
        BY <2>2 DEF RegisterExists, RegisterInsert, GetRefuse, GetLookup, SupportedDone
      <3>3. /\ result' = [result EXCEPT ![p] = Abstract!AnswerTo(algorithmRegistry, call[p])]
            /\ algorithmRegistry' = Abstract!EffectOf(algorithmRegistry, call[p])
        <4> USE DEF IInv, CallInv, Abstract!AnswerTo, Abstract!EffectOf, ErrorAnswer
        <4>1. CASE RegisterExists(p)
          BY <4>1 DEF RegisterExists
        <4>2. CASE RegisterInsert(p)
          BY <4>2 DEF RegisterInsert
        <4>3. CASE GetRefuse(p)
          <5>1. call[p].op = "get" /\ call[p].id = EmptyID
            BY <4>3 DEF GetRefuse
          <5> QED
            BY <4>3, <5>1 DEF GetRefuse
        <4>4. CASE GetLookup(p)
          BY <4>4 DEF GetLookup
        <4>5. CASE SupportedDone(p)
          <5>1. algorithms[p] = Abstract!Registered(algorithmRegistry)
            BY <4>5 DEF SupportedDone
          <5> QED
            BY <4>5, <5>1 DEF SupportedDone
        <4> QED
          BY <2>2, <4>1, <4>2, <4>3, <4>4, <4>5
      <3> QED
        BY <3>1, <3>2, <3>3 DEF Abstract!ANext, Abstract!TakeEffect
    <2>3. CASE ReturnToCaller(p)
      <3>1. result[p] # Abstract!NoAnswer
        BY <2>3 DEF ReturnToCaller, IInv, CallInv, NoAnswer
      <3> QED
        BY <2>3, <3>1 DEF ReturnToCaller, Idle, NoAnswer, Abstract!ANext, Abstract!Return
    <2> QED
      BY <1>3, <2>1, <2>2, <2>3 DEF Step
  <1> QED
    BY <1>0, <1>1, <1>2, <1>3 DEF Next

\* The registry's calls are atomic: the lock-based code implements
\* AtomicRegistry, so a list is a snapshot of the map, a lookup sees every
\* registration that returned, and one registration per identifier succeeds.
THEOREM RegistryIsAtomic == Spec => Refinement
  <1>1. Init => Abstract!AInit
    BY DEF Init, Abstract!AInit, Idle, NoAnswer
  <1> QED
    BY <1>1, StepSimulation, InvariantHolds, PTL DEF Spec, Refinement, Abstract!ASpec

-----------------------------------------------------------------------------
(* Key pairs.                                                              *)

Suitable(alg, p) ==
    \/ alg = "ed25519" /\ p.kind = "Ed25519"
    \/ alg = "ecdsa-p256-sha256" /\ p.kind = "ECDSA" /\ p.size = "P-256"
    \/ alg = "ecdsa-p384-sha384" /\ p.kind = "ECDSA" /\ p.size = "P-384"
    \/ alg \in {"rsa-pss-sha512", "rsa-v1_5-sha256"} /\ p.kind = "RSA" /\ p.size >= 2048

\* The pairs the parsers accept.
Usable(p) ==
    p.kind \in {"RSA", "ECDSA", "Ed25519"} /\ (p.kind = "RSA" => p.size >= 2048)

\* What the verdict says of the two files and of who read them.
KInv ==
    /\ privateFile \in Files /\ publicFile \in Files
    /\ verdict \in {"none", "signed", "refused", "accepted", "rejected"}
    /\ verdict # "none" =>
         /\ signer.parser \in PrivateParsers /\ signer.alg \in Algorithms
         /\ LET parsed == PrivateKeyBy(signer.parser, privateFile)
            IN  /\ CanSign(parsed, signer.alg) <=> verdict # "refused"
                /\ parsed.ok => signer.key = parsed.key
    /\ verdict \in {"accepted", "rejected"} =>
         /\ verifier \in PublicParsers
         /\ LET parsed == PublicKeyBy(verifier, publicFile)
            IN  verdict = "accepted" <=>
                  CanVerify(parsed, signer.alg) /\ parsed.key.of = signer.key.of

-----------------------------------------------------------------------------
(* Files.                                                                  *)

\* A file has no block, or its first is a structure.
LEMMA FirstBlock ==
    ASSUME NEW file \in Files, file.blocks # <<>>
    PROVE  extractDERBytes(file) = file.blocks[1] /\ file.blocks[1] \in Structures
  <1>1. CASE \E der \in Structures : file \in FilesOf(der)
    <2>1. PICK der \in Structures : file \in FilesOf(der)
      BY <1>1
    <2>2. file.blocks = <<der>>
      BY <2>1 DEF FilesOf
    <2> QED
      BY <2>2 DEF extractDERBytes
  <1>2. CASE \E der \in Structures :
               file = [pem |-> TRUE, blocks |-> <<Structure("Other", Other), der>>]
    <2>1. file.blocks[1] = Structure("Other", Other)
      BY <1>2
    <2> QED
      BY <2>1 DEF extractDERBytes, Structures
  <1>3. CASE file = [pem |-> FALSE, blocks |-> <<>>]
    BY <1>3
  <1> QED
    BY <1>1, <1>2, <1>3 DEF Files

\* A structure is one of a pair in a form of its kind, or nothing.
LEMMA StructureCases ==
    ASSUME NEW der \in Structures
    PROVE  \/ der = Structure("Other", Other)
           \/ /\ der.pair \in KeyPairs
              /\ der = Structure(der.form, der.pair)
              /\ der.form \in PrivateForms(der.pair.kind) \cup PublicForms(der.pair.kind)
  BY DEF Structures, PrivateStructures, PublicStructures, Structure

\* The forms of a pair tell its kind.
LEMMA FormKinds ==
    ASSUME NEW kind \in Kinds, NEW form \in PrivateForms(kind) \cup PublicForms(kind)
    PROVE  /\ form \in {"PKCS8", "PKCS1", "SEC1", "PKIX", "PKCS1Public"}
           /\ form \in {"PKCS1", "PKCS1Public"} => kind = "RSA"
           /\ form = "SEC1" => kind = "ECDSA"
  BY DEF PrivateForms, PublicForms
\* Every parser of private keys reads the usable pairs in the formats it is for,
\* and they alone.
LEMMA ReadPrivate ==
    ASSUME NEW file \in Files, file.blocks # <<>>, NEW p \in KeyPairs,
           NEW form \in PrivateForms(p.kind) \cup PublicForms(p.kind),
           file.blocks[1] = Structure(form, p), NEW parser \in PrivateParsers
    PROVE  PrivateKeyBy(parser, file) =
             IF form \in FormsRead(parser) /\ Usable(p) THEN Parsed(PrivateKeyOf(p)) ELSE Failed
  <1> DEFINE key == PrivateKeyOf(p)
             der == extractDERBytes(file)
  <1>1. der = Structure(form, p)
    BY FirstBlock
  <1>2. p.kind \in Kinds
    BY KeyParsingAssumption
  <1>3. der.form = form /\ der.pair = p
    BY <1>1 DEF Structure
  <1>4. /\ form \in {"PKCS8", "PKCS1", "SEC1", "PKIX", "PKCS1Public"}
        /\ form = "PKCS1" => p.kind = "RSA"
        /\ form = "SEC1" => p.kind = "ECDSA"
    BY <1>2, FormKinds
  <1>5. p.kind \in {"RSA", "ECDSA", "Ed25519", "X25519", "DSA"}
    BY <1>2 DEF Kinds
  <1>6. /\ p.kind = "RSA" => key.form = "*rsa.PrivateKey" /\ key.size = p.size
        /\ p.kind = "ECDSA" => key.form = "*ecdsa.PrivateKey"
        /\ p.kind = "Ed25519" => key.form = "ed25519.PrivateKey"
        /\ p.kind = "X25519" => key.form = "*ecdh.PrivateKey"
    BY DEF PrivateKeyOf, Key
  <1> HIDE DEF key, der
  <1>7. p.kind # "DSA" => OfPKCS8(key) = IF Usable(p) THEN Parsed(key) ELSE Failed
    BY <1>5, <1>6 DEF OfPKCS8, Usable, validateRSAPrivateKey
  <1>8. p.kind = "DSA" => ~Usable(p)
    BY DEF Usable
  <1>9. /\ x509ParsePKCS8PrivateKey(der) =
             IF form = "PKCS8" /\ p.kind # "DSA" THEN Parsed(key) ELSE Failed
        /\ x509ParsePKCS1PrivateKey(der) = IF form = "PKCS1" THEN Parsed(key) ELSE Failed
        /\ x509ParseECPrivateKey(der) = IF form = "SEC1" THEN Parsed(key) ELSE Failed
    BY <1>3 DEF x509ParsePKCS8PrivateKey, x509ParsePKCS1PrivateKey, x509ParseECPrivateKey, key
  <1>10. /\ Parsed(key).ok /\ Parsed(key).key = key /\ ~Failed.ok
    BY DEF Parsed, Failed
  <1>11. p.kind = "RSA" => (validateRSAPrivateKey(key) <=> Usable(p))
    BY <1>6 DEF validateRSAPrivateKey, Usable
  <1>12. p.kind = "ECDSA" => Usable(p)
    BY DEF Usable
  <1>13. CASE parser = "ParsePrivateKey"
    <2>1. PrivateKeyBy(parser, file) = ParsePrivateKey(file)
      BY <1>13 DEF PrivateKeyBy
    <2>2. FormsRead(parser) = {"PKCS8", "PKCS1", "SEC1"}
      BY <1>13 DEF FormsRead
    <2>3. CASE form = "PKCS8"
      BY <1>7, <1>8, <1>9, <1>10, <2>1, <2>2, <2>3 DEF ParsePrivateKey, der, key
    <2>4. CASE form = "PKCS1"
      BY <1>4, <1>9, <1>10, <1>11, <2>1, <2>2, <2>4 DEF ParsePrivateKey, der, key
    <2>5. CASE form = "SEC1"
      BY <1>4, <1>9, <1>10, <1>12, <2>1, <2>2, <2>5 DEF ParsePrivateKey, der, key
    <2>6. CASE form \in {"PKIX", "PKCS1Public"}
      BY <1>9, <1>10, <2>1, <2>2, <2>6 DEF ParsePrivateKey, der, key
    <2> QED
      BY <1>4, <2>3, <2>4, <2>5, <2>6
  <1>14. CASE parser = "ParsePKCS8PrivateKey"
    <2>1. PrivateKeyBy(parser, file) = ParsePKCS8PrivateKey(file)
      BY <1>14 DEF PrivateKeyBy
    <2>2. FormsRead(parser) = {"PKCS8"}
      BY <1>14 DEF FormsRead
    <2> QED
      BY <1>7, <1>8, <1>9, <1>10, <2>1, <2>2 DEF ParsePKCS8PrivateKey, der, key
  <1>15. CASE parser = "ParsePKCS1PrivateKey"
    <2>1. PrivateKeyBy(parser, file) = ParsePKCS1PrivateKey(file)
      BY <1>15 DEF PrivateKeyBy
    <2>2. FormsRead(parser) = {"PKCS1"}
      BY <1>15 DEF FormsRead
    <2> QED
      BY <1>4, <1>9, <1>10, <1>11, <2>1, <2>2 DEF ParsePKCS1PrivateKey, der, key
  <1>16. CASE parser = "ParseSEC1PrivateKey"
    <2>1. PrivateKeyBy(parser, file) = ParseSEC1PrivateKey(file)
      BY <1>16 DEF PrivateKeyBy
    <2>2. FormsRead(parser) = {"SEC1"}
      BY <1>16 DEF FormsRead
    <2> QED
      BY <1>4, <1>9, <1>10, <1>12, <2>1, <2>2 DEF ParseSEC1PrivateKey, der, key
  <1> QED
    BY <1>13, <1>14, <1>15, <1>16 DEF PrivateParsers, key

\* The same for public keys.
LEMMA ReadPublic ==
    ASSUME NEW file \in Files, file.blocks # <<>>, NEW p \in KeyPairs,
           NEW form \in PrivateForms(p.kind) \cup PublicForms(p.kind),
           file.blocks[1] = Structure(form, p), NEW parser \in PublicParsers
    PROVE  PublicKeyBy(parser, file) =
             IF form \in FormsRead(parser) /\ Usable(p) THEN Parsed(PublicKeyOf(p)) ELSE Failed
  <1> DEFINE key == PublicKeyOf(p)
             der == extractDERBytes(file)
  <1>1. der = Structure(form, p)
    BY FirstBlock
  <1>2. p.kind \in Kinds
    BY KeyParsingAssumption
  <1>3. der.form = form /\ der.pair = p
    BY <1>1 DEF Structure
  <1>4. /\ form \in {"PKCS8", "PKCS1", "SEC1", "PKIX", "PKCS1Public"}
        /\ form = "PKCS1Public" => p.kind = "RSA"
    BY <1>2, FormKinds
  <1>5. p.kind \in {"RSA", "ECDSA", "Ed25519", "X25519", "DSA"}
    BY <1>2 DEF Kinds
  <1>6. /\ p.kind = "RSA" => key.form = "*rsa.PublicKey" /\ key.size = p.size
        /\ p.kind = "ECDSA" => key.form = "*ecdsa.PublicKey"
        /\ p.kind = "Ed25519" => key.form = "ed25519.PublicKey"
        /\ p.kind = "X25519" => key.form = "*ecdh.PublicKey"
        /\ p.kind = "DSA" => key.form = "*dsa.PublicKey"
    BY DEF PublicKeyOf, Key
  <1> HIDE DEF key, der
  <1>7. OfPKIX(key) = IF Usable(p) THEN Parsed(key) ELSE Failed
    BY <1>5, <1>6 DEF OfPKIX, Usable, validateRSAPublicKey
  <1>8. /\ x509ParsePKIXPublicKey(der) = IF form = "PKIX" THEN Parsed(key) ELSE Failed
        /\ x509ParsePKCS1PublicKey(der) = IF form = "PKCS1Public" THEN Parsed(key) ELSE Failed
    BY <1>3 DEF x509ParsePKIXPublicKey, x509ParsePKCS1PublicKey, key
  <1>9. /\ Parsed(key).ok /\ Parsed(key).key = key /\ ~Failed.ok
    BY DEF Parsed, Failed
  <1>10. p.kind = "RSA" => (validateRSAPublicKey(key) <=> Usable(p))
    BY <1>6 DEF validateRSAPublicKey, Usable
  <1>11. CASE parser = "ParsePublicKey"
    <2>1. PublicKeyBy(parser, file) = ParsePublicKey(file)
      BY <1>11 DEF PublicKeyBy
    <2>2. FormsRead(parser) = {"PKIX", "PKCS1Public"}
      BY <1>11 DEF FormsRead
    <2>3. CASE form = "PKIX"
      BY <1>7, <1>8, <1>9, <2>1, <2>2, <2>3 DEF ParsePublicKey, der, key
    <2>4. CASE form = "PKCS1Public"
      BY <1>4, <1>8, <1>9, <1>10, <2>1, <2>2, <2>4 DEF ParsePublicKey, der, key
    <2>5. CASE form \in {"PKCS8", "PKCS1", "SEC1"}
      BY <1>8, <1>9, <2>1, <2>2, <2>5 DEF ParsePublicKey, der, key
    <2> QED
      BY <1>4, <2>3, <2>4, <2>5
  <1>12. CASE parser = "ParsePKIXPublicKey"
    <2>1. PublicKeyBy(parser, file) = ParsePKIXPublicKey(file)
      BY <1>12 DEF PublicKeyBy
    <2>2. FormsRead(parser) = {"PKIX"}
      BY <1>12 DEF FormsRead
    <2> QED
      BY <1>7, <1>8, <1>9, <2>1, <2>2 DEF ParsePKIXPublicKey, der, key
  <1>13. CASE parser = "ParsePKCS1PublicKey"
    <2>1. PublicKeyBy(parser, file) = ParsePKCS1PublicKey(file)
      BY <1>13 DEF PublicKeyBy
    <2>2. FormsRead(parser) = {"PKCS1Public"}
      BY <1>13 DEF FormsRead
    <2> QED
      BY <1>4, <1>8, <1>9, <1>10, <2>1, <2>2 DEF ParsePKCS1PublicKey, der, key
  <1> QED
    BY <1>11, <1>12, <1>13 DEF PublicParsers, key

\* A file without a key is read by no parser.
LEMMA ReadNothing ==
    ASSUME NEW file \in Files,
           file.blocks = <<>> \/ file.blocks[1] = Structure("Other", Other)
    PROVE  /\ \A parser \in PrivateParsers : ~PrivateKeyBy(parser, file).ok
           /\ \A parser \in PublicParsers : ~PublicKeyBy(parser, file).ok
  <1> DEFINE der == extractDERBytes(file)
  <1>1. file.blocks # <<>> => der.form = "Other"
    BY FirstBlock DEF Structure
  <1>2. ~Failed.ok
    BY DEF Failed
  <1>3. file.blocks # <<>> =>
          /\ x509ParsePKCS8PrivateKey(der) = Failed /\ x509ParsePKCS1PrivateKey(der) = Failed
          /\ x509ParseECPrivateKey(der) = Failed
          /\ x509ParsePKIXPublicKey(der) = Failed /\ x509ParsePKCS1PublicKey(der) = Failed
    BY <1>1 DEF x509ParsePKCS8PrivateKey, x509ParsePKCS1PrivateKey, x509ParseECPrivateKey,
                x509ParsePKIXPublicKey, x509ParsePKCS1PublicKey
  <1> HIDE DEF der
  <1>4. /\ ParsePrivateKey(file) = Failed /\ ParsePKCS8PrivateKey(file) = Failed
        /\ ParsePKCS1PrivateKey(file) = Failed /\ ParseSEC1PrivateKey(file) = Failed
    BY <1>2, <1>3 DEF ParsePrivateKey, ParsePKCS8PrivateKey, ParsePKCS1PrivateKey,
                      ParseSEC1PrivateKey, der
  <1>5. /\ ParsePublicKey(file) = Failed /\ ParsePKIXPublicKey(file) = Failed
        /\ ParsePKCS1PublicKey(file) = Failed
    BY <1>2, <1>3 DEF ParsePublicKey, ParsePKIXPublicKey, ParsePKCS1PublicKey, der
  <1>6. \A parser \in PrivateParsers : PrivateKeyBy(parser, file) = Failed
    BY <1>4 DEF PrivateParsers, PrivateKeyBy
  <1>7. \A parser \in PublicParsers : PublicKeyBy(parser, file) = Failed
    BY <1>5 DEF PublicParsers, PublicKeyBy
  <1> QED
    BY <1>2, <1>6, <1>7

\* The converse of ReadPrivate and ReadPublic: what has been read is a usable pair.
LEMMA WhatWasRead ==
    ASSUME NEW file \in Files
    PROVE  /\ \A parser \in PrivateParsers : PrivateKeyBy(parser, file).ok =>
                \E p \in KeyPairs :
                  /\ Usable(p) /\ PrivateKeyBy(parser, file) = Parsed(PrivateKeyOf(p))
                  /\ ParsePrivateKey(file) = Parsed(PrivateKeyOf(p))
           /\ \A parser \in PublicParsers : PublicKeyBy(parser, file).ok =>
                \E p \in KeyPairs :
                  /\ Usable(p) /\ PublicKeyBy(parser, file) = Parsed(PublicKeyOf(p))
                  /\ ParsePublicKey(file) = Parsed(PublicKeyOf(p))
  <1>1. CASE file.blocks = <<>> \/ file.blocks[1] = Structure("Other", Other)
    BY <1>1, ReadNothing
  <1>2. CASE file.blocks # <<>> /\ file.blocks[1] # Structure("Other", Other)
    <2> DEFINE der  == file.blocks[1]
               p    == der.pair
               form == der.form
    <2>1. /\ p \in KeyPairs /\ der = Structure(form, p)
          /\ form \in PrivateForms(p.kind) \cup PublicForms(p.kind)
      BY <1>2, FirstBlock, StructureCases
    <2> HIDE DEF p, form
    <2>2. \A parser \in PrivateParsers : PrivateKeyBy(parser, file) =
            IF form \in FormsRead(parser) /\ Usable(p) THEN Parsed(PrivateKeyOf(p)) ELSE Failed
      BY <1>2, <2>1, ReadPrivate
    <2>3. \A parser \in PublicParsers : PublicKeyBy(parser, file) =
            IF form \in FormsRead(parser) /\ Usable(p) THEN Parsed(PublicKeyOf(p)) ELSE Failed
      BY <1>2, <2>1, ReadPublic
    <2>4. ~Failed.ok
      BY DEF Failed
    <2>5. /\ "ParsePrivateKey" \in PrivateParsers
          /\ PrivateKeyBy("ParsePrivateKey", file) = ParsePrivateKey(file)
          /\ "ParsePublicKey" \in PublicParsers
          /\ PublicKeyBy("ParsePublicKey", file) = ParsePublicKey(file)
      BY DEF PrivateParsers, PrivateKeyBy, PublicParsers, PublicKeyBy
    <2>6. /\ \A parser \in PrivateParsers : FormsRead(parser) \subseteq FormsRead("ParsePrivateKey")
          /\ \A parser \in PublicParsers : FormsRead(parser) \subseteq FormsRead("ParsePublicKey")
      BY DEF PrivateParsers, PublicParsers, FormsRead
    <2>7. ASSUME NEW parser \in PrivateParsers, PrivateKeyBy(parser, file).ok
          PROVE  /\ Usable(p) /\ PrivateKeyBy(parser, file) = Parsed(PrivateKeyOf(p))
                 /\ ParsePrivateKey(file) = Parsed(PrivateKeyOf(p))
      <3>1. form \in FormsRead(parser) /\ Usable(p)
        BY <2>2, <2>4, <2>7
      <3> QED
        BY <2>2, <2>5, <2>6, <3>1
    <2>8. ASSUME NEW parser \in PublicParsers, PublicKeyBy(parser, file).ok
          PROVE  /\ Usable(p) /\ PublicKeyBy(parser, file) = Parsed(PublicKeyOf(p))
                 /\ ParsePublicKey(file) = Parsed(PublicKeyOf(p))
      <3>1. form \in FormsRead(parser) /\ Usable(p)
        BY <2>3, <2>4, <2>8
      <3> QED
        BY <2>3, <2>5, <2>6, <3>1
    <2> QED
      BY <2>1, <2>7, <2>8
  <1> QED
    BY <1>1, <1>2

-----------------------------------------------------------------------------
(* Algorithms.                                                             *)

\* An algorithm signs with the private half of a usable pair if that is suitable.
LEMMA SignsSuitable ==
    ASSUME NEW p \in KeyPairs, Usable(p), NEW alg \in Algorithms
    PROVE  CanSign(Parsed(PrivateKeyOf(p)), alg) <=> Suitable(alg, p)
  <1> DEFINE key == PrivateKeyOf(p)
  <1>1. /\ Parsed(key).ok /\ Parsed(key).key = key
    BY DEF Parsed
  <1>2. /\ p.kind = "RSA" => key.form = "*rsa.PrivateKey" /\ key.size = p.size
        /\ p.kind = "ECDSA" => key.form = "*ecdsa.PrivateKey" /\ key.size = p.size
        /\ p.kind = "Ed25519" => key.form = "ed25519.PrivateKey" /\ key.size = 64
        /\ key.state = "set"
    BY DEF PrivateKeyOf, Key, Usable
  <1>3. p.kind \in {"RSA", "ECDSA", "Ed25519"} /\ (p.kind = "RSA" => p.size >= 2048)
    BY DEF Usable
  <1> HIDE DEF key
  <1>4. CanSign(Parsed(key), alg) <=> SignChecks(alg, Base, key) = "call"
    BY <1>1 DEF CanSign
  <1>5. CASE p.kind = "RSA"
    <2>1. RSAKey(key, "*rsa.PrivateKey") = "call"
      BY <1>2, <1>3, <1>5 DEF RSAKey
    <2>2. key.form = "*rsa.PrivateKey"
      BY <1>2, <1>5
    <2>3. SignChecks(alg, Base, key) = "call" <=> alg \in {"rsa-pss-sha512", "rsa-v1_5-sha256"}
      BY <2>1, <2>2, KeyExchangeAssumption
         DEF SignChecks, Algorithms, hmacSHA256Sign, ed25519Sign, ecdsaP256Sign, ecdsaP384Sign,
             rsaPSSSign, rsaPKCS1v15Sign, ECDSAKey
    <2> QED
      BY <1>3, <1>4, <1>5, <2>3 DEF Suitable, key
  <1>6. CASE p.kind = "ECDSA"
    <2>1. \A curve : ECDSAKey(key, "*ecdsa.PrivateKey", curve) = "call" <=> p.size = curve
      BY <1>2, <1>6 DEF ECDSAKey
    <2>2. key.form = "*ecdsa.PrivateKey"
      BY <1>2, <1>6
    <2>3. SignChecks(alg, Base, key) = "call" <=>
            \/ alg = "ecdsa-p256-sha256" /\ p.size = "P-256"
            \/ alg = "ecdsa-p384-sha384" /\ p.size = "P-384"
      BY <2>1, <2>2, KeyExchangeAssumption
         DEF SignChecks, Algorithms, hmacSHA256Sign, ed25519Sign, ecdsaP256Sign, ecdsaP384Sign,
             rsaPSSSign, rsaPKCS1v15Sign, RSAKey
    <2> QED
      BY <1>4, <1>6, <2>3 DEF Suitable, key
  <1>7. CASE p.kind = "Ed25519"
    <2>1. key.form = "ed25519.PrivateKey" /\ key.size = 64 /\ key.state = "set"
      BY <1>2, <1>7
    <2>2. SignChecks(alg, Base, key) = "call" <=> alg = "ed25519"
      BY <2>1, KeyExchangeAssumption
         DEF SignChecks, Algorithms, hmacSHA256Sign, ed25519Sign, ecdsaP256Sign, ecdsaP384Sign,
             rsaPSSSign, rsaPKCS1v15Sign, RSAKey, ECDSAKey
    <2> QED
      BY <1>4, <1>7, <2>2 DEF Suitable, key
  <1> QED
    BY <1>3, <1>5, <1>6, <1>7 DEF key

\* The signatures of the library have the length Verify looks for.
LEMMA SignatureLengths ==
    /\ Len(SignatureBytes("ed25519")) = edLen
    /\ decodeECDSASignature(SignatureBytes("ecdsa-p256-sha256"), p256Len) # NoPair
    /\ decodeECDSASignature(SignatureBytes("ecdsa-p384-sha384"), p384Len) # NoPair
    /\ \A alg \in Algorithms : SignatureBytes(alg) # <<>>
  <1>1. ASSUME NEW n \in Nat PROVE Len([i \in 1..n |-> 0]) = n
    <2>1. [i \in 1..n |-> 0] \in Seq({0})
      OBVIOUS
    <2> QED
      BY <2>1, LenProperties
  <1>2. \A alg \in Algorithms : SignatureBytes(alg) # <<>>
    <2>1. ASSUME NEW n \in Nat, n > 0 PROVE [i \in 1..n |-> 0] # <<>>
      BY <1>1, <2>1
    <2> QED
      BY <2>1, SigningAssumption DEF SignatureBytes, Algorithms
  <1>3. /\ SignatureBytes("ed25519") = [i \in 1..edLen |-> 0]
        /\ SignatureBytes("ecdsa-p256-sha256") = [i \in 1..(2 * p256Len) |-> 0]
        /\ SignatureBytes("ecdsa-p384-sha384") = [i \in 1..(2 * p384Len) |-> 0]
    BY DEF SignatureBytes
  <1>4. 2 * p256Len \in Nat /\ 2 * p384Len \in Nat /\ edLen \in Nat
    BY SigningAssumption
  <1>5. \A sig, n : Len(sig) = 2 * n => decodeECDSASignature(sig, n) # NoPair
    BY DEF decodeECDSASignature, NoPair
  <1> QED
    BY <1>1, <1>2, <1>3, <1>4, <1>5

\* The same for the public half and Verify.
LEMMA VerifiesSuitable ==
    ASSUME NEW p \in KeyPairs, Usable(p), NEW alg \in Algorithms
    PROVE  CanVerify(Parsed(PublicKeyOf(p)), alg) <=> Suitable(alg, p)
  <1> DEFINE key == PublicKeyOf(p)
             sig == SignatureBytes(alg)
             checks == VerifyChecks(alg, Base, sig, key)
  <1>1. Parsed(key).ok /\ Parsed(key).key = key
    BY DEF Parsed
  <1>2. /\ p.kind = "RSA" => key.form = "*rsa.PublicKey" /\ key.size = p.size
        /\ p.kind = "ECDSA" => key.form = "*ecdsa.PublicKey" /\ key.size = p.size
        /\ p.kind = "Ed25519" => key.form = "ed25519.PublicKey" /\ key.size = 32
        /\ key.state = "set"
    BY DEF PublicKeyOf, Key, Usable
  <1>3. p.kind \in {"RSA", "ECDSA", "Ed25519"} /\ (p.kind = "RSA" => p.size >= 2048)
    BY DEF Usable
  <1>4. /\ alg = "ed25519" => Len(sig) = edLen
        /\ alg = "ecdsa-p256-sha256" => decodeECDSASignature(sig, p256Len) # NoPair
        /\ alg = "ecdsa-p384-sha384" => decodeECDSASignature(sig, p384Len) # NoPair
        /\ sig # <<>>
    BY SignatureLengths
  <1> HIDE DEF key, sig
  <1>5. CanVerify(Parsed(key), alg) <=> checks = "call"
    BY <1>1 DEF CanVerify, sig
  <1>6. CASE p.kind = "RSA"
    <2>1. RSAKey(key, "*rsa.PublicKey") = "call"
      BY <1>2, <1>3, <1>6 DEF RSAKey
    <2>2. key.form = "*rsa.PublicKey"
      BY <1>2, <1>6
    <2>3. checks = "call" <=> alg \in {"rsa-pss-sha512", "rsa-v1_5-sha256"}
      BY <1>4, <2>1, <2>2, KeyExchangeAssumption
         DEF VerifyChecks, Algorithms, hmacSHA256Verify, ed25519Verify, ecdsaP256Verify,
             ecdsaP384Verify, rsaPSSVerify, rsaPKCS1v15Verify, ECDSAKey
    <2> QED
      BY <1>3, <1>5, <1>6, <2>3 DEF Suitable, key
  <1>7. CASE p.kind = "ECDSA"
    <2>1. \A curve : ECDSAKey(key, "*ecdsa.PublicKey", curve) = "call" <=> p.size = curve
      BY <1>2, <1>7 DEF ECDSAKey
    <2>2. key.form = "*ecdsa.PublicKey"
      BY <1>2, <1>7
    <2>3. checks = "call" <=>
            \/ alg = "ecdsa-p256-sha256" /\ p.size = "P-256"
            \/ alg = "ecdsa-p384-sha384" /\ p.size = "P-384"
      BY <1>4, <2>1, <2>2, KeyExchangeAssumption
         DEF VerifyChecks, Algorithms, hmacSHA256Verify, ed25519Verify, ecdsaP256Verify,
             ecdsaP384Verify, rsaPSSVerify, rsaPKCS1v15Verify, RSAKey
    <2> QED
      BY <1>5, <1>7, <2>3 DEF Suitable, key
  <1>8. CASE p.kind = "Ed25519"
    <2>1. key.form = "ed25519.PublicKey" /\ key.size = 32 /\ key.state = "set"
      BY <1>2, <1>8
    <2>2. checks = "call" <=> alg = "ed25519"
      BY <1>4, <2>1, KeyExchangeAssumption
         DEF VerifyChecks, Algorithms, hmacSHA256Verify, ed25519Verify, ecdsaP256Verify,
             ecdsaP384Verify, rsaPSSVerify, rsaPKCS1v15Verify, RSAKey, ECDSAKey
    <2> QED
      BY <1>5, <1>8, <2>2 DEF Suitable, key
  <1> QED
    BY <1>3, <1>6, <1>7, <1>8 DEF key

-----------------------------------------------------------------------------
(* The invariant.                                                          *)

LEMMA KInitHolds == KInit => KInv
  BY DEF KInit, KInv

LEMMA KSigning ==
    ASSUME KInv, NEW parser \in PrivateParsers, NEW alg \in Algorithms, SignWith(parser, alg)
    PROVE  KInv'
  <1> DEFINE parsed == PrivateKeyBy(parser, privateFile)
  <1>1. /\ signer' = [parser |-> parser, alg |-> alg,
                      key |-> IF parsed.ok THEN parsed.key ELSE NoKey]
        /\ verdict' = IF CanSign(parsed, alg) THEN "signed" ELSE "refused"
        /\ UNCHANGED <<privateFile, publicFile, verifier>>
    BY DEF SignWith
  <1> HIDE DEF parsed
  <1>2. /\ signer'.parser = parser /\ signer'.alg = alg
        /\ parsed.ok => signer'.key = parsed.key
        /\ verdict' \in {"signed", "refused"}
        /\ CanSign(parsed, alg) <=> verdict' # "refused"
    BY <1>1
  <1>3. PrivateKeyBy(signer'.parser, privateFile') = parsed
    BY <1>1, <1>2 DEF parsed
  <1> QED
    BY <1>1, <1>2, <1>3 DEF KInv

LEMMA KVerifying ==
    ASSUME KInv, NEW parser \in PublicParsers, VerifyWith(parser)
    PROVE  KInv'
  <1> DEFINE parsed == PublicKeyBy(parser, publicFile)
             fits   == CanVerify(parsed, signer.alg) /\ parsed.key.of = signer.key.of
  <1>1. /\ verdict = "signed"
        /\ verifier' = parser
        /\ verdict' = IF fits THEN "accepted" ELSE "rejected"
        /\ UNCHANGED <<privateFile, publicFile, signer>>
    BY DEF VerifyWith
  <1>2. /\ verdict' \in {"accepted", "rejected"}
        /\ verdict' = "accepted" <=> fits
    BY <1>1
  <1>3. PublicKeyBy(verifier', publicFile') = parsed
    BY <1>1
  <1>4. /\ privateFile' \in Files /\ publicFile' \in Files
        /\ signer'.parser \in PrivateParsers /\ signer'.alg \in Algorithms
        /\ LET mine == PrivateKeyBy(signer'.parser, privateFile')
           IN  /\ CanSign(mine, signer'.alg)
               /\ mine.ok => signer'.key = mine.key
    BY <1>1 DEF KInv
  <1> HIDE DEF parsed
  <1> QED
    BY <1>1, <1>2, <1>3, <1>4 DEF KInv

LEMMA KStep == KInv /\ [KNext]_kvars => KInv'
  <1> SUFFICES ASSUME KInv, [KNext]_kvars PROVE KInv'
    OBVIOUS
  <1>1. CASE \E parser \in PrivateParsers, alg \in Algorithms : SignWith(parser, alg)
    BY <1>1, KSigning
  <1>2. CASE \E parser \in PublicParsers : VerifyWith(parser)
    BY <1>2, KVerifying
  <1>3. CASE UNCHANGED kvars
    BY <1>3 DEF kvars, KInv
  <1> QED
    BY <1>1, <1>2, <1>3 DEF KNext

\* What the verdict says of the two files stays true.
THEOREM KeyFiles == KSpec => []KInv
  BY KInitHolds, KStep, PTL DEF KSpec

-----------------------------------------------------------------------------
(* The properties.                                                         *)

\* A file that holds a pair begins with its structure.
LEMMA HeldStructure ==
    ASSUME NEW file \in Files, NEW p \in KeyPairs, NEW parser, Holds(file, p, parser)
    PROVE  \E form \in PrivateForms(p.kind) \cup PublicForms(p.kind) :
             /\ file.blocks # <<>> /\ form \in FormsRead(parser)
             /\ file.blocks[1] = Structure(form, p)
  <1> DEFINE der == file.blocks[1]
  <1>1. /\ file.blocks # <<>> /\ der.pair = p /\ der.form \in FormsRead(parser)
    BY DEF Holds
  <1>2. der \in Structures
    BY <1>1, FirstBlock
  <1>3. der # Structure("Other", Other)
    BY <1>1, KeyParsingAssumption DEF Structure
  <1> HIDE DEF der
  <1>4. /\ der = Structure(der.form, p)
        /\ der.form \in PrivateForms(p.kind) \cup PublicForms(p.kind)
    BY <1>1, <1>2, <1>3, StructureCases
  <1> QED
    BY <1>1, <1>4 DEF der

\* What has signed was a suitable pair, and ParsePrivateKey would have read it.
LEMMA SignersPair ==
    ASSUME KInv, verdict \in {"signed", "accepted", "rejected"}
    PROVE  \E p \in KeyPairs :
             /\ Suitable(signer.alg, p) /\ signer.key = PrivateKeyOf(p)
             /\ ParsePrivateKey(privateFile) = Parsed(PrivateKeyOf(p))
  <1> DEFINE parsed == PrivateKeyBy(signer.parser, privateFile)
  <1>1. /\ signer.parser \in PrivateParsers /\ signer.alg \in Algorithms
        /\ privateFile \in Files /\ CanSign(parsed, signer.alg)
        /\ parsed.ok => signer.key = parsed.key
    BY DEF KInv
  <1>2. parsed.ok
    BY <1>1 DEF CanSign
  <1>3. PICK p \in KeyPairs : /\ Usable(p) /\ parsed = Parsed(PrivateKeyOf(p))
                              /\ ParsePrivateKey(privateFile) = Parsed(PrivateKeyOf(p))
    BY <1>1, <1>2, WhatWasRead
  <1> HIDE DEF parsed
  <1>4. signer.key = PrivateKeyOf(p)
    BY <1>1, <1>2, <1>3 DEF Parsed
  <1>5. Suitable(signer.alg, p)
    BY <1>1, <1>3, SignsSuitable
  <1> QED
    BY <1>3, <1>4, <1>5

\* A suitable pair is usable, and its halves name it.
LEMMA SuitablePair ==
    ASSUME NEW p \in KeyPairs, NEW alg, Suitable(alg, p)
    PROVE  Usable(p) /\ PrivateKeyOf(p).of = p.of /\ PublicKeyOf(p).of = p.of
  <1>1. Usable(p)
    BY DEF Suitable, Usable
  <1>2. p.kind \in {"RSA", "ECDSA", "Ed25519"}
    BY <1>1 DEF Usable
  <1> QED
    BY <1>1, <1>2 DEF PrivateKeyOf, PublicKeyOf, Key

\* What an algorithm has signed with a key from a file, it verifies with the public
\* key from any file of the pair that the function is for (ParsePublicKey,
\* ParsePKIXPublicKey, ParsePKCS1PublicKey and the checks of Verify).
THEOREM SignedThenAccepted == KSpec => []SignedIsAccepted
  <1>1. KInv => SignedIsAccepted
    <2> SUFFICES ASSUME KInv, verdict = "rejected", NEW p \in KeyPairs,
                        p.of = signer.key.of, Holds(publicFile, p, verifier)
                 PROVE  FALSE
      BY DEF SignedIsAccepted
    <2> DEFINE parsed == PublicKeyBy(verifier, publicFile)
    <2>1. PICK q \in KeyPairs : Suitable(signer.alg, q) /\ signer.key = PrivateKeyOf(q)
      BY SignersPair
    <2>2. q = p
      BY <2>1, SuitablePair, KeyParsingAssumption
    <2>3. Usable(p) /\ Suitable(signer.alg, p) /\ PublicKeyOf(p).of = p.of
      BY <2>1, <2>2, SuitablePair
    <2>4. /\ verifier \in PublicParsers /\ publicFile \in Files /\ signer.alg \in Algorithms
          /\ ~(CanVerify(parsed, signer.alg) /\ parsed.key.of = signer.key.of)
      BY DEF KInv
    <2>5. parsed = Parsed(PublicKeyOf(p))
      BY <2>3, <2>4, HeldStructure, ReadPublic
    <2>6. CanVerify(parsed, signer.alg)
      BY <2>3, <2>4, <2>5, VerifiesSuitable
    <2>7. parsed.key.of = p.of
      BY <2>3, <2>5 DEF Parsed
    <2> QED
      BY <2>4, <2>6, <2>7
  <1> QED
    BY <1>1, KeyFiles, PTL

\* Of a pair whose private key is refused for an algorithm, no file of the public
\* key passes for it (validateRSAPrivateKey, validateRSAPublicKey and the switches
\* on the type of a key).
THEOREM RefusedThenUnverifiable == KSpec => []RefusedOnBothSides
  <1>1. KInv => RefusedOnBothSides
    <2> SUFFICES ASSUME KInv, verdict = "refused", NEW p \in KeyPairs,
                        Holds(privateFile, p, signer.parser), NEW f \in PublicFilesOf(p),
                        CanVerify(ParsePublicKey(f), signer.alg)
                 PROVE  FALSE
      BY DEF RefusedOnBothSides
    <2> DEFINE parsed == PrivateKeyBy(signer.parser, privateFile)
    <2>1. /\ signer.parser \in PrivateParsers /\ privateFile \in Files
          /\ signer.alg \in Algorithms /\ ~CanSign(parsed, signer.alg)
      BY DEF KInv
    <2>2. PICK form \in PublicForms(p.kind) : f \in FilesOf(Structure(form, p))
      BY DEF PublicFilesOf
    <2>3. f.blocks # <<>> /\ f.blocks[1] = Structure(form, p)
      BY <2>2 DEF FilesOf
    <2>4. f \in Files
      <3>1. Structure(form, p) \in Structures
        BY DEF Structures, PublicStructures
      <3> QED
        BY <2>2, <3>1 DEF Files
    <2>5. /\ "ParsePublicKey" \in PublicParsers
          /\ PublicKeyBy("ParsePublicKey", f) = ParsePublicKey(f)
      BY DEF PublicParsers, PublicKeyBy
    <2>6. ParsePublicKey(f) = IF form \in FormsRead("ParsePublicKey") /\ Usable(p)
                              THEN Parsed(PublicKeyOf(p)) ELSE Failed
      BY <2>3, <2>4, <2>5, ReadPublic
    <2>7. ParsePublicKey(f) # Failed
      BY DEF CanVerify, Failed
    <2>8. Usable(p) /\ CanVerify(Parsed(PublicKeyOf(p)), signer.alg)
      BY <2>6, <2>7
    <2>9. Suitable(signer.alg, p)
      BY <2>1, <2>8, VerifiesSuitable
    <2>10. parsed = Parsed(PrivateKeyOf(p))
      BY <2>1, <2>8, HeldStructure, ReadPrivate
    <2>11. CanSign(parsed, signer.alg)
      BY <2>1, <2>8, <2>9, <2>10, SignsSuitable
    <2> QED
      BY <2>1, <2>11
  <1> QED
    BY <1>1, KeyFiles, PTL

\* ParsePrivateKey and ParsePublicKey return what the strict function for the
\* format of the file returns.
THEOREM StrictAgreesWithLenient == KSpec => []StrictIsLenient
  <1>1. KInv => StrictIsLenient
    <2> SUFFICES ASSUME KInv PROVE StrictIsLenient
      OBVIOUS
    <2>1. verdict \in {"signed", "accepted", "rejected"} =>
            ParsePrivateKey(privateFile) = Parsed(signer.key)
      BY SignersPair
    <2>2. ASSUME verdict = "accepted"
          PROVE  ParsePublicKey(publicFile) = PublicKeyBy(verifier, publicFile)
      <3>1. /\ verifier \in PublicParsers /\ publicFile \in Files
            /\ CanVerify(PublicKeyBy(verifier, publicFile), signer.alg)
        BY <2>2 DEF KInv
      <3>2. PublicKeyBy(verifier, publicFile).ok
        BY <3>1 DEF CanVerify
      <3> QED
        BY <3>1, <3>2, WhatWasRead
    <2> QED
      BY <2>1, <2>2 DEF StrictIsLenient
  <1> QED
    BY <1>1, KeyFiles, PTL

-----------------------------------------------------------------------------
(* Numbers one after the other.                                            *)

\* A claim about the first number and from each number to the next holds of all.
LEMMA NumberByNumber ==
    ASSUME NEW n \in Nat, NEW S, S \subseteq 0..n, 0 \in S,
           \A i \in 1..n : i - 1 \in S => i \in S
    PROVE  S = 0..n
  <1> DEFINE U == 0..n
             T == {0..i : i \in (0..n) \ S}
             R == StrictSubsetOrdering(U)
             F == FiniteSubsetsOf(U)
  <1>1. IsWellFoundedOn(R, F)
    BY FS_StrictSubsetOrderingWellFounded, FS_Interval
  <1>2. ASSUME NEW i \in 0..n PROVE 0..i \in F
    <2>1. IsFiniteSet(0..i)
      BY FS_Interval
    <2> QED
      BY <2>1 DEF FiniteSubsetsOf
  <1>3. SUFFICES ASSUME T # {} PROVE FALSE
    BY DEF T
  <1>4. T \subseteq F
    BY <1>2
  <1> HIDE DEF T, R, F
  <1>5. PICK x \in T : \A y \in T : ~(<<y, x>> \in R)
    BY ONLY <1>1, <1>3, <1>4, WFMin, Zenon
  <1>6. PICK i \in (0..n) \ S : x = 0..i
    BY DEF T
  <1>7. i - 1 \in (0..n) \ S
    BY <1>6
  <1>8. 0..(i - 1) \in T
    BY <1>7 DEF T
  <1>9. 0..(i - 1) \subseteq 0..i /\ i \notin 0..(i - 1) /\ i \in 0..i
    BY <1>7
  <1>10. <<0..(i - 1), 0..i>> \in R
    BY <1>9 DEF R, StrictSubsetOrdering
  <1> QED
    BY <1>5, <1>6, <1>8, <1>10

\* What is defined number by number exists.  next[i][x] is what follows x at i.
IsNext(next, n) == next \in [1..n -> [Nat -> Nat]]

Follows(f, a, next, n) ==
    f \in [0..n -> Nat] /\ f[0] = a /\ \A i \in 1..n : f[i] = next[i][f[i - 1]]

LEMMA Recursion ==
    ASSUME NEW n \in Nat, NEW a \in Nat, NEW G, IsNext(G, n)
    PROVE  \E f : Follows(f, a, G, n)
  <1> USE DEF IsNext
  <1> DEFINE Up(f, m) == f[0] = a /\ \A i \in 1..m : f[i] = G[i][f[i - 1]]
             S == {m \in 0..n : \E f \in [0..m -> Nat] : Up(f, m)}
  <1>1. 0 \in S
    <2> DEFINE f == [i \in 0..0 |-> a]
    <2>1. f \in [0..0 -> Nat] /\ Up(f, 0)
      OBVIOUS
    <2> HIDE DEF f, Up
    <2>2. \E g \in [0..0 -> Nat] : Up(g, 0)
      BY <2>1
    <2> QED
      BY <2>2
  <1>2. ASSUME NEW m \in 1..n, m - 1 \in S PROVE m \in S
    <2>1. PICK f \in [0..(m - 1) -> Nat] : Up(f, m - 1)
      BY <1>2
    <2>2. m - 1 \in 0..(m - 1) /\ f[m - 1] \in Nat
      OBVIOUS
    <2>3. G[m][f[m - 1]] \in Nat
      BY <2>2
    <2> DEFINE g == [i \in 0..m |-> IF i = m THEN G[m][f[m - 1]] ELSE f[i]]
    <2>4. ASSUME NEW i \in 0..m PROVE g[i] \in Nat
      <3>1. i = m \/ i \in 0..(m - 1)
        OBVIOUS
      <3> QED
        BY <2>3, <3>1
    <2>5. g \in [0..m -> Nat]
      BY <2>4
    <2>6. g[0] = a
      BY <2>1
    <2>7. ASSUME NEW i \in 1..m PROVE g[i] = G[i][g[i - 1]]
      <3>1. CASE i = m
        BY <3>1
      <3>2. CASE i # m
        <4>1. i \in 1..(m - 1) /\ i - 1 \in 0..m /\ i - 1 # m /\ i \in 0..m
          BY <3>2
        <4>2. f[i] = G[i][f[i - 1]]
          BY <2>1, <4>1
        <4> QED
          BY <3>2, <4>1, <4>2
      <3> QED
        BY <3>1, <3>2
    <2> HIDE DEF g
    <2>8. Up(g, m)
      BY <2>6, <2>7
    <2> HIDE DEF Up
    <2>9. \E h \in [0..m -> Nat] : Up(h, m)
      BY <2>5, <2>8
    <2>10. m \in 0..n
      OBVIOUS
    <2> QED
      BY <2>9, <2>10
  <1> HIDE DEF S
  <1>3. S = 0..n
    <2>1. S \subseteq 0..n
      BY DEF S
    <2> QED
      BY <1>1, <1>2, <2>1, NumberByNumber
  <1>4. n \in S
    BY <1>3
  <1>5. PICK f \in [0..n -> Nat] : Up(f, n)
    BY <1>4 DEF S
  <1>6. Follows(f, a, G, n)
    BY <1>5 DEF Follows
  <1> QED
    BY <1>6

-----------------------------------------------------------------------------
(* The encoding of ECDSA.                                                  *)

\* A number is its last byte and what is left of it without.
LEMMA ByteByByte ==
    /\ \A x \in Nat : /\ x \div ByteValues \in Nat /\ x % ByteValues \in Bytes
                      /\ x = (x \div ByteValues) * ByteValues + (x % ByteValues)
    /\ \A q \in Nat, b \in Bytes : /\ q * ByteValues + b \in Nat
                                   /\ (q * ByteValues + b) \div ByteValues = q
                                   /\ (q * ByteValues + b) % ByteValues = b
  <1>0. ByteValues \in Nat /\ ByteValues >= 2
    BY SigningAssumption
  <1> USE DEF Bytes
  <1>1. ASSUME NEW x \in Nat
        PROVE  /\ x \div ByteValues \in Nat /\ x % ByteValues \in Bytes
               /\ x = (x \div ByteValues) * ByteValues + (x % ByteValues)
    <2>1. x \div ByteValues \in Nat
      BY <1>0, Z3
    <2>2. x % ByteValues \in 0..(ByteValues - 1)
      BY <1>0, Z3
    <2>3. x = (x \div ByteValues) * ByteValues + (x % ByteValues)
      BY <1>0, Z3
    <2> QED
      BY <2>1, <2>2, <2>3, Zenon DEF Bytes
  <1>2. ASSUME NEW q \in Nat, NEW b \in Bytes
        PROVE  /\ q * ByteValues + b \in Nat
               /\ (q * ByteValues + b) \div ByteValues = q
               /\ (q * ByteValues + b) % ByteValues = b
    <2>1. q * ByteValues \in Nat
      BY <1>0
    <2> DEFINE v == q * ByteValues + b
    <2>2. v \in Nat /\ v = q * ByteValues + b
      BY <2>1
    <2> HIDE DEF v
    <2>3. v \div ByteValues = q /\ v % ByteValues = b
      BY <1>0, <2>2, Z3
    <2> QED
      BY <2>2, <2>3 DEF v
  <1> QED
    BY <1>1, <1>2

LEMMA LessIsLeft ==
    ASSUME NEW x \in Nat, NEW p \in Nat, x < ByteValues * p
    PROVE  x \div ByteValues < p
  <1> DEFINE q == x \div ByteValues
  <1>1. q \in Nat /\ x >= q * ByteValues /\ ByteValues \in Nat
    <2>1. ByteValues \in Nat /\ x % ByteValues \in Nat
      BY SigningAssumption, ByteByByte DEF Bytes
    <2>2. q \in Nat /\ x = q * ByteValues + (x % ByteValues)
      BY ByteByByte
    <2>3. q * ByteValues \in Nat
      BY <2>1, <2>2
    <2> DEFINE c == x % ByteValues
               m == q * ByteValues
    <2>4. c \in Nat /\ m \in Nat /\ x = m + c
      BY <2>1, <2>2, <2>3
    <2> HIDE DEF q, c, m
    <2>5. x >= m
      BY <2>4
    <2> QED
      BY <2>1, <2>2, <2>5 DEF m
  <1> HIDE DEF q
  <1>2. ASSUME q >= p PROVE FALSE
    <2>1. PICK d \in Nat : q = p + d
      <3>1. q - p \in Nat /\ q = p + (q - p)
        BY <1>1, <1>2
      <3> QED
        BY <3>1
    <2>2. q * ByteValues = ByteValues * p + d * ByteValues /\ d * ByteValues \in Nat
      BY <1>1, <2>1
    <2> QED
      BY <1>1, <2>2
  <1> QED
    BY <1>1, <1>2 DEF q

LEMMA Powers ==
    ASSUME NEW n \in Nat
    PROVE  \E p \in [0..n -> Nat] : /\ p[0] = 1 /\ Beyond(n) = p[n]
                                    /\ \A i \in 1..n : p[i] = ByteValues * p[i - 1]
  <1> DEFINE G    == [i \in 1..n |-> [x \in Nat |-> ByteValues * x]]
             F(f) == [i \in 0..n |-> IF i = 0 THEN 1 ELSE ByteValues * f[i - 1]]
             p    == CHOOSE f : f = F(f)
  <1>1. G \in [1..n -> [Nat -> Nat]] /\ \A i \in 1..n, x \in Nat : G[i][x] = ByteValues * x
    BY SigningAssumption
  <1> HIDE DEF G
  <1>2. PICK f \in [0..n -> Nat] : f[0] = 1 /\ \A i \in 1..n : f[i] = G[i][f[i - 1]]
    <2>1. n \in Nat /\ 1 \in Nat /\ IsNext(G, n)
      BY <1>1 DEF IsNext
    <2>2. PICK f : Follows(f, 1, G, n)
      BY ONLY <2>1, Recursion
    <2> QED
      BY <2>2 DEF Follows
  <1>3. ASSUME NEW i \in 0..n PROVE f[i] = IF i = 0 THEN 1 ELSE ByteValues * f[i - 1]
    <2>1. CASE i # 0
      <3>1. i \in 1..n /\ f[i - 1] \in Nat
        BY <2>1
      <3> QED
        BY <1>1, <1>2, <2>1, <3>1
    <2> QED
      BY <1>2, <2>1
  <1>4. f = F(f)
    BY <1>3
  <1>5. Beyond(n) = p[n]
    BY DEF Beyond
  <1> HIDE DEF F, p
  <1>6. p = F(p)
    BY <1>4 DEF p
  <1>7. p[0] = 1 /\ \A i \in 1..n : p[i] = ByteValues * p[i - 1]
    BY <1>6 DEF F
  <1>8. \A i \in 0..n : p[i] \in Nat
    <2> DEFINE S == {i \in 0..n : p[i] \in Nat}
    <2>1. 0 \in S /\ S \subseteq 0..n
      BY <1>7
    <2>2. \A i \in 1..n : i - 1 \in S => i \in S
      BY <1>7, SigningAssumption
    <2> HIDE DEF S
    <2>3. S = 0..n
      BY <2>1, <2>2, NumberByNumber
    <2> QED
      BY <2>3 DEF S
  <1>9. p \in [0..n -> Nat]
    BY <1>6, <1>8 DEF F
  <1> QED
    BY <1>5, <1>7, <1>9

\* What is left of x after each of its bytes.
Leaves(left, x, n) == left[0] = x /\ \A i \in 1..n : left[i] = left[i - 1] \div ByteValues

LEMMA Filled ==
    ASSUME NEW n \in Nat, NEW x \in Nat
    PROVE  \E left \in [0..n -> Nat] :
             /\ Leaves(left, x, n)
             /\ FillBytes(x, n) = [i \in 1..n |-> left[n - i] % ByteValues]
  <1> DEFINE G    == [i \in 1..n |-> [y \in Nat |-> y \div ByteValues]]
             F(f) == [k \in 0..n |-> IF k = 0 THEN x ELSE f[k - 1] \div ByteValues]
             p    == CHOOSE f : f = F(f)
  <1>1. G \in [1..n -> [Nat -> Nat]] /\ \A i \in 1..n, y \in Nat : G[i][y] = y \div ByteValues
    BY ByteByByte
  <1> HIDE DEF G
  <1>2. PICK f \in [0..n -> Nat] : f[0] = x /\ \A i \in 1..n : f[i] = G[i][f[i - 1]]
    <2>1. n \in Nat /\ x \in Nat /\ IsNext(G, n)
      BY <1>1 DEF IsNext
    <2>2. PICK f : Follows(f, x, G, n)
      BY ONLY <2>1, Recursion
    <2> QED
      BY <2>2 DEF Follows
  <1>3. ASSUME NEW i \in 0..n PROVE f[i] = IF i = 0 THEN x ELSE f[i - 1] \div ByteValues
    <2>1. CASE i # 0
      <3>1. i \in 1..n /\ f[i - 1] \in Nat
        BY <2>1
      <3> QED
        BY <1>1, <1>2, <2>1, <3>1
    <2> QED
      BY <1>2, <2>1
  <1>4. f = F(f)
    BY <1>3
  <1>5. FillBytes(x, n) = [i \in 1..n |-> p[n - i] % ByteValues]
    BY DEF FillBytes
  <1> HIDE DEF F, p
  <1>6. p = F(p)
    BY <1>4 DEF p
  <1>7. p[0] = x /\ \A i \in 1..n : p[i] = p[i - 1] \div ByteValues
    BY <1>6 DEF F
  <1>8. \A i \in 0..n : p[i] \in Nat
    <2> DEFINE S == {i \in 0..n : p[i] \in Nat}
    <2>1. 0 \in S /\ S \subseteq 0..n
      BY <1>7
    <2>2. \A i \in 1..n : i - 1 \in S => i \in S
      <3>1. ASSUME NEW i \in 1..n, i - 1 \in S PROVE i \in S
        <4>1. p[i - 1] \in Nat /\ p[i] = p[i - 1] \div ByteValues /\ i \in 0..n
          BY <1>7, <3>1
        <4> QED
          BY <4>1, ByteByByte
      <3> QED
        BY <3>1
    <2> HIDE DEF S
    <2>3. S = 0..n
      BY <2>1, <2>2, NumberByNumber
    <2> QED
      BY <2>3 DEF S
  <1>9. p \in [0..n -> Nat]
    BY <1>6, <1>8 DEF F
  <1> QED
    BY <1>5, <1>7, <1>9 DEF Leaves

\* What the bytes up to each one are worth.
Worth(v, s) == v[0] = 0 /\ \A i \in 1..Len(s) : v[i] = v[i - 1] * ByteValues + s[i]

LEMMA SetTo ==
    ASSUME NEW s \in Seq(Bytes)
    PROVE  \E v \in [0..Len(s) -> Nat] : Worth(v, s) /\ SetBytes(s) = v[Len(s)]
  <1> DEFINE n    == Len(s)
             G    == [i \in 1..n |-> [y \in Nat |-> y * ByteValues + s[i]]]
             F(f) == [i \in 0..n |-> IF i = 0 THEN 0 ELSE f[i - 1] * ByteValues + s[i]]
             p    == CHOOSE f : f = F(f)
  <1>0. n \in Nat /\ \A i \in 1..n : s[i] \in Bytes
    OBVIOUS
  <1>5. SetBytes(s) = p[n]
    BY DEF SetBytes
  <1> HIDE DEF n
  <1>1. G \in [1..n -> [Nat -> Nat]] /\ \A i \in 1..n, y \in Nat : G[i][y] = y * ByteValues + s[i]
    BY <1>0, ByteByByte
  <1> HIDE DEF G
  <1>2. PICK f \in [0..n -> Nat] : f[0] = 0 /\ \A i \in 1..n : f[i] = G[i][f[i - 1]]
    <2>1. n \in Nat /\ 0 \in Nat /\ IsNext(G, n)
      BY <1>0, <1>1 DEF IsNext
    <2>2. PICK f : Follows(f, 0, G, n)
      BY ONLY <2>1, Recursion
    <2> QED
      BY <2>2 DEF Follows
  <1>3. ASSUME NEW i \in 0..n PROVE f[i] = IF i = 0 THEN 0 ELSE f[i - 1] * ByteValues + s[i]
    <2>1. CASE i # 0
      <3>1. i \in 1..n /\ f[i - 1] \in Nat
        BY <1>0, <2>1
      <3> QED
        BY <1>1, <1>2, <2>1, <3>1
    <2> QED
      BY <1>2, <2>1
  <1>4. f = F(f)
    BY <1>3
  <1> HIDE DEF F, p
  <1>6. p = F(p)
    BY <1>4 DEF p
  <1>7. p[0] = 0 /\ \A i \in 1..n : p[i] = p[i - 1] * ByteValues + s[i]
    BY <1>0, <1>6 DEF F
  <1>8. \A i \in 0..n : p[i] \in Nat
    <2> DEFINE S == {i \in 0..n : p[i] \in Nat}
    <2>1. 0 \in S /\ S \subseteq 0..n
      BY <1>0, <1>7
    <2>2. \A i \in 1..n : i - 1 \in S => i \in S
      <3>1. ASSUME NEW i \in 1..n, i - 1 \in S PROVE i \in S
        <4>1. /\ p[i - 1] \in Nat /\ p[i] = p[i - 1] * ByteValues + s[i]
              /\ i \in 0..n /\ s[i] \in Bytes
          BY <1>0, <1>7, <3>1
        <4>2. p[i] \in Nat
          BY <4>1, ByteByByte
        <4> QED
          BY <4>1, <4>2
      <3> QED
        BY <3>1
    <2> HIDE DEF S
    <2>3. S = 0..n
      BY <1>0, <2>1, <2>2, NumberByNumber
    <2> QED
      BY <2>3 DEF S
  <1>9. p \in [0..n -> Nat]
    BY <1>6, <1>8 DEF F
  <1> QED
    BY <1>5, <1>7, <1>9 DEF Worth, n

\* Every number that fits comes back from its bytes, leading zeros and all.
LEMMA FilledIsRead ==
    ASSUME NEW n \in Nat, NEW x \in Nat, x < Beyond(n)
    PROVE  /\ FillBytes(x, n) \in Seq(Bytes) /\ Len(FillBytes(x, n)) = n
           /\ SetBytes(FillBytes(x, n)) = x
  <1> DEFINE s == FillBytes(x, n)
  <1>1. PICK left \in [0..n -> Nat] :
          Leaves(left, x, n) /\ s = [i \in 1..n |-> left[n - i] % ByteValues]
    BY Filled
  <1>2. PICK p \in [0..n -> Nat] : /\ p[0] = 1 /\ Beyond(n) = p[n]
                                  /\ \A i \in 1..n : p[i] = ByteValues * p[i - 1]
    BY Powers
  <1> HIDE DEF s
  <1>3. s \in Seq(Bytes) /\ Len(s) = n /\ \A i \in 1..n : s[i] = left[n - i] % ByteValues
    <2>1. \A i \in 1..n : left[n - i] % ByteValues \in Bytes
      <3>1. \A i \in 1..n : n - i \in 0..n
        OBVIOUS
      <3> QED
        BY <3>1, ByteByByte
    <2> QED
      BY <1>1, <2>1
  <1>4. \A k \in 0..n : left[k] < p[n - k]
    <2> DEFINE S == {k \in 0..n : left[k] < p[n - k]}
    <2>1. 0 \in S /\ S \subseteq 0..n
      BY <1>1, <1>2 DEF Leaves
    <2>2. ASSUME NEW k \in 1..n, k - 1 \in S PROVE k \in S
      <3>1. /\ n - (k - 1) \in 1..n /\ n - k \in 0..n /\ k \in 0..n /\ k - 1 \in 0..n
            /\ (n - (k - 1)) - 1 = n - k
        OBVIOUS
      <3>2. left[k - 1] \in Nat /\ p[n - k] \in Nat /\ left[k - 1] < ByteValues * p[n - k]
        BY <1>2, <2>2, <3>1
      <3>3. left[k] = left[k - 1] \div ByteValues
        BY <1>1 DEF Leaves
      <3>4. left[k] < p[n - k]
        BY <3>2, <3>3, LessIsLeft
      <3> QED
        BY <3>1, <3>4
    <2> HIDE DEF S
    <2>3. S = 0..n
      BY <2>1, <2>2, NumberByNumber
    <2> QED
      BY <2>3 DEF S
  <1>5. left[n] = 0
    <2>1. n \in 0..n /\ n - n = 0
      OBVIOUS
    <2>2. left[n] \in Nat /\ left[n] < 1
      BY <1>2, <1>4, <2>1
    <2> QED
      BY <2>2
  <1>6. PICK v \in [0..n -> Nat] : Worth(v, s) /\ SetBytes(s) = v[n]
    BY <1>3, SetTo
  <1>7. \A i \in 0..n : v[i] = left[n - i]
    <2> DEFINE S == {i \in 0..n : v[i] = left[n - i]}
    <2>1. 0 \in S /\ S \subseteq 0..n
      BY <1>5, <1>6 DEF Worth
    <2>2. ASSUME NEW i \in 1..n, i - 1 \in S PROVE i \in S
      <3>1. /\ n - (i - 1) \in 1..n /\ n - i \in 0..n /\ i \in 0..n
            /\ (n - (i - 1)) - 1 = n - i
        OBVIOUS
      <3>2. v[i] = left[n - (i - 1)] * ByteValues + s[i]
        BY <1>3, <1>6, <2>2 DEF Worth
      <3>3. left[n - (i - 1)] = left[n - i] \div ByteValues /\ left[n - i] \in Nat
        BY <1>1, <3>1 DEF Leaves
      <3>4. v[i] = (left[n - i] \div ByteValues) * ByteValues + (left[n - i] % ByteValues)
        BY <1>3, <3>2, <3>3
      <3>5. v[i] = left[n - i]
        BY <3>3, <3>4, ByteByByte
      <3> QED
        BY <3>1, <3>5
    <2> HIDE DEF S
    <2>3. S = 0..n
      BY <2>1, <2>2, NumberByNumber
    <2> QED
      BY <2>3 DEF S
  <1>8. SetBytes(s) = x
    <2>1. n \in 0..n /\ n - n = 0
      OBVIOUS
    <2> QED
      BY <1>1, <1>6, <1>7, <2>1 DEF Leaves
  <1> QED
    BY <1>3, <1>8 DEF s

\* Bytes are what the number they are read as is written with: there is no second
\* form of it.
LEMMA ReadIsFilled ==
    ASSUME NEW s \in Seq(Bytes)
    PROVE  SetBytes(s) \in Nat /\ FillBytes(SetBytes(s), Len(s)) = s
  <1> DEFINE n == Len(s)
             x == SetBytes(s)
  <1>1. n \in Nat /\ \A i \in 1..n : s[i] \in Bytes
    OBVIOUS
  <1>2. PICK v \in [0..n -> Nat] : Worth(v, s) /\ x = v[n]
    BY SetTo
  <1>3. x \in Nat
    BY <1>1, <1>2
  <1> HIDE DEF x
  <1>4. PICK left \in [0..n -> Nat] :
          Leaves(left, x, n) /\ FillBytes(x, n) = [i \in 1..n |-> left[n - i] % ByteValues]
    BY <1>1, <1>3, Filled
  <1> HIDE DEF n
  <1>5. \A k \in 0..n : left[k] = v[n - k]
    <2> DEFINE S == {k \in 0..n : left[k] = v[n - k]}
    <2>1. 0 \in S /\ S \subseteq 0..n
      BY <1>1, <1>2, <1>4 DEF Leaves
    <2>2. ASSUME NEW k \in 1..n, k - 1 \in S PROVE k \in S
      <3>1. /\ n - (k - 1) \in 1..n /\ n - k \in 0..n /\ k \in 0..n
            /\ (n - (k - 1)) - 1 = n - k
        BY <1>1
      <3> DEFINE i == n - (k - 1)
      <3>2. v[i] = v[n - k] * ByteValues + s[i] /\ s[i] \in Bytes /\ v[n - k] \in Nat
        BY <1>1, <1>2, <3>1 DEF Worth, n
      <3>3. left[k] = v[i] \div ByteValues
        BY <1>4, <2>2 DEF Leaves
      <3> HIDE DEF i
      <3>4. left[k] = v[n - k]
        BY <3>2, <3>3, ByteByByte
      <3> QED
        BY <3>1, <3>4
    <2> HIDE DEF S
    <2>3. S = 0..n
      BY <1>1, <2>1, <2>2, NumberByNumber
    <2> QED
      BY <2>3 DEF S
  <1>6. ASSUME NEW i \in 1..n PROVE left[n - i] % ByteValues = s[i]
    <2>1. n - i \in 0..n /\ n - (n - i) = i /\ i - 1 \in 0..n
      BY <1>1
    <2>2. left[n - i] = v[i]
      BY <1>5, <2>1
    <2>3. v[i] = v[i - 1] * ByteValues + s[i] /\ v[i - 1] \in Nat /\ s[i] \in Bytes
      BY <1>1, <1>2, <2>1 DEF Worth, n
    <2>4. (v[i - 1] * ByteValues + s[i]) % ByteValues = s[i]
      BY <2>3, ByteByByte
    <2> QED
      BY <2>2, <2>3, <2>4
  <1>7. s = [i \in 1..n |-> s[i]]
    BY DEF n
  <1>8. FillBytes(x, n) = s
    BY <1>4, <1>6, <1>7
  <1> QED
    BY <1>3, <1>8 DEF x, n

LEMMA TwoHalves ==
    ASSUME NEW a \in Seq(Bytes), NEW b \in Seq(Bytes), NEW n \in Nat, Len(a) = n, Len(b) = n
    PROVE  /\ a \o b \in Seq(Bytes) /\ Len(a \o b) = 2 * n
           /\ SubSeq(a \o b, 1, n) = a /\ SubSeq(a \o b, n + 1, Len(a \o b)) = b
  <1> DEFINE s == a \o b
  <1>1. n \in Nat /\ s \in Seq(Bytes) /\ Len(s) = 2 * n
    <2>1. a \o b \in Seq(Bytes) /\ Len(a \o b) = Len(a) + Len(b)
      BY ConcatProperties
    <2>2. s \in Seq(Bytes) /\ Len(s) = n + n
      BY <2>1
    <2> HIDE DEF s
    <2> QED
      BY <2>2
  <1>2. /\ \A i \in 1..n : s[i] = a[i]
        /\ \A i \in 1..n : s[n + i] = b[i]
    <2>0. \A i \in 1..(Len(a) + Len(b)) :
            (a \o b)[i] = IF i <= Len(a) THEN a[i] ELSE b[i - Len(a)]
      BY ConcatProperties
    <2>1. \A i \in 1..(n + n) : s[i] = IF i <= n THEN a[i] ELSE b[i - n]
      BY <2>0
    <2>2. \A i \in 1..n : /\ i \in 1..(n + n) /\ i <= n
                         /\ n + i \in 1..(n + n) /\ ~(n + i <= n) /\ (n + i) - n = i
      BY <1>1
    <2> HIDE DEF s
    <2> QED
      BY <2>1, <2>2
  <1> HIDE DEF s
  <1>3. SubSeq(s, 1, n) \in Seq(Bytes) /\ Len(SubSeq(s, 1, n)) = n
    BY <1>1
  <1>4. \A i \in 1..n : SubSeq(s, 1, n)[i] = a[i]
    BY <1>1, <1>2
  <1>5. SubSeq(s, 1, n) = a
    BY <1>3, <1>4, SeqEqual
  <1>6. SubSeq(s, n + 1, Len(s)) \in Seq(Bytes) /\ Len(SubSeq(s, n + 1, Len(s))) = n
    BY <1>1
  <1>7. \A i \in 1..n : SubSeq(s, n + 1, Len(s))[i] = b[i]
    BY <1>1, <1>2
  <1>8. SubSeq(s, n + 1, Len(s)) = b
    BY <1>6, <1>7, SeqEqual
  <1> QED
    BY <1>1, <1>5, <1>8 DEF s

LEMMA CutInHalves ==
    ASSUME NEW T, NEW s \in Seq(T), NEW n \in Nat, Len(s) = 2 * n
    PROVE  /\ SubSeq(s, 1, n) \in Seq(T) /\ Len(SubSeq(s, 1, n)) = n
           /\ SubSeq(s, n + 1, Len(s)) \in Seq(T) /\ Len(SubSeq(s, n + 1, Len(s))) = n
           /\ SubSeq(s, 1, n) \o SubSeq(s, n + 1, Len(s)) = s
  OBVIOUS

\* The two numbers of a signature and their encoding.
LEMMA EncodedIsDecoded ==
    ASSUME NEW n \in Nat, NEW r \in 1..(Beyond(n) - 1), NEW s \in 1..(Beyond(n) - 1)
    PROVE  /\ encodeECDSASignature(r, s, n) \in Seq(Bytes)
           /\ Len(encodeECDSASignature(r, s, n)) = 2 * n
           /\ decodeECDSASignature(encodeECDSASignature(r, s, n), n) = <<r, s>>
  <1>0. Beyond(n) \in Nat
    <2>1. PICK p \in [0..n -> Nat] : Beyond(n) = p[n]
      BY Powers
    <2> QED
      BY <2>1
  <1>1. r \in Nat /\ s \in Nat /\ r < Beyond(n) /\ s < Beyond(n)
    BY <1>0
  <1> DEFINE a == FillBytes(r, n)
             b == FillBytes(s, n)
  <1>2. /\ a \in Seq(Bytes) /\ Len(a) = n /\ SetBytes(a) = r
        /\ b \in Seq(Bytes) /\ Len(b) = n /\ SetBytes(b) = s
    BY <1>1, FilledIsRead
  <1>3. encodeECDSASignature(r, s, n) = a \o b
    BY DEF encodeECDSASignature
  <1> HIDE DEF a, b
  <1>4. /\ a \o b \in Seq(Bytes) /\ Len(a \o b) = 2 * n
        /\ SubSeq(a \o b, 1, n) = a /\ SubSeq(a \o b, n + 1, Len(a \o b)) = b
    BY <1>2, TwoHalves
  <1>5. decodeECDSASignature(a \o b, n) = <<r, s>>
    BY <1>2, <1>4 DEF decodeECDSASignature
  <1> QED
    BY <1>3, <1>4, <1>5

LEMMA ECDSAFits ==
    ASSUME NEW n \in Nat \ {0}, NEW v \in (1..(Beyond(n) - 1)) \X (1..(Beyond(n) - 1))
    PROVE  LET sig == encodeECDSASignature(v[1], v[2], n)
           IN  sig # <<>> /\ decodeECDSASignature(sig, n) # NoPair
  <1> DEFINE sig == encodeECDSASignature(v[1], v[2], n)
  <1>1. v[1] \in 1..(Beyond(n) - 1) /\ v[2] \in 1..(Beyond(n) - 1)
    OBVIOUS
  <1>2. /\ sig \in Seq(Bytes) /\ Len(sig) = 2 * n
        /\ decodeECDSASignature(sig, n) = <<v[1], v[2]>>
    BY <1>1, EncodedIsDecoded
  <1> HIDE DEF sig
  <1>3. sig # <<>>
    BY <1>2
  <1>4. <<v[1], v[2]>> # <<>>
    OBVIOUS
  <1> QED
    BY <1>2, <1>3, <1>4 DEF sig, NoPair

LEMMA DecodedIsEncoded ==
    ASSUME NEW n \in Nat \ {0}, NEW sig \in Seq(Bytes), decodeECDSASignature(sig, n) # NoPair
    PROVE  LET pair == decodeECDSASignature(sig, n)
           IN  encodeECDSASignature(pair[1], pair[2], n) = sig
  <1>1. Len(sig) = 2 * n
    BY DEF decodeECDSASignature
  <1> DEFINE a == SubSeq(sig, 1, n)
             b == SubSeq(sig, n + 1, Len(sig))
  <1>2. decodeECDSASignature(sig, n) = <<SetBytes(a), SetBytes(b)>>
    BY <1>1 DEF decodeECDSASignature
  <1>3. a \in Seq(Bytes) /\ Len(a) = n /\ b \in Seq(Bytes) /\ Len(b) = n /\ a \o b = sig
    BY <1>1, CutInHalves
  <1> HIDE DEF a, b
  <1>4. FillBytes(SetBytes(a), n) = a /\ FillBytes(SetBytes(b), n) = b
    BY <1>3, ReadIsFilled
  <1> QED
    BY <1>2, <1>3, <1>4 DEF encodeECDSASignature

-----------------------------------------------------------------------------
(* Signer and verifier.                                                    *)

\* What the library computes with, and the bytes have room for.
LEMMA OrdersFit ==
    /\ 1..(p256N - 1) \subseteq 1..(Beyond(p256Len) - 1)
    /\ 1..(p384N - 1) \subseteq 1..(Beyond(p384Len) - 1)
  <1>1. p256Len \in Nat /\ p384Len \in Nat
    BY SigningAssumption
  <1>2. ASSUME NEW n \in Nat PROVE Beyond(n) \in Nat
    <2>1. PICK p \in [0..n -> Nat] : Beyond(n) = p[n]
      BY Powers
    <2> QED
      BY <2>1
  <1>3. Beyond(p256Len) \in Nat /\ Beyond(p384Len) \in Nat
    BY <1>1, <1>2
  <1> QED
    BY <1>3, OrderAssumption

\* What the library returned comes back from the bytes Sign makes of it.
LEMMA WrittenIsReadBack ==
    ASSUME NEW alg \in Algorithms, NEW v \in LibraryValues(alg)
    PROVE  Written(alg, v) \in Seq(Bytes) /\ ReadBack(alg, Written(alg, v)) = v
  <1>1. {macLen, edLen, p256Len, p384Len} \subseteq Nat \ {0}
    BY SigningAssumption
  <1>2. CASE alg = "ecdsa-p256-sha256"
    <2>1. v[1] \in 1..(Beyond(p256Len) - 1) /\ v[2] \in 1..(Beyond(p256Len) - 1) /\ v = <<v[1], v[2]>>
      BY <1>2, OrdersFit DEF LibraryValues
    <2> QED
      BY <1>1, <1>2, <2>1, EncodedIsDecoded DEF Written, ReadBack
  <1>3. CASE alg = "ecdsa-p384-sha384"
    <2>1. v[1] \in 1..(Beyond(p384Len) - 1) /\ v[2] \in 1..(Beyond(p384Len) - 1) /\ v = <<v[1], v[2]>>
      BY <1>3, OrdersFit DEF LibraryValues
    <2> QED
      BY <1>1, <1>3, <2>1, EncodedIsDecoded DEF Written, ReadBack
  <1>4. CASE alg \notin {"ecdsa-p256-sha256", "ecdsa-p384-sha384"}
    <2>1. PICK n \in Nat : v \in [1..n -> Bytes]
      BY <1>1, <1>4 DEF LibraryValues, Algorithms
    <2>2. v \in Seq(Bytes)
      BY <2>1
    <2> QED
      BY <1>4, <2>2 DEF Written, ReadBack
  <1> QED
    BY <1>2, <1>3, <1>4

\* Bytes that pass the checks of Verify are what Sign makes of what they are read as.
LEMMA ReadBackIsWritten ==
    ASSUME NEW alg \in Algorithms, NEW sig \in Seq(Bytes), NEW base, NEW key,
           VerifyChecks(alg, base, sig, key) = "call"
    PROVE  Written(alg, ReadBack(alg, sig)) = sig
  <1>1. p256Len \in Nat \ {0} /\ p384Len \in Nat \ {0}
    BY SigningAssumption
  <1>2. CASE alg = "ecdsa-p256-sha256"
    <2>1. decodeECDSASignature(sig, p256Len) # NoPair
      BY <1>2 DEF VerifyChecks, ecdsaP256Verify
    <2> QED
      BY <1>1, <1>2, <2>1, DecodedIsEncoded DEF Written, ReadBack
  <1>3. CASE alg = "ecdsa-p384-sha384"
    <2>1. decodeECDSASignature(sig, p384Len) # NoPair
      BY <1>3 DEF VerifyChecks, ecdsaP384Verify
    <2> QED
      BY <1>1, <1>3, <2>1, DecodedIsEncoded DEF Written, ReadBack
  <1>4. CASE alg \notin {"ecdsa-p256-sha256", "ecdsa-p384-sha384"}
    BY <1>4 DEF Written, ReadBack
  <1> QED
    BY <1>2, <1>3, <1>4

\* The bytes of what the library returned.
Shown(e) == [alg |-> e.alg, of |-> e.of, base |-> e.base, bytes |-> Written(e.alg, e.value)]

\* Everything the library returned was asked for by a Sign that passed its checks.
Issued == \A e \in issued : /\ e.alg \in Algorithms /\ e.value \in LibraryValues(e.alg)
                            /\ e = [alg |-> e.alg, of |-> e.of, base |-> e.base, value |-> e.value]
                            /\ \E key \in SigningKeys : SignChecks(e.alg, e.base, key) = "call"

Answer(q) ==
    IF VerifyChecks(q.alg, q.base, q.bytes, q.key) # "call"
    THEN VerifyChecks(q.alg, q.base, q.bytes, q.key)
    ELSE IF Accepts(q.alg, q.key.of, q.base, ReadBack(q.alg, q.bytes)) THEN "ok" ELSE "error"

\* The inductive invariant: what was made is what was issued, and what a Verify
\* was asked is answered from that.
XInv ==
    /\ Issued
    /\ made = {Shown(e) : e \in issued}
    /\ bytes \in Seq(Bytes)
    /\ asked # NotAsked => /\ asked.alg \in Algorithms /\ asked.key \in VerifyingKeys
                           /\ asked.bytes \in Seq(Bytes)
                           /\ outcome = Answer(asked)

LEMMA XStep == XInv /\ [XNext]_xvars => XInv'
  <1> SUFFICES ASSUME XInv, [XNext]_xvars PROVE XInv'
    OBVIOUS
  <1>1. CASE Sign
    <2>1. asked = NotAsked /\ asked' = NotAsked
      BY <1>1 DEF Sign
    <2>2. PICK alg \in Algorithms, base \in Bases, key \in SigningKeys :
            \/ /\ SignChecks(alg, base, key) = "call"
               /\ Issue(alg, key.of, base)
            \/ UNCHANGED <<issued, made, bytes>>
      BY <1>1 DEF Sign
    <2>3. CASE UNCHANGED <<issued, made, bytes>>
      BY <2>1, <2>3 DEF XInv, Issued
    <2>4. CASE SignChecks(alg, base, key) = "call" /\ Issue(alg, key.of, base)
      <3> DEFINE Entry(v) == [alg |-> alg, of |-> key.of, base |-> base, value |-> v]
      <3>1. PICK v \in LibraryValues(alg) :
              /\ issued' = issued \cup {Entry(v)}
              /\ made' = made \cup {[alg |-> alg, of |-> key.of, base |-> base,
                                     bytes |-> Written(alg, v)]}
              /\ bytes' = Written(alg, v)
        BY <2>4 DEF Issue
      <3> DEFINE e == Entry(v)
      <3>2. /\ e.alg = alg /\ e.of = key.of /\ e.base = base /\ e.value = v
            /\ e = [alg |-> e.alg, of |-> e.of, base |-> e.base, value |-> e.value]
        OBVIOUS
      <3> HIDE DEF Entry, e
      <3>3. issued' = issued \cup {e} /\ made' = made \cup {Shown(e)}
        BY <3>1, <3>2 DEF Shown, e
      <3>4. Issued'
        <4> SUFFICES ASSUME NEW x \in issued'
                     PROVE  /\ x.alg \in Algorithms /\ x.value \in LibraryValues(x.alg)
                            /\ x = [alg |-> x.alg, of |-> x.of, base |-> x.base, value |-> x.value]
                            /\ \E k \in SigningKeys : SignChecks(x.alg, x.base, k) = "call"
          BY DEF Issued
        <4>1. CASE x \in issued
          BY <4>1 DEF XInv, Issued
        <4>2. CASE x = e
          BY <2>4, <3>2, <4>2
        <4> QED
          BY <3>3, <4>1, <4>2
      <3>5. made' = {Shown(x) : x \in issued'}
        BY <3>3 DEF XInv
      <3>6. bytes' \in Seq(Bytes)
        BY <3>1, WrittenIsReadBack
      <3> QED
        BY <2>1, <3>4, <3>5, <3>6 DEF XInv
    <2> QED
      BY <2>2, <2>3, <2>4
  <1>2. CASE Damage
    <2>1. asked = NotAsked /\ asked' = NotAsked /\ UNCHANGED <<issued, made>>
      BY <1>2 DEF Damage
    <2>2. bytes \in Seq(Bytes) /\ 0 \in Bytes
      BY SigningAssumption DEF XInv, Bytes
    <2>3. bytes' \in Seq(Bytes)
      <3>1. CASE bytes' = SubSeq(bytes, 2, Len(bytes))
        <4>1. \A i \in 2..Len(bytes) : bytes[i] \in Bytes
          BY <2>2
        <4>2. 2 \in Int /\ Len(bytes) \in Int
          BY <2>2
        <4> QED
          BY <3>1, <4>1, <4>2, SubSeqProperties
      <3>2. CASE bytes' = <<0>> \o bytes
        <4>1. <<0>> \in Seq(Bytes)
          BY <2>2
        <4> QED
          BY <2>2, <3>2, <4>1, ConcatProperties
      <3>3. CASE \E i \in 1..Len(bytes), b \in Bytes : bytes' = [bytes EXCEPT ![i] = b]
        BY <2>2, <3>3
      <3> QED
        BY <1>2, <3>1, <3>2, <3>3 DEF Damage
    <2> QED
      BY <2>1, <2>3 DEF XInv, Issued
  <1>3. CASE Verify
    <2>1. UNCHANGED <<issued, made, bytes>>
      BY <1>3 DEF Verify
    <2>2. PICK alg \in Algorithms, base \in Bases, key \in VerifyingKeys :
            /\ asked' = [alg |-> alg, key |-> key, base |-> base, bytes |-> bytes]
            /\ outcome' =
                 IF VerifyChecks(alg, base, bytes, key) # "call"
                 THEN VerifyChecks(alg, base, bytes, key)
                 ELSE IF Accepts(alg, key.of, base, ReadBack(alg, bytes)) THEN "ok" ELSE "error"
      BY <1>3 DEF Verify
    <2>3. asked'.alg = alg /\ asked'.key = key /\ asked'.base = base /\ asked'.bytes = bytes
      BY <2>2
    <2>4. (outcome = Answer(asked))'
      BY <2>1, <2>2, <2>3 DEF Answer, Accepts
    <2> QED
      BY <2>1, <2>3, <2>4 DEF XInv, Issued
  <1>4. CASE UNCHANGED xvars
    BY <1>4 DEF xvars, XInv, Issued, Answer, Accepts
  <1> QED
    BY <1>1, <1>2, <1>3, <1>4 DEF XNext

\* What Verify is asked is answered from what Sign has issued.
THEOREM SigningInvariant == XSpec => []XInv
  <1>1. XInit => XInv
    BY DEF XInit, XInv, Issued, NotAsked
  <1> QED
    BY <1>1, XStep, PTL DEF XSpec

\* What Verify accepts is an encoding of what was issued for that base, key and
\* algorithm or, for ECDSA, of its other form, and each of them has one encoding,
\* for every size of keys and signatures.
THEOREM AcceptedHasOneEncoding == XSpec => []OneEncodingEach
  <1>1. XInv => OneEncodingEach
    <2> SUFFICES ASSUME XInv, asked # NotAsked, outcome = "ok"
                 PROVE  \E e \in issued :
                          /\ e.alg = asked.alg /\ e.of = asked.key.of /\ e.base = asked.base
                          /\ \E v \in Forms(e.alg, e.value) : asked.bytes = Written(e.alg, v)
      BY DEF OneEncodingEach
    <2>1. asked.alg \in Algorithms /\ asked.bytes \in Seq(Bytes) /\ outcome = Answer(asked)
      BY DEF XInv
    <2> DEFINE checks == VerifyChecks(asked.alg, asked.base, asked.bytes, asked.key)
               value  == ReadBack(asked.alg, asked.bytes)
               yes    == Accepts(asked.alg, asked.key.of, asked.base, value)
    <2>2. checks \in {"call", "error", "panic"}
      BY <2>1 DEF Algorithms, VerifyChecks, hmacSHA256Verify, ed25519Verify, ecdsaP256Verify,
         ecdsaP384Verify, rsaPSSVerify, rsaPKCS1v15Verify, ECDSAKey, RSAKey
    <2>3. checks = "call" /\ yes
      <3> HIDE DEF checks, yes
      <3>1. outcome = IF checks # "call" THEN checks ELSE IF yes THEN "ok" ELSE "error"
        BY <2>1, Zenon DEF Answer, checks, yes
      <3> QED
        BY <2>2, <3>1
    <2>4. Written(asked.alg, value) = asked.bytes
      BY <2>1, <2>3, ReadBackIsWritten
    <2>5. PICK e \in issued : /\ e.alg = asked.alg /\ e.of = asked.key.of /\ e.base = asked.base
                             /\ value \in Forms(asked.alg, e.value)
      BY <2>3 DEF Accepts
    <2> QED
      BY <2>4, <2>5
  <1> QED
    BY <1>1, SigningInvariant, PTL

\* Of a key pair both sides take or refuse their half, and what one side writes has
\* the length that the other one asks for.
LEMMA PairsFit ==
    ASSUME NEW alg \in Algorithms, NEW v \in LibraryValues(alg), NEW base, NEW k, NEW key,
           k \in SigningKeys, key \in VerifyingKeys, Fits(key, alg, key.of),
           SignChecks(alg, base, k) = "call"
    PROVE  VerifyChecks(alg, base, Written(alg, v), key) = "call"
  <1>1. base # EmptyBase
    BY DEF Algorithms, SignChecks, hmacSHA256Sign, ed25519Sign, ecdsaP256Sign,
       ecdsaP384Sign, rsaPSSSign, rsaPKCS1v15Sign
  <1>2. PICK s \in SigningKeys :
          /\ s.of = key.of /\ SignChecks(alg, "base", s) = "call"
          /\ key.form = CASE s.form = "[]byte"             -> "[]byte"
                          [] s.form = "ed25519.PrivateKey" -> "ed25519.PublicKey"
                          [] s.form = "*ecdsa.PrivateKey"  -> "*ecdsa.PublicKey"
                          [] s.form = "*rsa.PrivateKey"    -> "*rsa.PublicKey"
    BY DEF Fits
  <1>3. key.state = "set"
    BY DEF Fits
  <1>4. /\ macLen \in Nat \ {0} /\ edLen \in Nat \ {0}
        /\ p256Len \in Nat \ {0} /\ p384Len \in Nat \ {0}
    BY SigningAssumption
  <1>5. s.state = "set" /\ s.of = key.of => 
          /\ s.form = "[]byte" /\ key.form = "[]byte" => key.size = s.size
          /\ s.form = "*ecdsa.PrivateKey" /\ key.form = "*ecdsa.PublicKey" => key.size = s.size
          /\ s.form = "*rsa.PrivateKey" /\ key.form = "*rsa.PublicKey" => key.size = s.size
          /\ s.form = "ed25519.PrivateKey" /\ key.form = "ed25519.PublicKey" /\ s.size = 64
               => key.size = 32
    BY <1>3, ExchangedKeysAssumption
  <1>11. s.state \in {"set", "nil", "zero"}
    BY ExchangedKeysAssumption
  <1>6. CASE alg = "hmac-sha256"
    <2>1. s.form = "[]byte" /\ s.state = "set" /\ s.size >= 16
      BY <1>2, <1>6 DEF SignChecks, hmacSHA256Sign
    <2>2. Len(Written(alg, v)) = macLen
      BY <1>4, <1>6 DEF LibraryValues, Written
    <2>3. key.form = "[]byte" /\ key.size >= 16
      BY <1>2, <1>5, <2>1
    <2> QED
      BY <1>1, <1>3, <1>6, <2>2, <2>3 DEF VerifyChecks, hmacSHA256Verify
  <1>7. CASE alg = "ed25519"
    <2>1. s.form = "ed25519.PrivateKey" /\ s.state = "set" /\ s.size = 64
      BY <1>2, <1>7 DEF SignChecks, ed25519Sign
    <2>2. Len(Written(alg, v)) = edLen
      BY <1>4, <1>7 DEF LibraryValues, Written
    <2>3. key.form = "ed25519.PublicKey" /\ key.size = 32
      BY <1>2, <1>5, <2>1
    <2> QED
      BY <1>1, <1>3, <1>7, <2>2, <2>3 DEF VerifyChecks, ed25519Verify
  <1>8. CASE alg = "ecdsa-p256-sha256"
    <2>1. s.form = "*ecdsa.PrivateKey" /\ s.state = "set" /\ s.size = "P-256"
      BY <1>2, <1>8, <1>11 DEF SignChecks, ecdsaP256Sign, ECDSAKey
    <2>2. key.form = "*ecdsa.PublicKey" /\ key.size = "P-256"
      BY <1>2, <1>5, <2>1
    <2>3. ECDSAKey(key, "*ecdsa.PublicKey", "P-256") = "call"
      BY <1>3, <2>2 DEF ECDSAKey
    <2>4. v \in (1..(Beyond(p256Len) - 1)) \X (1..(Beyond(p256Len) - 1))
      BY <1>8, OrdersFit DEF LibraryValues
    <2> QED
      BY <1>1, <1>4, <1>8, <2>3, <2>4, ECDSAFits DEF VerifyChecks, ecdsaP256Verify, Written
  <1>9. CASE alg = "ecdsa-p384-sha384"
    <2>1. s.form = "*ecdsa.PrivateKey" /\ s.state = "set" /\ s.size = "P-384"
      BY <1>2, <1>9, <1>11 DEF SignChecks, ecdsaP384Sign, ECDSAKey
    <2>2. key.form = "*ecdsa.PublicKey" /\ key.size = "P-384"
      BY <1>2, <1>5, <2>1
    <2>3. ECDSAKey(key, "*ecdsa.PublicKey", "P-384") = "call"
      BY <1>3, <2>2 DEF ECDSAKey
    <2>4. v \in (1..(Beyond(p384Len) - 1)) \X (1..(Beyond(p384Len) - 1))
      BY <1>9, OrdersFit DEF LibraryValues
    <2> QED
      BY <1>1, <1>4, <1>9, <2>3, <2>4, ECDSAFits DEF VerifyChecks, ecdsaP384Verify, Written
  <1>10. CASE alg \in {"rsa-pss-sha512", "rsa-v1_5-sha256"}
    <2>1. RSAKey(s, "*rsa.PrivateKey") = "call"
      BY <1>2, <1>10 DEF SignChecks, rsaPSSSign, rsaPKCS1v15Sign
    <2>2. s.form = "*rsa.PrivateKey" /\ s.state = "set" /\ s.size >= 2048
      BY <2>1 DEF RSAKey
    <2>3. key.form = "*rsa.PublicKey" /\ key.size >= 2048
      BY <1>2, <1>5, <2>2
    <2>4. RSAKey(key, "*rsa.PublicKey") = "call"
      BY <1>3, <2>3 DEF RSAKey
    <2>5. Written(alg, v) # <<>>
      BY <1>10 DEF LibraryValues, Written
    <2> QED
      BY <1>1, <1>10, <2>4, <2>5 DEF VerifyChecks, rsaPSSVerify, rsaPKCS1v15Verify
  <1> QED
    BY <1>6, <1>7, <1>8, <1>9, <1>10 DEF Algorithms

\* Verify accepts what Sign returned, for all keys, bases and lengths: a number with
\* leading zero bytes is read as what it was.
THEOREM SignedIsVerified == XSpec => []SignedVerifies
  <1>1. XInv => SignedVerifies
    <2> DEFINE q == [alg |-> asked.alg, of |-> asked.key.of, base |-> asked.base,
                     bytes |-> asked.bytes]
    <2> SUFFICES ASSUME XInv, asked # NotAsked, Fits(asked.key, asked.alg, asked.key.of),
                        q \in made
                 PROVE  outcome = "ok"
      BY DEF SignedVerifies
    <2>1. PICK e \in issued : q = Shown(e)
      BY DEF XInv
    <2>2. /\ e.alg = asked.alg /\ e.of = asked.key.of /\ e.base = asked.base
          /\ Written(e.alg, e.value) = asked.bytes
      BY <2>1 DEF Shown
    <2>3. /\ e.alg \in Algorithms /\ e.value \in LibraryValues(e.alg)
          /\ e = [alg |-> e.alg, of |-> e.of, base |-> e.base, value |-> e.value]
          /\ \E key \in SigningKeys : SignChecks(e.alg, e.base, key) = "call"
      BY DEF XInv, Issued
    <2>4. ReadBack(asked.alg, asked.bytes) = e.value
      BY <2>2, <2>3, WrittenIsReadBack
    <2>5. VerifyChecks(asked.alg, asked.base, asked.bytes, asked.key) = "call"
      <3>1. asked.key \in VerifyingKeys
        BY DEF XInv
      <3> QED
        BY <2>2, <2>3, <3>1, PairsFit
    <2>6. Accepts(asked.alg, asked.key.of, asked.base, ReadBack(asked.alg, asked.bytes))
      <3>1. e.value \in Forms(asked.alg, e.value)
        BY DEF Forms
      <3> QED
        BY <2>2, <2>4, <3>1 DEF Accepts
    <2>7. outcome = Answer(asked)
      BY DEF XInv
    <2> QED
      BY <2>5, <2>6, <2>7 DEF Answer
  <1> QED
    BY <1>1, SigningInvariant, PTL
=============================================================================
