--------------------------- MODULE RegistryProofs ---------------------------
(***************************************************************************)
(* Proofs about Registry for every set of goroutines, names and            *)
(* constructors: type correctness, the lock discipline, the reserved       *)
(* names, and the refinement of AtomicRegistry.                            *)
(***************************************************************************)
EXTENDS Registry, TLAPS

\* Labels at which the goroutine holds the write lock, or has claimed it.
Claimed   == LockPCs
Exclusive == {"write", "writing", "unlock"}
Reading   == {"read", "runlock"}

\* The lock's bookkeeping agrees with where every goroutine is.
LockDiscipline ==
  /\ \A g \in Goroutines : pc[g] \in Claimed <=> writer = g
  /\ \A g \in Goroutines : pc[g] \in Reading => g \in readers
  /\ \A g \in readers : pc[g] \in Reading \union {"rwait"}
  /\ \A g \in waiting : pc[g] = "rwait" /\ g \notin readers
  /\ \A g \in Goroutines : pc[g] = "rwait" => g \in readers \union waiting
  /\ waiting # {} => writer # None
  /\ \A g \in Goroutines : pc[g] \in Exclusive => readers = {}

\* Calls carry a name, a registration past its check an unreserved one, and
\* the nesting bounds leave room for the call in progress.
CallsWellFormed ==
  \A g \in Goroutines :
    /\ pc[g] \in RegisterPCs \union LookupPCs => name[g] \in Names
    /\ pc[g] \in RegisterPCs \ {"check", "refused"} => name[g] \notin Reserved
    /\ pc[g] \in RegisterPCs => ctor[g] \in CtorOrNil
    /\ pc[g] \in LookupPCs \union {"dispatch"} => depth[g] < MaxDepth
    /\ pc[g] \in {"rlock", "rwait", "read"} => ctor[g] = Nil
    /\ pc[g] = "refused" => name[g] \in Reserved
    /\ pc[g] = "consumer" => ctor[g] = Nil /\ name[g] = Nil

\* What each variable holds, whoever it is that mu names.
Types ==
  /\ m \in [Names -> CtorOrNil \union {Builtin}]
  /\ writer \in Goroutines \union {None}
  /\ readers \subseteq Goroutines /\ waiting \subseteq Goroutines
  /\ pc \in [Goroutines -> RegisterPCs \union LookupPCs \union {"consumer", "dispatch"}]
  /\ name \in [Goroutines -> Names \union {Nil}]
  /\ ctor \in [Goroutines -> CtorOrNil \union {Builtin}]
  /\ depth \in [Goroutines -> 0 .. MaxDepth]
  /\ nested \in [Goroutines -> 0 .. MaxNested]

IInv == Types /\ LockDiscipline /\ CallsWellFormed /\ ReservedNeverRebound
-----------------------------------------------------------------------------
(* Type correctness and the lock discipline *)

\* The four parts hold when the process starts.
LEMMA InitIInv == Init => IInv
<1> SUFFICES ASSUME Init PROVE IInv
  OBVIOUS
<1> USE ConstantsAssumption DEF Init, CtorOrNil
<1>1. Types
  BY DEF Types, RegisterPCs, LookupPCs
<1>2. LockDiscipline
  BY DEF LockDiscipline, Claimed, LockPCs, Exclusive, Reading
<1>3. CallsWellFormed
  BY DEF CallsWellFormed, RegisterPCs, LookupPCs
<1>4. ReservedNeverRebound
  BY DEF ReservedNeverRebound
<1>5. QED
  BY <1>1, <1>2, <1>3, <1>4 DEF IInv

\* Every step of every goroutine preserves them.
LEMMA NextIInv == IInv /\ [Next]_vars => IInv'
<1> SUFFICES ASSUME IInv, [Next]_vars PROVE IInv'
  OBVIOUS
<1> USE ConstantsAssumption DEF lockVars, argVars, Goto, CtorOrNil
<1>1. ASSUME NEW g \in Goroutines, CallRegisterType(g) PROVE IInv'
  <2>1. Types'
    BY <1>1 DEF IInv, Types, CallsWellFormed, RegisterPCs, LookupPCs, CallRegisterType, Enter
  <2>2. LockDiscipline'
    BY <1>1 DEF IInv, Types, LockDiscipline, Claimed, LockPCs, Exclusive, Reading, CallRegisterType, Enter
  <2>3. CallsWellFormed'
    BY <1>1 DEF IInv, Types, CallsWellFormed, RegisterPCs, LookupPCs, CallRegisterType, Enter
  <2>4. ReservedNeverRebound'
    BY <1>1 DEF IInv, Types, CallsWellFormed, ReservedNeverRebound, RegisterPCs, LookupPCs, CallRegisterType, Enter
  <2>5. QED
    BY <2>1, <2>2, <2>3, <2>4 DEF IInv
<1>2. ASSUME NEW g \in Goroutines, CallParse(g) PROVE IInv'
  <2>1. Types'
    BY <1>2 DEF IInv, Types, CallsWellFormed, RegisterPCs, LookupPCs, CallParse, Enter
  <2>2. LockDiscipline'
    BY <1>2 DEF IInv, Types, LockDiscipline, Claimed, LockPCs, Exclusive, Reading, CallParse, Enter
  <2>3. CallsWellFormed'
    BY <1>2 DEF IInv, Types, CallsWellFormed, RegisterPCs, LookupPCs, CallParse, Enter
  <2>4. ReservedNeverRebound'
    BY <1>2 DEF IInv, Types, CallsWellFormed, ReservedNeverRebound, RegisterPCs, LookupPCs, CallParse, Enter
  <2>5. QED
    BY <2>1, <2>2, <2>3, <2>4 DEF IInv
<1>3. ASSUME NEW g \in Goroutines, CheckReserved(g) PROVE IInv'
  <2>1. Types'
    BY <1>3 DEF IInv, Types, CallsWellFormed, RegisterPCs, LookupPCs, CheckReserved
  <2>2. LockDiscipline'
    BY <1>3 DEF IInv, Types, LockDiscipline, Claimed, LockPCs, Exclusive, Reading, CheckReserved
  <2>3. CallsWellFormed'
    BY <1>3 DEF IInv, Types, CallsWellFormed, RegisterPCs, LookupPCs, CheckReserved
  <2>4. ReservedNeverRebound'
    BY <1>3 DEF IInv, Types, CallsWellFormed, ReservedNeverRebound, RegisterPCs, LookupPCs, CheckReserved
  <2>5. QED
    BY <2>1, <2>2, <2>3, <2>4 DEF IInv
<1>4. ASSUME NEW g \in Goroutines, Lock(g) PROVE IInv'
  <2>1. Types'
    BY <1>4 DEF IInv, Types, CallsWellFormed, RegisterPCs, LookupPCs, Lock
  <2>2. LockDiscipline'
    BY <1>4 DEF IInv, Types, LockDiscipline, Claimed, LockPCs, Exclusive, Reading, Lock
  <2>3. CallsWellFormed'
    BY <1>4 DEF IInv, Types, CallsWellFormed, RegisterPCs, LookupPCs, Lock
  <2>4. ReservedNeverRebound'
    BY <1>4 DEF IInv, Types, CallsWellFormed, ReservedNeverRebound, RegisterPCs, LookupPCs, Lock
  <2>5. QED
    BY <2>1, <2>2, <2>3, <2>4 DEF IInv
<1>5. ASSUME NEW g \in Goroutines, Locked(g) PROVE IInv'
  <2>1. Types'
    BY <1>5 DEF IInv, Types, CallsWellFormed, RegisterPCs, LookupPCs, Locked
  <2>2. LockDiscipline'
    BY <1>5 DEF IInv, Types, LockDiscipline, Claimed, LockPCs, Exclusive, Reading, Locked
  <2>3. CallsWellFormed'
    BY <1>5 DEF IInv, Types, CallsWellFormed, RegisterPCs, LookupPCs, Locked
  <2>4. ReservedNeverRebound'
    BY <1>5 DEF IInv, Types, CallsWellFormed, ReservedNeverRebound, RegisterPCs, LookupPCs, Locked
  <2>5. QED
    BY <2>1, <2>2, <2>3, <2>4 DEF IInv
<1>6. ASSUME NEW g \in Goroutines, BeginWrite(g) PROVE IInv'
  <2>1. Types'
    BY <1>6 DEF IInv, Types, CallsWellFormed, RegisterPCs, LookupPCs, BeginWrite
  <2>2. LockDiscipline'
    BY <1>6 DEF IInv, Types, LockDiscipline, Claimed, LockPCs, Exclusive, Reading, BeginWrite
  <2>3. CallsWellFormed'
    BY <1>6 DEF IInv, Types, CallsWellFormed, RegisterPCs, LookupPCs, BeginWrite
  <2>4. ReservedNeverRebound'
    BY <1>6 DEF IInv, Types, CallsWellFormed, ReservedNeverRebound, RegisterPCs, LookupPCs, BeginWrite
  <2>5. QED
    BY <2>1, <2>2, <2>3, <2>4 DEF IInv
<1>7. ASSUME NEW g \in Goroutines, EndWrite(g) PROVE IInv'
  <2>1. Types'
    BY <1>7 DEF IInv, Types, CallsWellFormed, RegisterPCs, LookupPCs, EndWrite, MapWriters
  <2>2. LockDiscipline'
    BY <1>7 DEF IInv, Types, LockDiscipline, Claimed, LockPCs, Exclusive, Reading, EndWrite, MapWriters
  <2>3. CallsWellFormed'
    BY <1>7 DEF IInv, Types, CallsWellFormed, RegisterPCs, LookupPCs, EndWrite, MapWriters
  <2>4. ReservedNeverRebound'
    BY <1>7 DEF IInv, Types, CallsWellFormed, ReservedNeverRebound, RegisterPCs, LookupPCs, EndWrite, MapWriters
  <2>5. QED
    BY <2>1, <2>2, <2>3, <2>4 DEF IInv
<1>8. ASSUME NEW g \in Goroutines, Unlock(g) PROVE IInv'
  <2>1. Types'
    BY <1>8 DEF IInv, Types, CallsWellFormed, RegisterPCs, LookupPCs, Unlock
  <2>2. LockDiscipline'
    BY <1>8 DEF IInv, Types, LockDiscipline, Claimed, LockPCs, Exclusive, Reading, Unlock
  <2>3. CallsWellFormed'
    BY <1>8 DEF IInv, Types, CallsWellFormed, RegisterPCs, LookupPCs, Unlock
  <2>4. ReservedNeverRebound'
    BY <1>8 DEF IInv, Types, CallsWellFormed, ReservedNeverRebound, RegisterPCs, LookupPCs, Unlock
  <2>5. QED
    BY <2>1, <2>2, <2>3, <2>4 DEF IInv
<1>9. ASSUME NEW g \in Goroutines, RegisterTypeReturns(g) PROVE IInv'
  <2>1. Types'
    BY <1>9 DEF IInv, Types, CallsWellFormed, RegisterPCs, LookupPCs, RegisterTypeReturns, Leave
  <2>2. LockDiscipline'
    BY <1>9 DEF IInv, Types, LockDiscipline, Claimed, LockPCs, Exclusive, Reading, RegisterTypeReturns, Leave
  <2>3. CallsWellFormed'
    BY <1>9 DEF IInv, Types, CallsWellFormed, RegisterPCs, LookupPCs, RegisterTypeReturns, Leave
  <2>4. ReservedNeverRebound'
    BY <1>9 DEF IInv, Types, CallsWellFormed, ReservedNeverRebound, RegisterPCs, LookupPCs, RegisterTypeReturns, Leave
  <2>5. QED
    BY <2>1, <2>2, <2>3, <2>4 DEF IInv
<1>10. ASSUME NEW g \in Goroutines, RLock(g) PROVE IInv'
  <2>1. Types'
    BY <1>10 DEF IInv, Types, CallsWellFormed, RegisterPCs, LookupPCs, RLock
  <2>2. LockDiscipline'
    BY <1>10 DEF IInv, Types, LockDiscipline, Claimed, LockPCs, Exclusive, Reading, RLock
  <2>3. CallsWellFormed'
    BY <1>10 DEF IInv, Types, CallsWellFormed, RegisterPCs, LookupPCs, RLock
  <2>4. ReservedNeverRebound'
    BY <1>10 DEF IInv, Types, CallsWellFormed, ReservedNeverRebound, RegisterPCs, LookupPCs, RLock
  <2>5. QED
    BY <2>1, <2>2, <2>3, <2>4 DEF IInv
<1>11. ASSUME NEW g \in Goroutines, RLocked(g) PROVE IInv'
  <2>1. Types'
    BY <1>11 DEF IInv, Types, CallsWellFormed, RegisterPCs, LookupPCs, RLocked
  <2>2. LockDiscipline'
    BY <1>11 DEF IInv, Types, LockDiscipline, Claimed, LockPCs, Exclusive, Reading, RLocked
  <2>3. CallsWellFormed'
    BY <1>11 DEF IInv, Types, CallsWellFormed, RegisterPCs, LookupPCs, RLocked
  <2>4. ReservedNeverRebound'
    BY <1>11 DEF IInv, Types, CallsWellFormed, ReservedNeverRebound, RegisterPCs, LookupPCs, RLocked
  <2>5. QED
    BY <2>1, <2>2, <2>3, <2>4 DEF IInv
<1>12. ASSUME NEW g \in Goroutines, Read(g) PROVE IInv'
  <2>1. Types'
    BY <1>12 DEF IInv, Types, CallsWellFormed, RegisterPCs, LookupPCs, Read, MapWriters
  <2>2. LockDiscipline'
    BY <1>12 DEF IInv, Types, LockDiscipline, Claimed, LockPCs, Exclusive, Reading, Read, MapWriters
  <2>3. CallsWellFormed'
    BY <1>12 DEF IInv, Types, CallsWellFormed, RegisterPCs, LookupPCs, Read, MapWriters
  <2>4. ReservedNeverRebound'
    BY <1>12 DEF IInv, Types, CallsWellFormed, ReservedNeverRebound, RegisterPCs, LookupPCs, Read, MapWriters
  <2>5. QED
    BY <2>1, <2>2, <2>3, <2>4 DEF IInv
<1>13. ASSUME NEW g \in Goroutines, RUnlock(g) PROVE IInv'
  <2>1. Types'
    BY <1>13 DEF IInv, Types, CallsWellFormed, RegisterPCs, LookupPCs, RUnlock
  <2>2. LockDiscipline'
    BY <1>13 DEF IInv, Types, LockDiscipline, Claimed, LockPCs, Exclusive, Reading, RUnlock
  <2>3. CallsWellFormed'
    BY <1>13 DEF IInv, Types, CallsWellFormed, RegisterPCs, LookupPCs, RUnlock
  <2>4. ReservedNeverRebound'
    BY <1>13 DEF IInv, Types, CallsWellFormed, ReservedNeverRebound, RegisterPCs, LookupPCs, RUnlock
  <2>5. QED
    BY <2>1, <2>2, <2>3, <2>4 DEF IInv
<1>14. ASSUME NEW g \in Goroutines, RunConsumer(g) PROVE IInv'
  <2>1. Types'
    BY <1>14 DEF IInv, Types, CallsWellFormed, RegisterPCs, LookupPCs, RunConsumer, Leave
  <2>2. LockDiscipline'
    BY <1>14 DEF IInv, Types, LockDiscipline, Claimed, LockPCs, Exclusive, Reading, RunConsumer, Leave
  <2>3. CallsWellFormed'
    BY <1>14 DEF IInv, Types, CallsWellFormed, RegisterPCs, LookupPCs, RunConsumer, Leave
  <2>4. ReservedNeverRebound'
    BY <1>14 DEF IInv, Types, CallsWellFormed, ReservedNeverRebound, RegisterPCs, LookupPCs, RunConsumer, Leave
  <2>5. QED
    BY <2>1, <2>2, <2>3, <2>4 DEF IInv
<1>15. ASSUME NEW g \in Goroutines, DecodeBuiltin(g) PROVE IInv'
  <2>1. Types'
    BY <1>15 DEF IInv, Types, CallsWellFormed, RegisterPCs, LookupPCs, DecodeBuiltin, Leave
  <2>2. LockDiscipline'
    BY <1>15 DEF IInv, Types, LockDiscipline, Claimed, LockPCs, Exclusive, Reading, DecodeBuiltin, Leave
  <2>3. CallsWellFormed'
    BY <1>15 DEF IInv, Types, CallsWellFormed, RegisterPCs, LookupPCs, DecodeBuiltin, Leave
  <2>4. ReservedNeverRebound'
    BY <1>15 DEF IInv, Types, CallsWellFormed, ReservedNeverRebound, RegisterPCs, LookupPCs, DecodeBuiltin, Leave
  <2>5. QED
    BY <2>1, <2>2, <2>3, <2>4 DEF IInv
<1>16. ASSUME NEW g \in Goroutines, ConsumerReturns(g) PROVE IInv'
  <2>1. Types'
    BY <1>16 DEF IInv, Types, CallsWellFormed, RegisterPCs, LookupPCs, ConsumerReturns
  <2>2. LockDiscipline'
    BY <1>16 DEF IInv, Types, LockDiscipline, Claimed, LockPCs, Exclusive, Reading, ConsumerReturns
  <2>3. CallsWellFormed'
    BY <1>16 DEF IInv, Types, CallsWellFormed, RegisterPCs, LookupPCs, ConsumerReturns
  <2>4. ReservedNeverRebound'
    BY <1>16 DEF IInv, Types, CallsWellFormed, ReservedNeverRebound, RegisterPCs, LookupPCs, ConsumerReturns
  <2>5. QED
    BY <2>1, <2>2, <2>3, <2>4 DEF IInv
<1>17. ASSUME NEW g \in Goroutines, ConsumerPanics(g) PROVE IInv'
  <2>1. Types'
    BY <1>17 DEF IInv, Types, CallsWellFormed, RegisterPCs, LookupPCs, ConsumerPanics
  <2>2. LockDiscipline'
    BY <1>17 DEF IInv, Types, LockDiscipline, Claimed, LockPCs, Exclusive, Reading, ConsumerPanics
  <2>3. CallsWellFormed'
    BY <1>17 DEF IInv, Types, CallsWellFormed, RegisterPCs, LookupPCs, ConsumerPanics
  <2>4. ReservedNeverRebound'
    BY <1>17 DEF IInv, Types, CallsWellFormed, ReservedNeverRebound, RegisterPCs, LookupPCs, ConsumerPanics
  <2>5. QED
    BY <2>1, <2>2, <2>3, <2>4 DEF IInv
<1>18. CASE UNCHANGED vars
  BY <1>18 DEF vars, IInv, Types, LockDiscipline, CallsWellFormed, ReservedNeverRebound
<1>19. QED
  BY <1>1, <1>2, <1>3, <1>4, <1>5, <1>6, <1>7, <1>8, <1>9, <1>10, <1>11, <1>12, <1>13, <1>14, <1>15, <1>16, <1>17, <1>18 DEF Next, PackageStep
-----------------------------------------------------------------------------
(* Safety *)

\* The inductive invariant holds throughout.
THEOREM Inductive == Spec => []IInv
<1>1. QED
  BY InitIInv, NextIInv, PTL DEF Spec

\* Every variable keeps its type, with any number of goroutines: the nesting
\* stays within its bounds, the table holds only constructors, and mu counts
\* only goroutines that are in the calls that lock it.
THEOREM TypeCorrect == Spec => []TypeOK
<1>1. IInv => TypeOK
  <2> SUFFICES ASSUME IInv PROVE TypeOK
    OBVIOUS
  <2>1. writer \in Within(LockPCs) \union {None}
    BY DEF IInv, Types, LockDiscipline, Claimed, LockPCs, Within
  <2>2. readers \subseteq Within(LookupPCs)
    BY DEF IInv, Types, LockDiscipline, Reading, LookupPCs, Within
  <2>3. waiting \subseteq Within({"rwait"})
    BY DEF IInv, Types, LockDiscipline, Within
  <2>4. QED
    BY <2>1, <2>2, <2>3 DEF IInv, Types, TypeOK
<1>2. QED
  BY <1>1, Inductive, PTL

\* No assignment to the map overlaps another access to it (registry.go).
THEOREM MapAccessExclusive == Spec => []NoMapRace
<1>1. IInv => NoMapRace
  <2> SUFFICES ASSUME IInv,
                      NEW g \in Goroutines, NEW h \in Goroutines,
                      g # h, pc[g] = "writing"
               PROVE  pc[h] \notin {"writing", "read"}
    BY DEF NoMapRace
  <2>1. writer = g /\ readers = {}
    BY DEF IInv, LockDiscipline, Claimed, LockPCs, Exclusive
  <2>2. pc[h] # "writing"
    BY <2>1 DEF IInv, LockDiscipline, Claimed, LockPCs
  <2>3. pc[h] # "read"
    BY <2>1 DEF IInv, LockDiscipline, Reading
  <2>4. QED
    BY <2>2, <2>3
<1>2. QED
  BY <1>1, Inductive, PTL

\* The package runs no consumer code while holding the lock (Parse, lookup).
THEOREM ConsumerCodeUnlocked == Spec => []NoLockInConsumerCode
<1>1. IInv => NoLockInConsumerCode
  BY DEF IInv, LockDiscipline, NoLockInConsumerCode, Claimed, LockPCs, Reading
<1>2. QED
  BY <1>1, Inductive, PTL

\* A parked goroutine waits for the writer, the writer for a reader, and a
\* reader for nobody (lookup holds mu for one map access).
THEOREM NoDeadlock == Spec => []NeverWedged
<1>1. IInv => NeverWedged
  <2> SUFFICES ASSUME IInv, NEW g \in Goroutines, Parked(g)
               PROVE  \E h \in Goroutines : pc[h] # "consumer" /\ ~Parked(h)
    BY DEF NeverWedged
  <2>1. ASSUME readers # {}
        PROVE  \E h \in Goroutines : pc[h] # "consumer" /\ ~Parked(h)
    <3>1. PICK r \in readers : pc[r] \in Reading \union {"rwait"}
      BY <2>1 DEF IInv, LockDiscipline
    <3>2. r \in Goroutines /\ pc[r] # "consumer" /\ ~Parked(r)
      BY <3>1 DEF IInv, Types, Parked, Reading
    <3>3. QED
      BY <3>2
  <2>2. ASSUME writer # None, readers = {}
        PROVE  \E h \in Goroutines : pc[h] # "consumer" /\ ~Parked(h)
    <3>1. writer \in Goroutines /\ pc[writer] \in Claimed
      BY <2>2 DEF IInv, Types, LockDiscipline
    <3>2. pc[writer] # "consumer" /\ ~Parked(writer)
      BY <2>2, <3>1 DEF Claimed, LockPCs, Parked
    <3>3. QED
      BY <3>1, <3>2
  <2>3. readers # {} \/ writer # None
    BY DEF Parked, IInv, LockDiscipline
  <2>4. QED
    BY <2>1, <2>2, <2>3
<1>2. QED
  BY <1>1, Inductive, PTL

\* No sequence of calls rebinds a reserved name (RegisterType).
THEOREM ReservedSafe == Spec => []ReservedNeverRebound
<1>1. IInv => ReservedNeverRebound
  BY DEF IInv
<1>2. QED
  BY <1>1, Inductive, PTL

-----------------------------------------------------------------------------
(* Refinement *)

\* A step of g alone changes g's entry of the abstract `op' and no other.
LEMMA OneOperationChanges ==
  ASSUME NEW g \in Goroutines, NEW v,
         \A h \in Goroutines \ {g} :
            pc'[h] = pc[h] /\ name'[h] = name[h] /\ ctor'[h] = ctor[h],
         Operation(pc'[g], name'[g], ctor'[g]) = v
  PROVE  absOp' = [absOp EXCEPT ![g] = v]
  BY DEF absOp

\* Initially no operation is in progress and the tables agree.
LEMMA InitRefines == Init => Abstract!AInit
  BY ConstantsAssumption
     DEF Init, Abstract!AInit, Abstract!Idle, absOp, Operation, RegisterPCs, LookupPCs

\* Every step of a goroutine is a step of the atomic registry or leaves it
\* unchanged.  The instant at which a call takes effect is CheckReserved for a
\* refused registration, EndWrite for the others, Read for a lookup.
LEMMA NextRefines == IInv /\ [Next]_vars => [Abstract!ANext]_<<m, absOp>>
<1> SUFFICES ASSUME IInv, [Next]_vars PROVE [Abstract!ANext]_<<m, absOp>>
  OBVIOUS
<1> USE ConstantsAssumption DEF IInv, Types, CallsWellFormed, lockVars, argVars,
      Goto, CtorOrNil, RegisterPCs, LookupPCs, Abstract!Idle
<1> DEFINE Here(g) == Operation(pc'[g], name'[g], ctor'[g])
           Op(k, n, c, s) == [kind |-> k, name |-> n, ctor |-> c, state |-> s]
<1>0. \A g \in Goroutines : absOp[g] = Operation(pc[g], name[g], ctor[g])
  BY DEF absOp
<1>1. ASSUME NEW g \in Goroutines, CallRegisterType(g) PROVE Abstract!ACall(g)
  <2>1. PICK n \in Names, c \in CtorOrNil : Enter(g, "check", n, c)
    BY <1>1 DEF CallRegisterType
  <2>2. absOp[g] = Abstract!Idle
    BY <1>0, <2>1 DEF Enter, Operation
  <2>3. Here(g) = Abstract!Register(n, c)
    BY <2>1 DEF Enter, Operation, Abstract!Register
  <2>4. absOp' = [absOp EXCEPT ![g] = Abstract!Register(n, c)]
    BY <2>1, <2>3, OneOperationChanges DEF Enter
  <2>5. QED
    BY <2>1, <2>2, <2>4 DEF Enter, Abstract!ACall
<1>2. ASSUME NEW g \in Goroutines, CallParse(g) PROVE Abstract!ACall(g)
  <2>1. PICK n \in Names : Enter(g, "rlock", n, Nil)
    BY <1>2 DEF CallParse
  <2>2. absOp[g] = Abstract!Idle
    BY <1>0, <2>1 DEF Enter, Operation
  <2>3. Here(g) = Abstract!Lookup(n)
    BY <2>1 DEF Enter, Operation, Abstract!Lookup
  <2>4. absOp' = [absOp EXCEPT ![g] = Abstract!Lookup(n)]
    BY <2>1, <2>3, OneOperationChanges DEF Enter
  <2>5. QED
    BY <2>1, <2>2, <2>4 DEF Enter, Abstract!ACall
<1>3. ASSUME NEW g \in Goroutines, CheckReserved(g)
      PROVE Abstract!ARefuse(g) \/ UNCHANGED <<m, absOp>>
  <2>1. CASE name[g] \in Reserved
    <3>1. absOp[g] = Op("register", name[g], ctor[g], "called")
      BY <1>0, <1>3 DEF CheckReserved, Operation
    <3>2. Here(g) = Op("register", name[g], ctor[g], "refused")
      BY <1>3, <2>1 DEF CheckReserved, Operation
    <3>3. absOp' = [absOp EXCEPT ![g] = [absOp[g] EXCEPT !.state = "refused"]]
      BY <1>3, <3>1, <3>2, OneOperationChanges DEF CheckReserved
    <3>4. QED
      BY <1>3, <2>1, <3>1, <3>3 DEF CheckReserved, Abstract!ARefuse
  <2>2. CASE name[g] \notin Reserved
    BY <1>3, <2>2 DEF CheckReserved, absOp, Operation
  <2>3. QED
    BY <2>1, <2>2
<1>4. ASSUME NEW g \in Goroutines, Lock(g) PROVE UNCHANGED <<m, absOp>>
  BY <1>4 DEF absOp, Operation, Lock
<1>5. ASSUME NEW g \in Goroutines, Locked(g) PROVE UNCHANGED <<m, absOp>>
  BY <1>5 DEF absOp, Operation, Locked
<1>6. ASSUME NEW g \in Goroutines, BeginWrite(g) PROVE UNCHANGED <<m, absOp>>
  BY <1>6 DEF absOp, Operation, BeginWrite
<1>7. ASSUME NEW g \in Goroutines, EndWrite(g) PROVE Abstract!ARegister(g)
  <2>1. MapWriters = {g}
    BY <1>7 DEF EndWrite, MapWriters, LockDiscipline, Claimed, LockPCs
  <2>2. m' = [m EXCEPT ![name[g]] = ctor[g]]
    BY <1>7, <2>1 DEF EndWrite
  <2>3. absOp[g] = Op("register", name[g], ctor[g], "called")
    BY <1>0, <1>7 DEF EndWrite, Operation
  <2>4. Here(g) = Op("register", name[g], ctor[g], "applied")
    BY <1>7 DEF EndWrite, Operation
  <2>5. absOp' = [absOp EXCEPT ![g] = [absOp[g] EXCEPT !.state = "applied"]]
    BY <1>7, <2>3, <2>4, OneOperationChanges DEF EndWrite
  <2>6. name[g] \notin Reserved
    BY <1>7 DEF EndWrite
  <2>7. QED
    BY <2>2, <2>3, <2>5, <2>6 DEF Abstract!ARegister
<1>8. ASSUME NEW g \in Goroutines, Unlock(g) PROVE UNCHANGED <<m, absOp>>
  BY <1>8 DEF absOp, Operation, Unlock
<1>9. ASSUME NEW g \in Goroutines, RegisterTypeReturns(g) PROVE Abstract!AReturn(g)
  <2>1. \/ absOp[g] = Op("register", name[g], ctor[g], "applied")
        \/ absOp[g] = Op("register", name[g], ctor[g], "refused")
    BY <1>0, <1>9 DEF RegisterTypeReturns, Operation
  <2>2. Here(g) = Abstract!Idle
    BY <1>9 DEF RegisterTypeReturns, Leave, Operation
  <2>3. absOp' = [absOp EXCEPT ![g] = Abstract!Idle]
    BY <1>9, <2>2, OneOperationChanges DEF RegisterTypeReturns, Leave
  <2>4. QED
    BY <1>9, <2>1, <2>3 DEF RegisterTypeReturns, Abstract!AReturn
<1>10. ASSUME NEW g \in Goroutines, RLock(g) PROVE UNCHANGED <<m, absOp>>
  BY <1>10 DEF absOp, Operation, RLock
<1>11. ASSUME NEW g \in Goroutines, RLocked(g) PROVE UNCHANGED <<m, absOp>>
  BY <1>11 DEF absOp, Operation, RLocked
<1>12. ASSUME NEW g \in Goroutines, Read(g) PROVE Abstract!ALookup(g)
  <2>1. MapWriters = {}
    BY <1>12 DEF Read, MapWriters, LockDiscipline, Exclusive, Reading
  <2>2. ctor' = [ctor EXCEPT ![g] = m[name[g]]]
    BY <1>12, <2>1 DEF Read
  <2>3. absOp[g] = Op("lookup", name[g], ctor[g], "called")
    BY <1>0, <1>12 DEF Read, Operation
  <2>4. Here(g) = Op("lookup", name[g], m[name[g]], "applied")
    BY <1>12, <2>2 DEF Read, Operation
  <2>5. absOp' = [absOp EXCEPT ![g] = Op("lookup", name[g], m[name[g]], "applied")]
    BY <1>12, <2>2, <2>4, OneOperationChanges DEF Read
  <2>6. /\ absOp[g].kind = "lookup" /\ absOp[g].state = "called"
        /\ absOp[g].name = name[g]
    BY <2>3
  <2>7. QED
    BY <1>12, <2>5, <2>6 DEF Read, Abstract!ALookup
<1>13. ASSUME NEW g \in Goroutines, RUnlock(g) PROVE Abstract!AReturn(g)
  <2>1. absOp[g] = Op("lookup", name[g], ctor[g], "applied")
    BY <1>0, <1>13 DEF RUnlock, Operation
  <2>2. Here(g) = Abstract!Idle
    BY <1>13 DEF RUnlock, Operation
  <2>3. absOp' = [absOp EXCEPT ![g] = Abstract!Idle]
    BY <1>13, <2>2, OneOperationChanges DEF RUnlock
  <2>4. QED
    BY <1>13, <2>1, <2>3 DEF RUnlock, Abstract!AReturn
<1>14. ASSUME NEW g \in Goroutines, RunConsumer(g) PROVE UNCHANGED <<m, absOp>>
  BY <1>14 DEF absOp, Operation, RunConsumer, Leave
<1>15. ASSUME NEW g \in Goroutines, DecodeBuiltin(g) PROVE UNCHANGED <<m, absOp>>
  BY <1>15 DEF absOp, Operation, DecodeBuiltin, Leave
<1>16. ASSUME NEW g \in Goroutines, ConsumerReturns(g) PROVE UNCHANGED <<m, absOp>>
  BY <1>16 DEF absOp, Operation, ConsumerReturns
<1>17. ASSUME NEW g \in Goroutines, ConsumerPanics(g) PROVE UNCHANGED <<m, absOp>>
  BY <1>17 DEF absOp, Operation, ConsumerPanics
<1>18. CASE UNCHANGED vars
  BY <1>18 DEF vars, absOp
<1>19. QED
  BY <1>1, <1>2, <1>3, <1>4, <1>5, <1>6, <1>7, <1>8, <1>9, <1>10, <1>11, <1>12, <1>13, <1>14, <1>15, <1>16, <1>17, <1>18 DEF Next, PackageStep, Abstract!ANext

\* The lock-based table implements the atomic one (registry.go, codec.go).
THEOREM Refinement == Spec => ImplementsAtomicRegistry
<1>1. QED
  BY InitRefines, NextRefines, Inductive, PTL
     DEF Spec, ImplementsAtomicRegistry, Abstract!ASpec, Abstract!absVars
====
