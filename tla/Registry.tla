------------------------------ MODULE Registry ------------------------------
(***************************************************************************)
(* The process-wide dispatch table of package rar (registry.go) under      *)
(* concurrent RegisterType and Parse calls.  Each step of a goroutine is   *)
(* one step of the code: a lock operation of sync.RWMutex, the beginning   *)
(* or the end of a map access, or the hand-over to consumer code.          *)
(*                                                                         *)
(* Parse (codec.go) looks the constructor up, releases the lock, and only  *)
(* then runs the constructor and the carrier's UnmarshalJSON.  Both are    *)
(* consumer code and may call Parse and RegisterType again, which          *)
(* `depth' and `nested' track, or panic.                                   *)
(***************************************************************************)
EXTENDS Naturals

CONSTANTS
  Goroutines, Names, Reserved, Builtin, Ctors, Nil,  \* as in AtomicRegistry
  None,        \* no goroutine
  MaxDepth,    \* bound: Parse calls of one goroutine inside consumer code
  MaxNested    \* bound: calls consumer code makes within one top-level call

ASSUME ConstantsAssumption ==
  /\ Reserved \subseteq Names
  /\ Nil \notin Ctors /\ Builtin \notin Ctors /\ Builtin # Nil
  /\ None \notin Goroutines
  /\ MaxDepth \in Nat /\ MaxNested \in Nat

VARIABLES
  m,         \* typeRegistry.m; Nil stands for "absent" and for a nil entry
  writer,    \* the goroutine inside mu.Lock() .. mu.Unlock(), or None
  readers,   \* goroutines counted as readers of mu
  waiting,   \* goroutines in mu.RLock() queued behind a writer
  pc,        \* where each goroutine is
  name,      \* the name argument of its current call
  ctor,      \* the constructor it registers, or has looked up
  depth,     \* Parse calls of it that are inside consumer code
  nested     \* calls consumer code has made since the top-level call

lockVars == <<writer, readers, waiting>>
argVars  == <<name, ctor>>
vars == <<m, writer, readers, waiting, pc, name, ctor, depth, nested>>

-----------------------------------------------------------------------------
CtorOrNil == Ctors \union {Nil}

\* Goroutines between the two halves of the map assignment.
MapWriters == {g \in Goroutines : pc[g] = "writing"}

Goto(g, l) == pc' = [pc EXCEPT ![g] = l]

\* Back to the caller, which is the application or enclosing consumer code.
Leave(g) ==
  /\ Goto(g, "consumer")
  /\ name' = [name EXCEPT ![g] = Nil]
  /\ ctor' = [ctor EXCEPT ![g] = Nil]

Init ==
  /\ m = [n \in Names |-> IF n \in Reserved THEN Builtin ELSE Nil]
  /\ writer = None /\ readers = {} /\ waiting = {}
  /\ pc = [g \in Goroutines |-> "consumer"]
  /\ name = [g \in Goroutines |-> Nil]
  /\ ctor = [g \in Goroutines |-> Nil]
  /\ depth = [g \in Goroutines |-> 0]
  /\ nested = [g \in Goroutines |-> 0]

\* Code outside the package may enter it: the application whenever it likes,
\* a constructor or UnmarshalJSON within the bounds.
Enter(g, l, n, c) ==
  /\ pc[g] = "consumer"
  /\ depth[g] > 0 => nested[g] < MaxNested
  /\ Goto(g, l)
  /\ name' = [name EXCEPT ![g] = n]
  /\ ctor' = [ctor EXCEPT ![g] = c]
  /\ nested' = [nested EXCEPT ![g] = IF depth[g] = 0 THEN 0 ELSE @ + 1]
  /\ UNCHANGED <<m, lockVars, depth>>

CallRegisterType(g) ==
  \E n \in Names, c \in CtorOrNil : Enter(g, "check", n, c)

\* Parse after a successful probe: the other exits never reach the registry.
CallParse(g) ==
  /\ depth[g] < MaxDepth
  /\ \E n \in Names : Enter(g, "rlock", n, Nil)

-----------------------------------------------------------------------------
(* RegisterType *)

\* Mutants: the check forgotten; mu.Lock() and its deferred Unlock forgotten.
CheckReservedForgotten(g) ==
  /\ pc[g] = "check"
  /\ Goto(g, "lock")
  /\ UNCHANGED <<m, lockVars, argVars, depth, nested>>

LockForgotten(g) ==
  /\ pc[g] = "check"
  /\ Goto(g, IF name[g] \in Reserved THEN "refused" ELSE "write")
  /\ UNCHANGED <<m, lockVars, argVars, depth, nested>>

\* The reserved-name check runs before the lock is taken.
CheckReserved(g) ==
  /\ pc[g] = "check"
  /\ Goto(g, IF name[g] \in Reserved THEN "refused" ELSE "lock")
  /\ UNCHANGED <<m, lockVars, argVars, depth, nested>>

\* RWMutex.Lock, first half: exclude other writers, announce to new readers.
Lock(g) ==
  /\ pc[g] = "lock"
  /\ writer = None
  /\ writer' = g
  /\ Goto(g, "drain")
  /\ UNCHANGED <<m, readers, waiting, argVars, depth, nested>>

\* RWMutex.Lock, second half: the readers that were there have left.
Locked(g) ==
  /\ pc[g] = "drain"
  /\ readers = {}
  /\ Goto(g, "write")
  /\ UNCHANGED <<m, lockVars, argVars, depth, nested>>

BeginWrite(g) ==
  /\ pc[g] = "write"
  /\ Goto(g, "writing")
  /\ UNCHANGED <<m, lockVars, argVars, depth, nested>>

\* Mutant: an existing registration is kept instead of replaced.
EndWriteKeepsFirst(g) ==
  /\ pc[g] = "writing"
  /\ m' = [m EXCEPT ![name[g]] = IF @ = Nil THEN ctor[g] ELSE @]
  /\ Goto(g, "unlock")
  /\ UNCHANGED <<lockVars, argVars, depth, nested>>

\* Two overlapping map writes leave the entry undefined.
EndWrite(g) ==
  /\ pc[g] = "writing"
  /\ \E c \in IF MapWriters = {g} THEN {ctor[g]} ELSE CtorOrNil :
       m' = [m EXCEPT ![name[g]] = c]
  /\ Goto(g, "unlock")
  /\ UNCHANGED <<lockVars, argVars, depth, nested>>

\* Mutant: return without Unlock.
UnlockForgotten(g) ==
  /\ pc[g] = "unlock"
  /\ Goto(g, "registered")
  /\ UNCHANGED <<m, lockVars, argVars, depth, nested>>

\* The deferred Unlock: readers queued behind the writer are all let in.
Unlock(g) ==
  /\ pc[g] = "unlock"
  /\ writer' = None
  /\ readers' = readers \union waiting
  /\ waiting' = {}
  /\ Goto(g, "registered")
  /\ UNCHANGED <<m, argVars, depth, nested>>

\* RegisterType returns nil, or ErrTypeReserved.
RegisterTypeReturns(g) ==
  /\ pc[g] \in {"registered", "refused"}
  /\ Leave(g)
  /\ UNCHANGED <<m, lockVars, depth, nested>>

-----------------------------------------------------------------------------
(* lookup, called by Parse *)

\* RWMutex.RLock: a reader arriving after a writer has announced waits.
RLock(g) ==
  /\ pc[g] = "rlock"
  /\ \/ /\ writer = None
        /\ readers' = readers \union {g}
        /\ Goto(g, "read")
        /\ UNCHANGED waiting
     \/ /\ writer # None
        /\ waiting' = waiting \union {g}
        /\ Goto(g, "rwait")
        /\ UNCHANGED readers
  /\ UNCHANGED <<m, writer, argVars, depth, nested>>

RLocked(g) ==
  /\ pc[g] = "rwait"
  /\ g \in readers
  /\ Goto(g, "read")
  /\ UNCHANGED <<m, lockVars, argVars, depth, nested>>

\* A read overlapping a map write may return anything.
Read(g) ==
  /\ pc[g] = "read"
  /\ \E c \in IF MapWriters = {} THEN {m[name[g]]} ELSE CtorOrNil :
       ctor' = [ctor EXCEPT ![g] = c]
  /\ Goto(g, "runlock")
  /\ UNCHANGED <<m, lockVars, name, depth, nested>>

\* Mutant: lookup's lock still held when Parse runs the constructor.
RUnlockForgotten(g) ==
  /\ pc[g] = "runlock"
  /\ Goto(g, "dispatch")
  /\ UNCHANGED <<m, lockVars, argVars, depth, nested>>

\* Mutant: a plain RUnlock before the last return in place of the deferred
\* one: the early return of a name that is found leaves without it.
RUnlockOnMissOnly(g) ==
  /\ pc[g] = "runlock"
  /\ readers' = IF ctor[g] = Nil THEN readers \ {g} ELSE readers
  /\ Goto(g, "dispatch")
  /\ UNCHANGED <<m, writer, waiting, argVars, depth, nested>>

RUnlock(g) ==
  /\ pc[g] = "runlock"
  /\ readers' = readers \ {g}
  /\ Goto(g, "dispatch")
  /\ UNCHANGED <<m, writer, waiting, argVars, depth, nested>>

-----------------------------------------------------------------------------
(* The rest of Parse *)

\* A registered constructor and the UnmarshalJSON of its carrier.
RunConsumer(g) ==
  /\ pc[g] = "dispatch"
  /\ ctor[g] \in Ctors
  /\ depth' = [depth EXCEPT ![g] = @ + 1]
  /\ Leave(g)
  /\ UNCHANGED <<m, lockVars, nested>>

\* *CommonType or *UnknownType: package code, no shared state.
DecodeBuiltin(g) ==
  /\ pc[g] = "dispatch"
  /\ ctor[g] \notin Ctors
  /\ Leave(g)
  /\ UNCHANGED <<m, lockVars, depth, nested>>

\* The consumer's UnmarshalJSON returns, and Parse with it.
ConsumerReturns(g) ==
  /\ pc[g] = "consumer"
  /\ depth[g] > 0
  /\ depth' = [depth EXCEPT ![g] = @ - 1]
  /\ UNCHANGED <<m, lockVars, pc, argVars, nested>>

\* It panics, and the application recovers at the top (as net/http does).
ConsumerPanics(g) ==
  /\ pc[g] = "consumer"
  /\ depth[g] > 0
  /\ depth' = [depth EXCEPT ![g] = 0]
  /\ UNCHANGED <<m, lockVars, pc, argVars, nested>>

-----------------------------------------------------------------------------
\* What a goroutine does without being asked.
PackageStep(g) ==
  \/ CheckReserved(g) \/ Locked(g) \/ BeginWrite(g) \/ EndWrite(g) \/ Unlock(g)
  \/ RegisterTypeReturns(g)
  \/ RLock(g) \/ RLocked(g) \/ Read(g) \/ RUnlock(g)
  \/ RunConsumer(g) \/ DecodeBuiltin(g)

Next ==
  \E g \in Goroutines :
    \/ CallRegisterType(g) \/ CallParse(g)
    \/ PackageStep(g) \/ Lock(g)
    \/ ConsumerReturns(g) \/ ConsumerPanics(g)

Spec == Init /\ [][Next]_vars

\* The scheduler runs every goroutine that can run; a writer parked on the
\* mutex gets it in turn (sync.Mutex starvation mode); consumer code ends.
Fairness ==
  \A g \in Goroutines :
    WF_vars(PackageStep(g)) /\ SF_vars(Lock(g)) /\ WF_vars(ConsumerReturns(g))

FairSpec == Spec /\ Fairness

-----------------------------------------------------------------------------
RegisterPCs == {"check", "lock", "drain", "write", "writing", "unlock",
                "registered", "refused"}
LookupPCs   == {"rlock", "rwait", "read", "runlock"}

\* Goroutines between acquiring and releasing mu, or waiting for either half.
LockPCs     == {"drain", "write", "writing", "unlock"}
Within(pcs) == {g \in Goroutines : pc[g] \in pcs}

\* Every variable has its type.  mu's own bookkeeping is typed by the calls
\* that may appear in it: the writer is inside RegisterType's critical
\* section, a reader inside lookup, and whoever is queued is in RLock.
TypeOK ==
  /\ m \in [Names -> CtorOrNil \union {Builtin}]
  /\ writer \in Within(LockPCs) \union {None}
  /\ readers \subseteq Within(LookupPCs) /\ waiting \subseteq Within({"rwait"})
  /\ pc \in [Goroutines -> RegisterPCs \union LookupPCs \union {"consumer", "dispatch"}]
  /\ name \in [Goroutines -> Names \union {Nil}]
  /\ ctor \in [Goroutines -> CtorOrNil \union {Builtin}]
  /\ depth \in [Goroutines -> 0 .. MaxDepth]
  /\ nested \in [Goroutines -> 0 .. MaxNested]

(* Safety *)

\* registry.go wraps every access to the map in mu: while one goroutine is in
\* the middle of an assignment no other is at a map access.
NoMapRace ==
  \A g, h \in Goroutines :
    g # h /\ pc[g] = "writing" => pc[h] \notin {"writing", "read"}

\* lookup has released mu by the time Parse calls a constructor or an
\* UnmarshalJSON, and RegisterType by the time it returns: a goroutine outside
\* the package neither holds the lock nor queues for it, whatever the nesting.
\* That is what makes re-entering the package, and panicking out of it, safe.
NoLockInConsumerCode ==
  \A g \in Goroutines :
    pc[g] \in {"consumer", "dispatch", "registered", "refused"} =>
      g \notin readers \union waiting /\ writer # g

\* ErrTypeReserved: no sequence of calls rebinds "common".
ReservedNeverRebound == \A n \in Reserved : m[n] = Builtin

\* Parked in one of the three places where sync.RWMutex parks a goroutine.
Parked(g) ==
  \/ pc[g] = "lock" /\ writer # None
  \/ pc[g] = "drain" /\ readers # {}
  \/ pc[g] = "rwait" /\ g \notin readers

\* Never everyone waiting on everyone: whenever a goroutine is parked, some
\* goroutine inside the package can run.  No constructor or UnmarshalJSON has
\* to make progress first, so consumer code may block, re-enter or panic.
NeverWedged ==
  (\E g \in Goroutines : Parked(g)) =>
    \E h \in Goroutines : pc[h] # "consumer" /\ ~Parked(h)

\* RegisterType and lookup take effect at one instant between call and return
\* (codec.go and registry.go: "safe to call concurrently with parse
\* operations"): the lock-based table implements the atomic one.
Operation(l, n, c) ==
  IF l \notin RegisterPCs \union LookupPCs
  THEN [kind |-> "none", name |-> Nil, ctor |-> Nil, state |-> "idle"]
  ELSE [kind  |-> IF l \in RegisterPCs THEN "register" ELSE "lookup",
        name  |-> n,
        ctor  |-> c,
        state |-> IF l \in {"runlock", "unlock", "registered"} THEN "applied"
                  ELSE IF l = "refused" THEN "refused" ELSE "called"]

absOp == [g \in Goroutines |-> Operation(pc[g], name[g], ctor[g])]

Abstract == INSTANCE AtomicRegistry WITH reg <- m, op <- absOp

ImplementsAtomicRegistry == Abstract!ASpec

-----------------------------------------------------------------------------
(* Liveness *)

\* No caller is starved or deadlocked: a Parse or RegisterType call ends, with
\* every consumer call nested in it, while the other goroutines keep calling.
InPackage(g) == pc[g] # "consumer" \/ depth[g] > 0

EveryCallReturns == \A g \in Goroutines : InPackage(g) ~> ~InPackage(g)
=============================================================================
