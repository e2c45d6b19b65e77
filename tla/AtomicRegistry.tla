--------------------------- MODULE AtomicRegistry ---------------------------
(***************************************************************************)
(* What the discriminator registry of package rar promises its callers: a  *)
(* map from type names to constructors on which every RegisterType and     *)
(* every lookup takes effect at one instant between its call and its       *)
(* return, and in which the reserved names can not be rebound.  There is   *)
(* no lock here; module Registry implements this with the RWMutex.         *)
(***************************************************************************)

CONSTANTS
  Goroutines,   \* callers of the package
  Names,        \* values of the `type` discriminator
  Reserved,     \* the names builtinTypes() returns
  Builtin,      \* the constructor builtinTypes() binds them to
  Ctors,        \* constructors consumers register
  Nil           \* no constructor

VARIABLES
  reg,          \* the map
  op            \* op[g]: the operation g has called, if any

absVars == <<reg, op>>

Idle == [kind |-> "none", name |-> Nil, ctor |-> Nil, state |-> "idle"]

Register(n, c) == [kind |-> "register", name |-> n, ctor |-> c, state |-> "called"]
Lookup(n)      == [kind |-> "lookup", name |-> n, ctor |-> Nil, state |-> "called"]

AInit ==
  /\ reg = [n \in Names |-> IF n \in Reserved THEN Builtin ELSE Nil]
  /\ op = [g \in Goroutines |-> Idle]

ACall(g) ==
  /\ op[g] = Idle
  /\ \E n \in Names :
       \/ op' = [op EXCEPT ![g] = Lookup(n)]
       \/ \E c \in Ctors \union {Nil} : op' = [op EXCEPT ![g] = Register(n, c)]
  /\ UNCHANGED reg

\* ErrTypeReserved: the map is left alone.
ARefuse(g) ==
  /\ op[g].kind = "register" /\ op[g].state = "called"
  /\ op[g].name \in Reserved
  /\ op' = [op EXCEPT ![g].state = "refused"]
  /\ UNCHANGED reg

ARegister(g) ==
  /\ op[g].kind = "register" /\ op[g].state = "called"
  /\ op[g].name \notin Reserved
  /\ reg' = [reg EXCEPT ![op[g].name] = op[g].ctor]
  /\ op' = [op EXCEPT ![g].state = "applied"]

ALookup(g) ==
  /\ op[g].kind = "lookup" /\ op[g].state = "called"
  /\ op' = [op EXCEPT ![g] = [kind |-> "lookup", name |-> op[g].name,
                               ctor |-> reg[op[g].name], state |-> "applied"]]
  /\ UNCHANGED reg

AReturn(g) ==
  /\ op[g].state \in {"applied", "refused"}
  /\ op' = [op EXCEPT ![g] = Idle]
  /\ UNCHANGED reg

ANext ==
  \E g \in Goroutines :
    ACall(g) \/ ARefuse(g) \/ ARegister(g) \/ ALookup(g) \/ AReturn(g)

ASpec == AInit /\ [][ANext]_absVars
=============================================================================
