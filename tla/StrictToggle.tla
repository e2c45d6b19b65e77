---------------------------- MODULE StrictToggle ----------------------------
(***************************************************************************)
(* The process-wide strict-marshal toggle of validate.go, and the way its  *)
(* documentation and the helper withStrictMarshal flip it: SetStrictMarshal *)
(* swaps a value in and returns the one that was there, which its caller   *)
(* puts back when it is done, the last one first (t.Cleanup).  A window is *)
(* what lies between the two calls.                                        *)
(***************************************************************************)
EXTENDS Naturals, Sequences

CONSTANTS
  Goroutines,
  MaxWindows   \* bound: windows open at one time

ASSUME ToggleAssumption == MaxWindows \in Nat

VARIABLES
  strict,      \* strictMarshalEnabled
  windows      \* the open windows, oldest first: whose it is, what it set
               \* (history), and the previous value its Cleanup holds

(* History, for the properties only. *)
VARIABLES
  default,     \* what the program's init() left in the toggle
  settled      \* from this level on, no window was closed out of order since
               \* the level was reached; level 0 is outside every window

toggleVars == <<strict, windows, default, settled>>

Window(g, b, was) == [by |-> g, set |-> b, was |-> was]

ToggleInit ==
  /\ strict \in BOOLEAN
  /\ windows = <<>>
  /\ default = strict /\ settled = 0

\* Mutant: the new value is returned instead of the previous one.
OpenReturnsNew(g, b) ==
  /\ Len(windows) < MaxWindows
  /\ strict' = b
  /\ windows' = Append(windows, Window(g, b, b))
  /\ UNCHANGED <<default, settled>>

\* prev := SetStrictMarshal(b)
OpenWindow(g, b) ==
  /\ Len(windows) < MaxWindows
  /\ strict' = b
  /\ windows' = Append(windows, Window(g, b, strict))
  /\ UNCHANGED <<default, settled>>

Without(q, i) == [j \in 1 .. Len(q) - 1 |-> q[IF j < i THEN j ELSE j + 1]]

\* g's latest window is the i-th.
LatestOf(g, i) ==
  /\ i \in DOMAIN windows /\ windows[i].by = g
  /\ \A j \in DOMAIN windows : windows[j].by = g => j <= i

\* Closing the i-th window: one that is not the innermost puts back a value
\* under the windows it leaves open.
Settle(i) ==
  LET n == Len(windows) - 1
  IN settled' = IF i <= n \/ settled > n THEN n + 1 ELSE settled

\* Mutant: SetStrictMarshal(false), whatever the value was.
CloseToFalse(g) ==
  \E i \in DOMAIN windows :
    /\ LatestOf(g, i)
    /\ strict' = FALSE
    /\ windows' = Without(windows, i)
    /\ Settle(i)
    /\ UNCHANGED default

\* SetStrictMarshal(prev); what it returns is dropped.
CloseWindow(g) ==
  \E i \in DOMAIN windows :
    /\ LatestOf(g, i)
    /\ strict' = windows[i].was
    /\ windows' = Without(windows, i)
    /\ Settle(i)
    /\ UNCHANGED default

ToggleNext ==
  \E g \in Goroutines : CloseWindow(g) \/ \E b \in BOOLEAN : OpenWindow(g, b)

ToggleSpec == ToggleInit /\ [][ToggleNext]_toggleVars
-----------------------------------------------------------------------------
(* Properties *)

ToggleTypeOK ==
  /\ strict \in BOOLEAN /\ default \in BOOLEAN /\ settled \in 0 .. MaxWindows + 1
  /\ windows \in Seq([by : Goroutines, set : BOOLEAN, was : BOOLEAN])
  /\ Len(windows) <= MaxWindows

\* What the i innermost windows leave visible.
SetBy(i) == IF i = 0 THEN default ELSE windows[i].set

\* The toggle is what the innermost window set, and what init() left once all
\* are closed, if since that window was opened (since the start) windows were
\* closed in the reverse order of their opening: no test leaks its setting into
\* the next, and windows of other goroutines inside one's own, or around it, do
\* no harm (SetStrictMarshal, withStrictMarshal).  A window closed from under
\* later ones undoes what those set, and what they put back afterwards is not
\* what init() left; but a window opened after that is in force again.
NestedWindowsRestore == Len(windows) >= settled => strict = SetBy(Len(windows))
=============================================================================
