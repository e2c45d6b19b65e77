------------------------- MODULE DirectCallsProofs --------------------------
(* What the windows of the strict-marshal toggle restore, for any number   *)
(* of goroutines and windows, and what keeps the bytes of shared carriers  *)
(* their own, for any number of carriers and byte arrays.                  *)
EXTENDS DirectCalls, SequenceTheorems, TLAPS

-----------------------------------------------------------------------------
(* The toggle *)

\* Each Cleanup above a settled level holds what that level had set.
EachHoldsTheOneAround ==
  \A i \in DOMAIN windows : i > settled => windows[i].was = SetBy(i - 1)

\* There is always a level left to settle: the next window's.
NextSettles == settled \in Nat /\ settled <= Len(windows) + 1

ToggleInv ==
  ToggleTypeOK /\ NestedWindowsRestore /\ EachHoldsTheOneAround /\ NextSettles

LEMMA ToggleInitially == ToggleInit => ToggleInv
  BY ToggleAssumption
     DEF ToggleInit, ToggleInv, ToggleTypeOK, NestedWindowsRestore,
         EachHoldsTheOneAround, NextSettles, SetBy

LEMMA SameInterval ==
  ASSUME NEW m \in Nat, NEW n \in Nat, 1 .. m = 1 .. n
  PROVE  m = n
<1>1. m \in 1 .. m <=> m >= 1
  OBVIOUS
<1>2. n \in 1 .. n <=> n >= 1
  OBVIOUS
<1>3. ~(m < n) /\ ~(n < m)
  BY <1>1, <1>2
<1> QED
  BY <1>3

\* Taking a window out leaves a sequence of windows, shorter by one.
LEMMA WithoutProperties ==
  ASSUME NEW S, NEW q \in Seq(S), NEW i \in DOMAIN q
  PROVE  /\ Without(q, i) \in Seq(S)
         /\ Len(Without(q, i)) = Len(q) - 1
         /\ i = Len(q) => \A j \in 1 .. Len(q) - 1 : Without(q, i)[j] = q[j]
<1>1. Len(q) \in Nat /\ DOMAIN q = 1 .. Len(q) /\ Len(q) - 1 \in Nat
  BY LenProperties
<1>2. \A j \in 1 .. Len(q) - 1 : q[IF j < i THEN j ELSE j + 1] \in S
  BY <1>1, ElementOfSeq
<1>3. Without(q, i) \in [1 .. Len(q) - 1 -> S]
  BY <1>1, <1>2 DEF Without
<1>4. Without(q, i) \in Seq(S)
  BY <1>1, <1>3, SeqDef
<1>5. Len(Without(q, i)) = Len(q) - 1
  <2>1. Len(Without(q, i)) \in Nat /\ DOMAIN Without(q, i) = 1 .. Len(Without(q, i))
    BY <1>4, LenProperties
  <2>2. DOMAIN Without(q, i) = 1 .. Len(q) - 1
    BY <1>3
  <2> QED
    BY <1>1, <2>1, <2>2, SameInterval
<1> QED
  BY <1>1, <1>4, <1>5 DEF Without

LEMMA OpenKeepsInv ==
  ASSUME ToggleInv, NEW g \in Goroutines, NEW b \in BOOLEAN, OpenWindow(g, b)
  PROVE  ToggleInv'
<1> DEFINE R == [by : Goroutines, set : BOOLEAN, was : BOOLEAN]
           w == Window(g, b, strict)
<1>0. windows \in Seq(R) /\ w \in R
  BY DEF ToggleInv, ToggleTypeOK, Window
<1>n. PICK n \in Nat : n = Len(windows)
  BY <1>0, LenProperties
<1>1. windows \in Seq(R) /\ w \in R /\ n \in Nat /\ n = Len(windows)
  BY <1>0, <1>n
<1>2. /\ windows' \in Seq(R) /\ Len(windows') = n + 1
      /\ \A i \in 1 .. n : windows'[i] = windows[i]
      /\ windows'[n + 1] = w
  BY <1>1, AppendProperties DEF OpenWindow
<1>3. ToggleTypeOK'
  BY <1>1, <1>2, ToggleAssumption DEF ToggleInv, ToggleTypeOK, OpenWindow
<1>4. DOMAIN windows = 1 .. n /\ DOMAIN windows' = 1 .. n + 1
  BY <1>1, <1>2, LenProperties
<1>5. \A i \in 0 .. n : SetBy(i)' = SetBy(i)
  BY <1>1, <1>2 DEF SetBy, OpenWindow
<1>6. SetBy(n + 1)' = b
  <2>1. w.set = b
    BY DEF Window
  <2> QED
    BY <1>1, <1>2, <2>1 DEF SetBy
<1>7. NestedWindowsRestore'
  BY <1>1, <1>2, <1>6 DEF NestedWindowsRestore, OpenWindow
<1>8. settled' = settled /\ settled \in Nat /\ settled <= n + 1
  BY <1>1 DEF OpenWindow, ToggleInv, NextSettles
<1>9. ASSUME NEW i \in 1 .. n + 1, i > settled
      PROVE  windows'[i].was = SetBy(i - 1)'
  <2>1. CASE i = n + 1
    <3>1. strict = SetBy(n)
      BY <1>1, <1>8, <1>9, <2>1 DEF ToggleInv, NestedWindowsRestore
    <3> QED
      BY <1>1, <1>2, <1>5, <2>1, <3>1 DEF Window
  <2>2. CASE i \in 1 .. n
    <3>1. windows[i].was = SetBy(i - 1) /\ i - 1 \in 0 .. n
      BY <1>1, <1>4, <1>9, <2>2 DEF ToggleInv, EachHoldsTheOneAround
    <3> QED
      BY <1>2, <1>5, <2>2, <3>1
  <2> QED
    BY <1>1, <2>1, <2>2
<1>10. EachHoldsTheOneAround'
  BY <1>4, <1>8, <1>9 DEF EachHoldsTheOneAround
<1>11. NextSettles'
  BY <1>1, <1>2, <1>8 DEF NextSettles
<1> QED
  BY <1>3, <1>7, <1>10, <1>11 DEF ToggleInv

LEMMA CloseKeepsInv ==
  ASSUME ToggleInv, NEW g \in Goroutines, CloseWindow(g)
  PROVE  ToggleInv'
<1> DEFINE R == [by : Goroutines, set : BOOLEAN, was : BOOLEAN]
<1>0. windows \in Seq(R)
  BY DEF ToggleInv, ToggleTypeOK
<1>n. PICK n \in Nat : n = Len(windows)
  BY <1>0, LenProperties
<1>1. windows \in Seq(R) /\ n = Len(windows) /\ DOMAIN windows = 1 .. n
  BY <1>0, <1>n, LenProperties
<1>2. PICK i \in DOMAIN windows :
        /\ strict' = windows[i].was
        /\ windows' = Without(windows, i)
        /\ settled' = IF i <= n - 1 \/ settled > n - 1 THEN n ELSE settled
        /\ UNCHANGED default
  BY <1>1 DEF CloseWindow, Settle
<1>3. windows[i] \in R
  BY <1>1, ElementOfSeq
<1>4. /\ windows' \in Seq(R) /\ Len(windows') = n - 1
      /\ i = n => \A j \in 1 .. n - 1 : windows'[j] = windows[j]
  BY <1>1, <1>2, WithoutProperties
<1>5. NextSettles' /\ settled' <= n
  BY <1>1, <1>2, <1>4 DEF ToggleInv, NextSettles
<1>6. ToggleTypeOK'
  <2>1. n - 1 <= MaxWindows /\ settled' \in 0 .. MaxWindows + 1
    BY <1>1, <1>5, ToggleAssumption DEF ToggleInv, ToggleTypeOK, NextSettles
  <2> QED
    BY <1>2, <1>3, <1>4, <2>1 DEF ToggleInv, ToggleTypeOK
<1>7. DOMAIN windows' = 1 .. n - 1
  BY <1>1, <1>2, <1>4, LenProperties
\* Only if the innermost window was closed is the level below settled.
<1>8. ASSUME n - 1 >= settled'
      PROVE  strict' = SetBy(n - 1)' /\ EachHoldsTheOneAround'
  <2>1. i = n /\ settled' = settled
    BY <1>1, <1>2, <1>8 DEF ToggleInv, NextSettles
  <2>2. \A j \in 0 .. n - 1 : SetBy(j)' = SetBy(j)
    BY <1>1, <1>2, <1>4, <2>1 DEF SetBy
  <2>3. \A j \in 1 .. n : j > settled => windows[j].was = SetBy(j - 1)
    BY <1>1 DEF ToggleInv, EachHoldsTheOneAround
  <2>4. n >= 1 /\ n > settled
    BY <1>1, <1>2, <1>8, <2>1 DEF ToggleInv, NextSettles
  <2>5. strict' = SetBy(n - 1)'
    BY <1>1, <1>2, <2>1, <2>2, <2>3, <2>4
  <2>6. ASSUME NEW j \in 1 .. n - 1, j > settled
        PROVE  windows'[j].was = SetBy(j - 1)'
    BY <1>1, <1>4, <2>1, <2>2, <2>3, <2>6
  <2> QED
    BY <1>7, <2>1, <2>5, <2>6 DEF EachHoldsTheOneAround
<1>9. ASSUME ~(n - 1 >= settled')
      PROVE  EachHoldsTheOneAround'
  <2>1. \A j \in 1 .. n - 1 : ~(j > settled')
    BY <1>1, <1>9, <1>5 DEF NextSettles
  <2> QED
    BY <1>7, <2>1 DEF EachHoldsTheOneAround
<1>10. NestedWindowsRestore'
  BY <1>4, <1>8 DEF NestedWindowsRestore
<1> QED
  BY <1>5, <1>6, <1>8, <1>9, <1>10 DEF ToggleInv

LEMMA ToggleStep == ToggleInv /\ [ToggleNext]_toggleVars => ToggleInv'
<1> SUFFICES ASSUME ToggleInv, [ToggleNext]_toggleVars PROVE ToggleInv'
  OBVIOUS
<1>1. CASE ToggleNext
  BY <1>1, OpenKeepsInv, CloseKeepsInv DEF ToggleNext
<1>2. CASE UNCHANGED toggleVars
  BY <1>2 DEF toggleVars, ToggleInv, ToggleTypeOK, NestedWindowsRestore,
              EachHoldsTheOneAround, NextSettles, SetBy
<1> QED
  BY <1>1, <1>2

\* The steps of DirectCalls flip the toggle in windows or leave it alone.
LEMMA StepOfToggle == [Next]_vars => [ToggleNext]_toggleVars
  BY DEF Next, FlipToggle, FillBuffer, WriteThroughCommon, UnmarshalCommon, Captured,
         UnmarshalUnknown, EditResult, MarshalCommon, MarshalUnknown,
         JSONMarshalUnknown, ReturnFresh, vars, toggleVars

\* SetStrictMarshal and withStrictMarshal, for any number of goroutines and
\* windows: the innermost window is in force, if since it was opened windows
\* were closed in the reverse order of their opening.
THEOREM WindowsRestore == Spec => []NestedWindowsRestore
<1>1. Init => ToggleInv
  BY ToggleInitially DEF Init
<1>2. ToggleInv /\ [Next]_vars => ToggleInv'
  BY StepOfToggle, ToggleStep
<1>3. ToggleInv => NestedWindowsRestore
  BY DEF ToggleInv
<1> QED
  BY <1>1, <1>2, <1>3, PTL DEF Spec

-----------------------------------------------------------------------------
(* The heap *)

\* No two carriers share an array, and a carrier shares its array only with
\* callers of its own MarshalJSON.
Separation ==
  /\ \A u, v \in Unknowns : u # v /\ raw[u] # Nil => raw[u] # raw[v]
  /\ \A u \in Unknowns, g \in Goroutines :
       raw[u] # Nil /\ raw[u] = result[g] => u \in exposed

HeapInv == TypeOK /\ Separation /\ CarriedBytesStable /\ ResultsStable

LEMMA HeapInitially == Init => HeapInv
  BY ToggleInitially, DirectAssumption
     DEF Init, HeapInv, TypeOK, ToggleInv, Separation, CarriedBytesStable, ResultsStable, Cells

\* Collecting leaves what is referenced as it is.
LEMMA CollectKeeps ==
  ASSUME NEW b, NEW e, Collect(b, e), b \in [Cells -> Texts \union {Nil}]
  PROVE  /\ bytes' \in [Cells -> Texts \union {Nil}] /\ edited' \subseteq e
         /\ \A u \in Unknowns : raw'[u] \in Heap => bytes'[raw'[u]] = b[raw'[u]]
         /\ \A g \in Goroutines : result'[g] \in Heap =>
              /\ bytes'[result'[g]] = b[result'[g]]
              /\ result'[g] \in e => result'[g] \in edited'
<1>1. \A c \in Cells : Referenced(c)' => bytes'[c] = b[c]
  BY DEF Collect
<1>2. /\ \A u \in Unknowns, c \in Cells : raw'[u] = c => Referenced(c)'
      /\ \A g \in Goroutines, c \in Cells : result'[g] = c => Referenced(c)'
  BY DEF Referenced
<1>3. bytes' \in [Cells -> Texts \union {Nil}]
  BY DEF Collect
<1>4. edited' \subseteq e /\ \A c \in e : Referenced(c)' => c \in edited'
  BY DEF Collect
<1> QED
  BY <1>1, <1>2, <1>3, <1>4 DEF Cells

\* The step of UnmarshalUnknown.
LEMMA UnmarshalKeeps ==
  ASSUME HeapInv, NEW u \in Unknowns, UnmarshalUnknown(u), ToggleTypeOK'
  PROVE  HeapInv'
<1> USE DirectAssumption
<1>0. TypeOK /\ Separation /\ CarriedBytesStable /\ ResultsStable
  BY DEF HeapInv
<1>1. PICK c \in Fresh :
        /\ raw' = [raw EXCEPT ![u] = c]
        /\ Collect([bytes EXCEPT ![c] = bytes[Input]], edited)
  BY DEF UnmarshalUnknown
<1> DEFINE b == [bytes EXCEPT ![c] = bytes[Input]]
<1>2. /\ bytes[Input] \in Texts /\ c \in Heap /\ ~Referenced(c)
      /\ b \in [Cells -> Texts \union {Nil}]
  BY <1>0 DEF UnmarshalUnknown, Fresh, TypeOK, Cells
<1>3. /\ bytes' \in [Cells -> Texts \union {Nil}] /\ edited' \subseteq edited
      /\ \A v \in Unknowns : raw'[v] \in Heap => bytes'[raw'[v]] = b[raw'[v]]
      /\ \A g \in Goroutines : result'[g] \in Heap =>
           bytes'[result'[g]] = b[result'[g]] /\ (result'[g] \in edited => result'[g] \in edited')
  BY <1>0, <1>1, <1>2, CollectKeeps DEF TypeOK
<1>4. /\ decoded' = [decoded EXCEPT ![u] = bytes[Input]] /\ exposed' = exposed \ {u}
      /\ UNCHANGED <<fields, result, returned>>
  BY DEF UnmarshalUnknown, Captured
<1>5. TypeOK'
  BY <1>0, <1>1, <1>2, <1>3, <1>4 DEF TypeOK
<1>6. (\A v \in Unknowns : raw[v] # c) /\ (\A g \in Goroutines : result[g] # c)
  BY <1>2 DEF Referenced
<1>7. Separation'
  <2>1. ASSUME NEW v \in Unknowns, NEW w \in Unknowns, v # w, raw'[v] # Nil
        PROVE  raw'[v] # raw'[w]
    BY <1>0, <1>1, <1>6, <2>1 DEF Separation, TypeOK
  <2>2. ASSUME NEW v \in Unknowns, NEW g \in Goroutines, raw'[v] # Nil, raw'[v] = result'[g]
        PROVE  v \in exposed'
    BY <1>0, <1>1, <1>4, <1>6, <2>2 DEF Separation, TypeOK
  <2> QED
    BY <2>1, <2>2 DEF Separation
<1>8. CarriedBytesStable'
  <2> SUFFICES ASSUME NEW v \in Unknowns, raw'[v] # Nil, v \notin exposed'
               PROVE  bytes'[raw'[v]] = decoded'[v]
    BY DEF CarriedBytesStable
  <2>1. raw'[v] \in Heap /\ raw'[v] \in Cells /\ bytes'[raw'[v]] = b[raw'[v]]
    BY <1>3, <1>5 DEF TypeOK, Cells
  <2>2. CASE v = u
    BY <1>0, <1>1, <1>2, <1>4, <2>1, <2>2 DEF TypeOK
  <2>3. CASE v # u
    <3>1. raw'[v] = raw[v] /\ decoded'[v] = decoded[v] /\ v \notin exposed
      BY <1>0, <1>1, <1>4, <2>3 DEF TypeOK
    <3>2. b[raw[v]] = bytes[raw[v]]
      BY <1>0, <1>6, <2>1, <3>1 DEF TypeOK
    <3> QED
      BY <1>0, <2>1, <3>1, <3>2 DEF CarriedBytesStable
  <2> QED
    BY <2>2, <2>3
<1>9. ResultsStable'
  <2> SUFFICES ASSUME NEW g \in Goroutines, result'[g] # Nil, result'[g] \notin edited'
               PROVE  bytes'[result'[g]] = returned'[g]
    BY DEF ResultsStable
  <2>1. /\ result'[g] \in Heap /\ bytes'[result'[g]] = b[result'[g]]
        /\ result[g] \notin edited /\ result'[g] = result[g] /\ returned'[g] = returned[g]
    BY <1>3, <1>4, <1>5 DEF TypeOK
  <2>2. b[result[g]] = bytes[result[g]]
    BY <1>0, <1>6, <2>1 DEF TypeOK, Cells
  <2> QED
    BY <1>0, <2>1, <2>2 DEF ResultsStable
<1> QED
  BY <1>5, <1>7, <1>8, <1>9 DEF HeapInv

\* Bytes returned in an array of their own.
LEMMA ReturnFreshKeeps ==
  ASSUME HeapInv, NEW g \in Goroutines, NEW t \in Texts, ReturnFresh(g, t), ToggleTypeOK'
  PROVE  HeapInv'
<1> USE DirectAssumption
<1>0. TypeOK /\ Separation /\ CarriedBytesStable /\ ResultsStable
  BY DEF HeapInv
<1>1. PICK c \in Fresh :
        result' = [result EXCEPT ![g] = c] /\ Collect([bytes EXCEPT ![c] = t], edited)
  BY DEF ReturnFresh
<1> DEFINE b == [bytes EXCEPT ![c] = t]
<1>2. c \in Heap /\ ~Referenced(c) /\ b \in [Cells -> Texts \union {Nil}]
  BY <1>0 DEF Fresh, TypeOK, Cells
<1>3. /\ bytes' \in [Cells -> Texts \union {Nil}] /\ edited' \subseteq edited
      /\ \A v \in Unknowns : raw'[v] \in Heap => bytes'[raw'[v]] = b[raw'[v]]
      /\ \A h \in Goroutines : result'[h] \in Heap =>
           bytes'[result'[h]] = b[result'[h]] /\ (result'[h] \in edited => result'[h] \in edited')
  BY <1>0, <1>1, <1>2, CollectKeeps DEF TypeOK
<1>4. returned' = [returned EXCEPT ![g] = t] /\ UNCHANGED <<values, decoded, exposed>>
  BY DEF ReturnFresh
<1>5. TypeOK'
  BY <1>0, <1>1, <1>2, <1>3, <1>4 DEF TypeOK, values
<1>6. (\A v \in Unknowns : raw[v] # c) /\ (\A h \in Goroutines : result[h] # c)
  BY <1>2 DEF Referenced
<1>7. Separation'
  BY <1>0, <1>1, <1>4, <1>6 DEF Separation, TypeOK, values
<1>8. CarriedBytesStable'
  <2> SUFFICES ASSUME NEW v \in Unknowns, raw'[v] # Nil, v \notin exposed'
               PROVE  bytes'[raw'[v]] = decoded'[v]
    BY DEF CarriedBytesStable
  <2>1. raw'[v] = raw[v] /\ raw[v] \in Cells /\ bytes'[raw'[v]] = b[raw'[v]]
    BY <1>3, <1>4, <1>5 DEF TypeOK, Cells, values
  <2>2. b[raw[v]] = bytes[raw[v]]
    BY <1>0, <1>6, <2>1 DEF TypeOK
  <2> QED
    BY <1>0, <1>4, <2>1, <2>2 DEF CarriedBytesStable, values
<1>9. ResultsStable'
  <2> SUFFICES ASSUME NEW h \in Goroutines, result'[h] # Nil, result'[h] \notin edited'
               PROVE  bytes'[result'[h]] = returned'[h]
    BY DEF ResultsStable
  <2>1. /\ result'[h] \in Heap /\ bytes'[result'[h]] = b[result'[h]]
        /\ result'[h] \notin edited
    BY <1>3, <1>5 DEF TypeOK
  <2>2. CASE h = g
    BY <1>0, <1>1, <1>2, <1>4, <2>1, <2>2 DEF TypeOK, Cells
  <2>3. CASE h # g
    <3>1. result'[h] = result[h] /\ returned'[h] = returned[h]
      BY <1>0, <1>1, <1>4, <2>3 DEF TypeOK
    <3>2. b[result[h]] = bytes[result[h]]
      BY <1>0, <1>6, <2>1, <3>1 DEF TypeOK, Cells
    <3> QED
      BY <1>0, <2>1, <3>1, <3>2 DEF ResultsStable
  <2> QED
    BY <2>2, <2>3
<1> QED
  BY <1>5, <1>7, <1>8, <1>9 DEF HeapInv

\* A result dropped, or replaced by the array of the carrier itself.
LEMMA ResultChanges ==
  ASSUME HeapInv, ToggleTypeOK', NEW g \in Goroutines, NEW r, NEW t \in Texts \union {Nil},
         \/ r = Nil /\ exposed' = exposed
         \/ \E u \in Unknowns : /\ raw[u] # Nil /\ r = raw[u] /\ t = bytes[r]
                               /\ exposed' = exposed \union {u},
         result' = [result EXCEPT ![g] = r], returned' = [returned EXCEPT ![g] = t],
         Collect(bytes, edited), UNCHANGED <<values, decoded>>
  PROVE  HeapInv'
<1> USE DirectAssumption
<1>0. TypeOK /\ Separation /\ CarriedBytesStable /\ ResultsStable
  BY DEF HeapInv
<1>1. /\ bytes' \in [Cells -> Texts \union {Nil}] /\ edited' \subseteq edited
      /\ \A v \in Unknowns : raw'[v] \in Heap => bytes'[raw'[v]] = bytes[raw'[v]]
      /\ \A h \in Goroutines : result'[h] \in Heap =>
           bytes'[result'[h]] = bytes[result'[h]] /\ (result'[h] \in edited => result'[h] \in edited')
  BY <1>0, CollectKeeps DEF TypeOK
<1>2. TypeOK'
  BY <1>0, <1>1 DEF TypeOK, values
<1>3. raw' = raw /\ decoded' = decoded /\ exposed \subseteq exposed'
  BY DEF values
<1>4. Separation'
  <2>1. \A u, v \in Unknowns : u # v /\ raw'[u] # Nil => raw'[u] # raw'[v]
    BY <1>0, <1>3 DEF Separation
  <2>2. ASSUME NEW v \in Unknowns, NEW h \in Goroutines, raw'[v] # Nil, raw'[v] = result'[h]
        PROVE  v \in exposed'
    BY <1>0, <1>3, <2>2 DEF Separation, TypeOK
  <2> QED
    BY <2>1, <2>2 DEF Separation
<1>5. CarriedBytesStable'
  BY <1>0, <1>1, <1>2, <1>3 DEF CarriedBytesStable, TypeOK
<1>6. ResultsStable'
  <2> SUFFICES ASSUME NEW h \in Goroutines, result'[h] # Nil, result'[h] \notin edited'
               PROVE  bytes'[result'[h]] = returned'[h]
    BY DEF ResultsStable
  <2>1. /\ result'[h] \in Heap /\ bytes'[result'[h]] = bytes[result'[h]]
        /\ result'[h] \notin edited
    BY <1>1, <1>2 DEF TypeOK
  <2> QED
    BY <1>0, <2>1 DEF ResultsStable, TypeOK
<1> QED
  BY <1>2, <1>4, <1>5, <1>6 DEF HeapInv

LEMMA EditKeeps ==
  ASSUME HeapInv, ToggleTypeOK', NEW g \in Goroutines, EditResult(g)
  PROVE  HeapInv'
<1> USE DirectAssumption
<1>0. TypeOK /\ Separation /\ CarriedBytesStable /\ ResultsStable
  BY DEF HeapInv
<1>1. PICK t \in Texts : bytes' = [bytes EXCEPT ![result[g]] = t]
  BY DEF EditResult
<1>2. /\ result[g] \in Heap /\ edited' = edited \union {result[g]}
      /\ UNCHANGED <<raw, fields, result, decoded, returned, exposed>>
  BY <1>0 DEF EditResult, TypeOK, values
<1>3. TypeOK'
  BY <1>0, <1>1, <1>2 DEF TypeOK, Cells
<1>4. Separation'
  BY <1>0, <1>2 DEF Separation
<1>5. CarriedBytesStable'
  BY <1>0, <1>1, <1>2 DEF CarriedBytesStable, Separation, TypeOK, Cells
<1>6. ResultsStable'
  BY <1>0, <1>1, <1>2 DEF ResultsStable, TypeOK, Cells
<1> QED
  BY <1>3, <1>4, <1>5, <1>6 DEF HeapInv

LEMMA FillKeeps ==
  ASSUME HeapInv, ToggleTypeOK', FillBuffer
  PROVE  HeapInv'
<1> USE DirectAssumption
<1>1. TypeOK'
  BY DEF HeapInv, TypeOK, FillBuffer, values, history, Cells
<1>2. Separation'
  BY DEF HeapInv, Separation, FillBuffer, values, history
<1>3. CarriedBytesStable' /\ ResultsStable'
  BY DEF HeapInv, TypeOK, FillBuffer, values, history, Cells, CarriedBytesStable, ResultsStable
<1> QED
  BY <1>1, <1>2, <1>3 DEF HeapInv

\* The steps on the §2 members of the *CommonType values, and no step at all.
LEMMA FieldsKeep ==
  ASSUME HeapInv, ToggleTypeOK', fields' \in [Commons -> Texts],
         UNCHANGED <<bytes, raw, result, history>>
  PROVE  HeapInv'
<1>1. TypeOK'
  BY DEF HeapInv, TypeOK, history
<1>2. Separation' /\ CarriedBytesStable' /\ ResultsStable'
  BY DEF HeapInv, Separation, CarriedBytesStable, ResultsStable, history
<1> QED
  BY <1>1, <1>2 DEF HeapInv

\* What an *UnknownType holds is an element's text.
RawHoldsText == \A u \in Unknowns : raw[u] # Nil => bytes[raw[u]] \in Texts

IInv == ToggleInv /\ HeapInv /\ RawHoldsText

LEMMA HeapStep ==
  ASSUME IInv, [Next]_vars
  PROVE  ToggleInv' /\ HeapInv'
<1> USE DEF IInv
<1>1. ToggleInv' /\ ToggleTypeOK'
  BY StepOfToggle, ToggleStep DEF ToggleInv
<1>2. TypeOK
  BY DEF HeapInv
<1>3. ASSUME FlipToggle \/ UNCHANGED vars
      PROVE  HeapInv'
  BY <1>1, <1>2, <1>3, FieldsKeep DEF FlipToggle, vars, values, TypeOK
<1>4. CASE FillBuffer
  BY <1>1, <1>4, FillKeeps
<1>5. ASSUME NEW k \in Commons, WriteThroughCommon(k) \/ UnmarshalCommon(k)
      PROVE  HeapInv'
  <2>1. fields' \in [Commons -> Texts]
    BY <1>2, <1>5 DEF WriteThroughCommon, UnmarshalCommon, TypeOK, Cells
  <2> QED
    BY <1>1, <1>5, <2>1, FieldsKeep DEF WriteThroughCommon, UnmarshalCommon
<1>6. ASSUME NEW u \in Unknowns, UnmarshalUnknown(u)
      PROVE  HeapInv'
  BY <1>1, <1>6, UnmarshalKeeps
<1>7. ASSUME NEW g \in Goroutines, EditResult(g)
      PROVE  HeapInv'
  BY <1>1, <1>7, EditKeeps
<1>8. ASSUME NEW g \in Goroutines, NEW k \in Commons, MarshalCommon(g, k)
      PROVE  HeapInv'
  <2>1. CASE ReturnFresh(g, fields[k])
    BY <1>1, <1>2, <2>1, ReturnFreshKeeps DEF TypeOK
  <2>2. CASE ~ReturnFresh(g, fields[k])
    <3>1. /\ result' = [result EXCEPT ![g] = Nil] /\ returned' = [returned EXCEPT ![g] = Nil]
          /\ UNCHANGED <<values, decoded, exposed>> /\ Collect(bytes, edited)
      BY <1>8, <2>2 DEF MarshalCommon
    <3> QED
      BY <1>1, <3>1, ResultChanges
  <2> QED
    BY <2>1, <2>2
<1>9. ASSUME NEW g \in Goroutines, NEW u \in Unknowns, MarshalUnknown(g, u)
      PROVE  HeapInv'
  <2>1. CASE ReturnFresh(g, Bare)
    BY <1>1, <2>1, ReturnFreshKeeps, DirectAssumption
  <2>2. CASE ~ReturnFresh(g, Bare)
    <3>1. /\ raw[u] # Nil /\ bytes[raw[u]] \in Texts /\ exposed' = exposed \union {u}
          /\ result' = [result EXCEPT ![g] = raw[u]]
          /\ returned' = [returned EXCEPT ![g] = bytes[raw[u]]]
          /\ Collect(bytes, edited) /\ UNCHANGED <<values, decoded>>
      BY <1>9, <2>2 DEF MarshalUnknown, RawHoldsText
    <3> QED
      BY <1>1, <3>1, ResultChanges
  <2> QED
    BY <2>1, <2>2
<1>10. ASSUME NEW g \in Goroutines, NEW u \in Unknowns, JSONMarshalUnknown(g, u)
       PROVE  HeapInv'
  <2>1. (IF raw[u] = Nil THEN Bare ELSE bytes[raw[u]]) \in Texts
    BY DirectAssumption DEF RawHoldsText
  <2> QED
    BY <1>1, <1>10, <2>1, ReturnFreshKeeps DEF JSONMarshalUnknown
<1> QED
  BY <1>1, <1>3, <1>4, <1>5, <1>6, <1>7, <1>8, <1>9, <1>10 DEF Next

\* A step either leaves what a carrier holds, or has put a text there.
LEMMA TextStep ==
  ASSUME IInv, [Next]_vars
  PROVE  RawHoldsText'
<1> USE DirectAssumption DEF IInv
<1>1. TypeOK /\ TypeOK' /\ RawHoldsText
  BY HeapStep DEF HeapInv
<1> SUFFICES ASSUME NEW u \in Unknowns, raw'[u] # Nil
             PROVE  bytes'[raw'[u]] # Nil
  BY <1>1 DEF RawHoldsText, TypeOK, Cells
<1>2. /\ raw'[u] \in Heap /\ raw'[u] \in Cells
      /\ raw[u] # Nil => raw[u] \in Cells /\ bytes[raw[u]] # Nil
  BY <1>1 DEF TypeOK, Cells, RawHoldsText
<1>3. ASSUME NEW b \in [Cells -> Texts \union {Nil}], Collect(b, edited), b[raw'[u]] # Nil
      PROVE  bytes'[raw'[u]] # Nil
  BY <1>2, <1>3, CollectKeeps
<1>4. ASSUME UNCHANGED raw, UNCHANGED bytes \/ Collect(bytes, edited)
      PROVE  bytes'[raw'[u]] # Nil
  BY <1>1, <1>2, <1>3, <1>4 DEF TypeOK
<1>5. ASSUME NEW g, NEW t, ReturnFresh(g, t), t \in Texts
      PROVE  bytes'[raw'[u]] # Nil
  <2>1. PICK c \in Fresh : Collect([bytes EXCEPT ![c] = t], edited) /\ raw' = raw
    BY <1>5 DEF ReturnFresh, values
  <2> DEFINE b == [bytes EXCEPT ![c] = t]
  <2>2. b \in [Cells -> Texts \union {Nil}] /\ b[raw'[u]] # Nil
    BY <1>1, <1>2, <1>5, <2>1 DEF TypeOK
  <2> QED
    BY <1>3, <2>1, <2>2
<1>6. ASSUME NEW v \in Unknowns, UnmarshalUnknown(v)
      PROVE  bytes'[raw'[u]] # Nil
  <2>1. PICK c \in Fresh : /\ raw' = [raw EXCEPT ![v] = c]
                           /\ Collect([bytes EXCEPT ![c] = bytes[Input]], edited)
    BY <1>6 DEF UnmarshalUnknown
  <2> DEFINE b == [bytes EXCEPT ![c] = bytes[Input]]
  <2>2. bytes[Input] # Nil /\ c \in Cells
    BY <1>6, <2>1 DEF UnmarshalUnknown, Fresh, Cells
  <2>3. b \in [Cells -> Texts \union {Nil}] /\ b[raw'[u]] # Nil
    BY <1>1, <1>2, <2>1, <2>2 DEF TypeOK, Cells
  <2> QED
    BY <1>3, <2>1, <2>3
<1>7. ASSUME \/ FlipToggle \/ UNCHANGED vars
             \/ \E k \in Commons : WriteThroughCommon(k) \/ UnmarshalCommon(k)
      PROVE  bytes'[raw'[u]] # Nil
  BY <1>4, <1>7 DEF FlipToggle, vars, values, WriteThroughCommon, UnmarshalCommon
<1>8. ASSUME FillBuffer \/ \E g \in Goroutines : EditResult(g)
      PROVE  bytes'[raw'[u]] # Nil
  BY <1>1, <1>2, <1>8 DEF FillBuffer, EditResult, values, TypeOK
<1>9. ASSUME NEW g \in Goroutines, NEW k \in Commons, MarshalCommon(g, k)
      PROVE  bytes'[raw'[u]] # Nil
  <2>1. fields[k] \in Texts
    BY <1>1 DEF TypeOK
  <2> QED
    BY <1>4, <1>5, <1>9, <2>1 DEF MarshalCommon, values
<1>10. ASSUME NEW g \in Goroutines, NEW v \in Unknowns,
              MarshalUnknown(g, v) \/ JSONMarshalUnknown(g, v)
       PROVE  bytes'[raw'[u]] # Nil
  <2>1. (IF raw[v] = Nil THEN Bare ELSE bytes[raw[v]]) \in Texts
    BY <1>1 DEF RawHoldsText
  <2> QED
    BY <1>4, <1>5, <1>10, <2>1 DEF MarshalUnknown, JSONMarshalUnknown, values
<1> QED
  BY <1>6, <1>7, <1>8, <1>9, <1>10 DEF Next

LEMMA IInvHolds == Spec => []IInv
<1>1. Init => IInv
  BY HeapInitially, ToggleInitially DEF Init, IInv, RawHoldsText
<1>2. IInv /\ [Next]_vars => IInv'
  BY HeapStep, TextStep DEF IInv
<1> QED
  BY <1>1, <1>2, PTL DEF Spec

\* For any number of carriers, goroutines and arrays: no carrier and no caller
\* is ever left with a slice of the decoder's buffer.
THEOREM HeapTypes == Spec => []TypeOK
<1>1. IInv => TypeOK
  BY DEF IInv, HeapInv
<1> QED
  BY <1>1, IInvHolds, PTL

\* UnknownType.UnmarshalJSON: the bytes kept verbatim stay verbatim.
THEOREM CarriedBytes == Spec => []CarriedBytesStable
<1>1. IInv => CarriedBytesStable
  BY DEF IInv, HeapInv
<1> QED
  BY <1>1, IInvHolds, PTL

\* MarshalJSON: what it returned is not written over by a later call.
THEOREM Results == Spec => []ResultsStable
<1>1. IInv => ResultsStable
  BY DEF IInv, HeapInv
<1> QED
  BY <1>1, IInvHolds, PTL

\* SetStrictMarshal: inside its own innermost strict window, since whose opening
\* windows were closed in the reverse order of their opening, a goroutine gets
\* no ill-formed text out of a carrier of this package.
THEOREM WindowIsStrict == Spec => StrictWindowHolds
<1> DEFINE Holds == \A g \in Goroutines, k \in Commons :
             MarshalCommon(g, k) /\ InStrictWindow(g) => returned'[g] \notin IllFormed
<1>1. ASSUME IInv, NEW g \in Goroutines, NEW k \in Commons,
             MarshalCommon(g, k), InStrictWindow(g)
      PROVE  returned'[g] \notin IllFormed
  <2>1. returned \in [Goroutines -> Texts \union {Nil}]
    BY <1>1 DEF IInv, HeapInv, TypeOK
  <2>2. Len(windows) # 0
    <3>1. windows \in Seq([by : Goroutines, set : BOOLEAN, was : BOOLEAN])
      BY <1>1 DEF IInv, ToggleInv, ToggleTypeOK
    <3> QED
      BY <1>1, <3>1, EmptySeq DEF InStrictWindow
  <2>3. strict
    BY <1>1, <2>2 DEF IInv, ToggleInv, NestedWindowsRestore, InStrictWindow, SetBy
  <2>4. CASE fields[k] \in IllFormed
    BY <1>1, <2>1, <2>3, <2>4, DirectAssumption DEF MarshalCommon
  <2>5. CASE fields[k] \notin IllFormed
    BY <1>1, <2>1, <2>5 DEF MarshalCommon, ReturnFresh
  <2> QED
    BY <2>4, <2>5
<1>2. IInv => [Holds]_vars
  BY <1>1
<1> QED
  BY <1>2, IInvHolds, PTL DEF StrictWindowHolds
=============================================================================
