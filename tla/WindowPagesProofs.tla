-------------------------- MODULE WindowPagesProofs --------------------------
(***************************************************************************)
(* Three pages of the window.                                               *)
(*                                                                         *)
(* A page of toggles (TweakPage), of any length and with any values behind  *)
(* its toggles: its types, and that a page at rest shows the registry.      *)
(*                                                                         *)
(* The process page (ProcessPage), over any processes and names and for any *)
(* times: its types, that what ends is what was chosen, that what is shown  *)
(* is fresh, and that what is excluded stays in the list.                   *)
(*                                                                         *)
(* The shutdown timer (ShutdownTimer), for any delays, margin and probing   *)
(* interval: its types, that the countdown is right, and that no probe      *)
(* leaves a shutdown behind.                                                *)
(***************************************************************************)
EXTENDS TweakPage, ProcessScene, TimerScene, SequenceTheorems, TLAPS

-----------------------------------------------------------------------------
(* The page of toggles *)

LEMMA BatchType == \A q \in Batches : q \in Seq(Rows) /\ q # <<>>
<1> SUFFICES ASSUME NEW q \in Batches PROVE q \in Seq(Rows) /\ q # <<>>
  OBVIOUS
<1>1. PICK n \in Rows : q \in [1..n -> Rows]
  BY DEF Batches
<1>2. n \in Nat \ {0}
  BY ConstAssumption DEF Rows
<1>3. q \in Seq(Rows) /\ Len(q) = n
  BY <1>1, <1>2
<1>4. QED
  BY <1>2, <1>3, EmptySeq

LEMMA BlankType == Blank \in [Rows -> BOOLEAN] /\ 1 \in 1..N + 1
BY ConstAssumption DEF Blank

\* What apply writes, of a toggle that is known.
LEMMA WritesType ==
    ASSUME NEW i \in Rows
    PROVE  /\ OnWrites[i] \in Seq(Values) /\ 1 \in DOMAIN OnWrites[i]
           /\ \A on \in BOOLEAN : Writes(i, on) \in Seq(Values) /\ 1 \in DOMAIN Writes(i, on)
<1>1. ASSUME NEW s \in Seq(Values), s # <<>> PROVE 1 \in DOMAIN s
  <2>1. Len(s) \in Nat \ {0} /\ DOMAIN s = 1..Len(s)
    BY <1>1, LenProperties, EmptySeq
  <2>2. QED
    BY <2>1
<1>2. /\ OnWrites[i] \in Seq(Values) /\ OnWrites[i] # <<>>
      /\ OffWrites[i] \in Seq(Values) /\ OffWrites[i] # <<>>
  BY ConstAssumption
<1>3. QED
  BY <1>1, <1>2 DEF Writes

\* One value further, while there is one.
LEMMA NextPart ==
    ASSUME NEW s \in Seq(Values), NEW k \in DOMAIN s
    PROVE  s[k] \in Values /\ (k < Len(s) => k + 1 \in DOMAIN s)
<1>1. Len(s) \in Nat /\ DOMAIN s = 1..Len(s) /\ \A n \in 1..Len(s) : s[n] \in Values
  BY LenProperties, ElementOfSeq
<1>2. QED
  BY <1>1

\* Every step keeps the variables well-formed.
LEMMA TypeStep == TypeOK /\ [Next]_vars => TypeOK'
<1> USE ConstAssumption
<1> SUFFICES ASSUME TypeOK, [Next]_vars PROVE TypeOK'
  OBVIOUS
<1> USE DEF TypeOK, page, click, batch
<1>1. CASE ReadOne
  <2>1. at' \in 1..N + 1 /\ at \in Rows
    BY <1>1 DEF ReadOne, Rows
  <2>2. Truth(at) \in BOOLEAN
    BY <2>1 DEF Truth
  <2>3. QED
    BY <1>1, <2>1, <2>2 DEF ReadOne, Writes
<1>2. CASE Publish
  BY <1>2 DEF Publish, Writes
<1>3. CASE Finish
  BY <1>3, BlankType DEF Finish, NoLoop, Writes
<1>4. CASE BeginFrame
  <2>1. CASE due /\ ~Running
    BY <1>4, <2>1, BlankType DEF BeginFrame, StartProbe, NoLoop, Writes
  <2>2. CASE ~(due /\ ~Running)
    BY <1>4, <2>2 DEF BeginFrame, Writes
  <2>3. QED
    BY <2>1, <2>2
<1>5. CASE EndFrame
  BY <1>5 DEF EndFrame, Writes
<1>6. CASE StartApply
  BY <1>6 DEF StartApply, Writes
<1>7. CASE ApplyPart
  <2>1. Writes(row, value) \in Seq(Values) /\ row' = row /\ value' = value
    BY <1>7, WritesType DEF ApplyPart
  <2>2. store' \in [Values -> BOOLEAN]
    BY <1>7, <2>1, NextPart DEF ApplyPart, SetOrFail
  <2>3. part' \in DOMAIN Writes(row, value)
    BY <1>7, <2>1, NextPart DEF ApplyPart
  <2>4. part' \in DOMAIN Writes(row', value')
    BY <2>1, <2>3
  <2>5. QED
    BY <1>7, <2>2, <2>4 DEF ApplyPart, Writes
<1>8. CASE Show
  <2>1. row' \in Rows /\ value' \in BOOLEAN /\ part' \in DOMAIN Writes(row', value')
    <3>1. row' = 1 /\ value' = FALSE /\ part' = 1 /\ 1 \in Rows
      BY <1>8 DEF Show, NoClick, Rows
    <3>2. QED
      BY <3>1, WritesType
  <2>2. states' = <<>> \/ states' \in [Rows -> BOOLEAN]
    BY <1>8 DEF Show
  <2>3. /\ UNCHANGED <<store, elevated, probe, at, got, open, todo, todoPart, touched>>
        /\ due' = TRUE /\ step' = "begin"
    BY <1>8 DEF Show, batch
  <2>4. QED
    BY <2>1, <2>2, <2>3
<1>9. ASSUME NEW i \in Rows, Click(i)
      PROVE  TypeOK'
  <2>1. value' \in BOOLEAN
    BY <1>9 DEF Click, Shown
  <2>2. part' \in DOMAIN Writes(row', value')
    BY <1>9, <2>1, WritesType DEF Click
  <2>3. QED
    BY <1>9, <2>1, <2>2 DEF Click, Writes
<1>10. CASE Refuse
  BY <1>10 DEF Refuse, Writes
<1>11. CASE Relaunch
  <2>1. row' \in Rows /\ value' \in BOOLEAN /\ part' \in DOMAIN Writes(row', value')
    <3>1. row' = 1 /\ value' = FALSE /\ part' = 1 /\ 1 \in Rows
      BY <1>11 DEF Relaunch, NoClick, Rows
    <3>2. QED
      BY <3>1, WritesType
  <2>2. QED
    BY <1>11, <2>1, BlankType DEF Relaunch, NoLoop, Writes
<1>12. CASE Navigate
  BY <1>12 DEF Navigate, Writes
<1>13. CASE Tick
  BY <1>13 DEF Tick, Writes
<1>14. ASSUME NEW q \in Batches, EnqueueBatch(q)
       PROVE  TypeOK'
  <2>1. q \in Seq(Rows) /\ q # <<>> /\ todo' = todo \o q
    BY <1>14, BatchType DEF EnqueueBatch
  <2>2. todo' \in Seq(Rows) /\ todo' # <<>>
    <3>1. Len(todo') = Len(todo) + Len(q) /\ todo' \in Seq(Rows)
      BY <2>1, ConcatProperties
    <3>2. Len(todo) \in Nat /\ Len(q) \in Nat \ {0}
      BY <2>1, LenProperties, EmptySeq
    <3>3. QED
      BY <3>1, <3>2, EmptySeq
  <2>3. todo # <<>> => Head(todo') = Head(todo)
    <3>1. \A k \in 1..Len(todo) + Len(q) :
              todo'[k] = IF k <= Len(todo) THEN todo[k] ELSE q[k - Len(todo)]
      BY <2>1, ConcatProperties
    <3>2. Len(q) \in Nat /\ Len(todo) \in Nat /\ (todo # <<>> => Len(todo) # 0)
      BY <2>1, LenProperties, EmptySeq
    <3>3. todo # <<>> => 1 \in 1..Len(todo) + Len(q) /\ 1 <= Len(todo)
      BY <3>2
    <3>4. todo # <<>> => todo'[1] = todo[1]
      BY <3>1, <3>3
    <3>5. QED
      BY <3>4
  <2>4. todoPart' \in DOMAIN OnWrites[Head(todo')]
    <3>1. Head(todo') \in Rows
      BY <2>2, HeadTailProperties
    <3>2. todoPart' = todoPart
      BY <1>14 DEF EnqueueBatch
    <3>3. QED
      BY <2>3, <3>1, <3>2, WritesType
  <2>5. QED
    BY <1>14, <2>2, <2>4 DEF EnqueueBatch, Writes
<1>15. CASE WorkerApply
  <2>1. Head(todo) \in Rows /\ Tail(todo) \in Seq(Rows) /\ todoPart \in DOMAIN OnWrites[Head(todo)]
    BY <1>15, HeadTailProperties DEF WorkerApply
  <2>2. OnWrites[Head(todo)] \in Seq(Values)
    BY <2>1, WritesType
  <2>3. PICK writes \in Seq(Values) : writes = OnWrites[Head(todo)] /\ todoPart \in DOMAIN writes
    BY <2>1, <2>2
  <2>4. /\ \E v : /\ v = writes[todoPart]
                 /\ store' \in {store, [store EXCEPT ![v] = TRUE]}
                 /\ touched' = touched \cup {v}
        /\ IF todoPart < Len(writes) THEN todoPart' = todoPart + 1 /\ todo' = todo
           ELSE todoPart' = 1 /\ todo' = Tail(todo)
    BY <1>15, <2>3 DEF WorkerApply, SetOrFail
  <2>5. store' \in [Values -> BOOLEAN] /\ touched' \subseteq Values
    <3>1. writes[todoPart] \in Values
      BY <2>3, NextPart
    <3>2. PICK v \in Values : /\ store' \in {store, [store EXCEPT ![v] = TRUE]}
                               /\ touched' = touched \cup {v}
      BY <2>4, <3>1
    <3>3. QED
      BY <3>2
  <2>6. todo' \in Seq(Rows)
    BY <2>1, <2>4
  <2>7. todoPart' \in IF todo' = <<>> THEN {1} ELSE DOMAIN OnWrites[Head(todo')]
    <3>1. CASE todoPart < Len(writes)
      <4>1. todoPart' \in DOMAIN writes /\ todo' = todo /\ todo # <<>>
        BY <1>15, <2>3, <2>4, <3>1, NextPart DEF WorkerApply
      <4>2. QED
        BY <2>3, <4>1
    <3>2. CASE ~(todoPart < Len(writes)) /\ todo' = <<>>
      BY <2>4, <3>2
    <3>3. CASE ~(todoPart < Len(writes)) /\ todo' # <<>>
      <4>1. todoPart' = 1 /\ Head(todo') \in Rows
        BY <2>4, <2>6, <3>3, HeadTailProperties
      <4>2. QED
        BY <3>3, <4>1, WritesType
    <3>4. QED
      BY <3>1, <3>2, <3>3
  <2>8. QED
    BY <1>15, <2>5, <2>6, <2>7 DEF WorkerApply, Writes
<1>16. ASSUME NEW v \in Values, NEW on \in BOOLEAN, Elsewhere(v, on)
       PROVE  TypeOK'
  BY <1>16 DEF Elsewhere, Writes
<1>17. CASE UNCHANGED vars
  BY <1>17 DEF vars, Writes
<1>18. QED
  BY <1>1, <1>2, <1>3, <1>4, <1>5, <1>6, <1>7, <1>8, <1>9, <1>10, <1>11, <1>12,
     <1>13, <1>14, <1>15, <1>16, <1>17 DEF Next, ProbeThread, Draw

\* The variables of every reachable state are well-formed.
THEOREM TypeCorrect == Spec => []TypeOK
<1>1. Init => TypeOK
  <2> SUFFICES ASSUME Init PROVE TypeOK
    OBVIOUS
  <2>1. store \in [Values -> BOOLEAN]
    BY DEF Init
  <2>2. row \in Rows /\ at \in 1..N + 1 /\ row = 1 /\ value = FALSE /\ part = 1
    BY ConstAssumption DEF Init, Rows
  <2>3. part \in DOMAIN Writes(row, value)
    BY <2>2, WritesType
  <2>4. todo = <<>> /\ todoPart = 1 /\ todo \in Seq(Rows)
        /\ (states = <<>> \/ states \in [Rows -> BOOLEAN])
    BY DEF Init
  <2>5. value \in BOOLEAN /\ elevated \in BOOLEAN /\ due \in BOOLEAN /\ open \in BOOLEAN
    BY DEF Init
  <2>6. probe \in {"none", "read", "finish"}
        /\ step \in {"begin", "rows", "ask", "apply", "show"}
    BY DEF Init
  <2>7. got \in [Rows -> BOOLEAN]
    BY BlankType DEF Init
  <2>8. touched \subseteq Values
    BY DEF Init
  <2>9. QED
    BY <2>1, <2>2, <2>3, <2>4, <2>5, <2>6, <2>7, <2>8 DEF TypeOK
<1>2. QED
  BY <1>1, TypeStep, PTL DEF Spec

-----------------------------------------------------------------------------
(* The toggles whose values only the page writes.  Its own writes make the  *)
(* next probe due when they end, so as long as none is due the running      *)
(* probe has read what the registry still holds.                            *)

Calm == ~Clicking /\ ~due

ProbeInv ==
    Calm => IF probe = "read" THEN \A i \in Own : i < at => (got[i] <=> Truth(i))
                              ELSE \A i \in Own : Shown(i) <=> Truth(i)

\* A probe finds what the values it reads are.
LEMMA TruthKept ==
    ASSUME NEW i \in Rows, \A v \in Reads[i] : store'[v] = store[v]
    PROVE  Truth(i)' <=> Truth(i)
BY DEF Truth

LEMMA ProbeStep == TypeOK /\ ProbeInv /\ [Next]_vars => ProbeInv'
<1> SUFFICES ASSUME TypeOK, ProbeInv, [Next]_vars PROVE ProbeInv'
  OBVIOUS
<1> USE ConstAssumption DEF ProbeInv, Calm, Clicking, Own, Truth, Shown, page, click, batch
<1>1. CASE ReadOne
  <2>0. at \in Rows /\ at' = at + 1
    BY <1>1 DEF ReadOne, TypeOK, Rows
  <2>1. PICK b : b = Truth(at) /\ got' = [got EXCEPT ![at] = b]
    <3> HIDE DEF Truth
    <3>1. got' = [got EXCEPT ![at] = Truth(at)]
      BY <1>1, Zenon DEF ReadOne
    <3>2. QED
      BY <3>1, Zenon
  <2>2. got \in [Rows -> BOOLEAN]
    BY DEF TypeOK
  <2>3. got'[at] <=> Truth(at)
    <3> HIDE DEF Truth
    <3>1. got'[at] = Truth(at)
      BY <2>0, <2>1, <2>2
    <3>2. QED
      BY <3>1, Zenon
  <2>4. \A i \in Rows : i < at' => (i = at \/ (i < at /\ got'[i] = got[i]))
    <3> HIDE DEF Truth
    <3>1. \A i \in Rows : i < at' => (i = at \/ i < at)
      BY <2>0 DEF Rows
    <3>2. \A i \in Rows : i < at => got'[i] = got[i]
      BY <2>0, <2>1, <2>2 DEF Rows
    <3>3. QED
      BY <3>1, <3>2
  <2>5. QED
    BY <1>1, <2>3, <2>4 DEF ReadOne
<1>2. CASE Publish
  <2>1. \A i \in Rows : i < at
    BY <1>2 DEF Publish, TypeOK, Rows
  <2>2. states' = got /\ DOMAIN got = Rows
    BY <1>2 DEF Publish, TypeOK
  <2>3. QED
    BY <1>2, <2>1, <2>2 DEF Publish
<1>3. CASE Finish
  BY <1>3 DEF Finish
<1>4. CASE BeginFrame
  <2>1. CASE due /\ ~Running
    <3>1. at' = 1 /\ probe' = "read"
      BY <1>4, <2>1 DEF BeginFrame, StartProbe, NoLoop
    <3>2. \A i \in Rows : ~(i < at')
      BY <3>1 DEF Rows
    <3>3. QED
      BY <1>4, <2>1, <3>1, <3>2 DEF BeginFrame
  <2>2. CASE ~(due /\ ~Running)
    BY <1>4, <2>2 DEF BeginFrame
  <2>3. QED
    BY <2>1, <2>2
<1>5. CASE EndFrame
  BY <1>5 DEF EndFrame
<1>6. CASE StartApply
  BY <1>6 DEF StartApply
<1>7. CASE ApplyPart
  BY <1>7 DEF ApplyPart
<1>8. CASE Show
  BY <1>8 DEF Show
<1>9. ASSUME NEW i \in Rows, Click(i)
      PROVE  ProbeInv'
  BY <1>9 DEF Click
<1>10. CASE Refuse
  BY <1>10 DEF Refuse
<1>11. CASE Relaunch
  BY <1>11 DEF Relaunch
<1>12. CASE Navigate
  BY <1>12 DEF Navigate
<1>13. CASE Tick
  BY <1>13 DEF Tick
<1>14. ASSUME NEW q \in Batches, EnqueueBatch(q)
       PROVE  ProbeInv'
  BY <1>14 DEF EnqueueBatch
<1>15. CASE WorkerApply
  <2>1. PICK v : touched' = touched \cup {v} /\ store' \in {store, [store EXCEPT ![v] = TRUE]}
    BY <1>15 DEF WorkerApply, SetOrFail
  <2>2. ASSUME NEW i \in Rows, Reads[i] \cap touched' = {}
        PROVE  i \in Own /\ \A r \in Reads[i] : store'[r] = store[r]
    BY <2>1, <2>2 DEF TypeOK
  <2>3. QED
    BY <1>15, <2>2, TruthKept DEF WorkerApply
<1>16. ASSUME NEW v \in Values, NEW on \in BOOLEAN, Elsewhere(v, on)
       PROVE  ProbeInv'
  <2>1. ASSUME NEW i \in Rows, Reads[i] \cap touched' = {}
        PROVE  i \in Own /\ \A r \in Reads[i] : store'[r] = store[r]
    BY <1>16, <2>1 DEF Elsewhere, TypeOK
  <2>2. QED
    BY <1>16, <2>1, TruthKept DEF Elsewhere
<1>17. CASE UNCHANGED vars
  BY <1>17 DEF vars
<1>18. QED
  BY <1>1, <1>2, <1>3, <1>4, <1>5, <1>6, <1>7, <1>8, <1>9, <1>10, <1>11, <1>12,
     <1>13, <1>14, <1>15, <1>16, <1>17 DEF Next, ProbeThread, Draw

\* A resting page shows the truth: the states of a probe that ran into a click
\* are overwritten by the probe the click has made due (TweakPage.cpp,
\* StartProbe and DrawTweakPage).
THEOREM RestingPageIsTrue == Spec => []RestingShowsTruth
<1>1. Init => ProbeInv
  BY DEF Init, ProbeInv, Calm
<1>2. ProbeInv => RestingShowsTruth
  BY DEF ProbeInv, Calm, Own, RestingShowsTruth, Running
<1>3. QED
  BY <1>1, <1>2, ProbeStep, TypeCorrect, PTL DEF Spec

-----------------------------------------------------------------------------
(* The process page *)

\* What is assumed of the machine, the user and the times.
LEMMA PageConstants ==
    /\ Refresh \in Nat \ {0} /\ Wrap \in Nat \ {0} /\ Pids \subseteq Nat \ {0}
    /\ Inside \in [Executables -> SUBSET Executables]
    /\ \A n \in Executables : n \in Inside[n]
    /\ \A x \in Looks :
         /\ P!Cardinality(x.first) \in Nat /\ P!Distinct(x.first)
         /\ x.first \subseteq [pid: Pids, name: Executables, serial: 1..P!Cardinality(x.first)]
         /\ x.pauses \subseteq 0..(Wrap - Refresh)
         /\ x.tabs \subseteq P!Tabs /\ x.filters \subseteq P!Filters
BY ProcessPageAssumption DEF P!ConstAssumption

\* A clock that goes round once.
LEMMA Round ==
    ASSUME NEW w \in Nat \ {0}, NEW n \in 0..(w + w - 1)
    PROVE  n % w = IF n < w THEN n ELSE n - w
<1>1. n % w \in 0..(w - 1) /\ n = w * (n \div w) + (n % w)
  OBVIOUS
<1>2. CASE n < w
  OBVIOUS
<1>3. CASE n >= w
  OBVIOUS
<1> QED BY <1>2, <1>3

\* The time since an automatic refresh, and after the next frame.
LEMMA SinceIs ==
    ASSUME NEW n \in 0..(Wrap - 1), lastAuto \in 0..(Wrap - 1)
    PROVE  /\ P!Since(n) = IF n < lastAuto THEN n + Wrap - lastAuto ELSE n - lastAuto
           /\ P!Since(n) \in Nat
<1>1. Wrap \in Nat \ {0} /\ n + Wrap - lastAuto \in 0..(Wrap + Wrap - 1)
  BY PageConstants
<1>2. (n + Wrap - lastAuto) % Wrap =
        IF n + Wrap - lastAuto < Wrap THEN n + Wrap - lastAuto ELSE n + Wrap - lastAuto - Wrap
  <2>1. PICK m \in 0..(Wrap + Wrap - 1) : m = n + Wrap - lastAuto
    BY <1>1
  <2>2. m % Wrap = IF m < Wrap THEN m ELSE m - Wrap
    BY <1>1, Round
  <2> QED BY <1>1, <2>1, <2>2
<1> QED BY <1>1, <1>2 DEF P!Since

LEMMA SinceLater ==
    ASSUME NEW n \in 0..(Wrap - 1), lastAuto \in 0..(Wrap - 1), NEW d \in 0..(Wrap - 1),
           P!Since(n) + d < Wrap
    PROVE  P!Since((n + d) % Wrap) = P!Since(n) + d
<1>1. Wrap \in Nat \ {0} /\ n + d \in 0..(Wrap + Wrap - 1)
  BY PageConstants
<1>2. (n + d) % Wrap = IF n + d < Wrap THEN n + d ELSE n + d - Wrap
  <2>1. PICK m \in 0..(Wrap + Wrap - 1) : m = n + d
    BY <1>1
  <2>2. m % Wrap = IF m < Wrap THEN m ELSE m - Wrap
    BY <1>1, Round
  <2> QED BY <1>1, <2>1, <2>2
<1>3. (n + d) % Wrap \in 0..(Wrap - 1)
  BY <1>1, <1>2
<1>4. P!Since(n) = IF n < lastAuto THEN n + Wrap - lastAuto ELSE n - lastAuto
  BY SinceIs
<1>5. P!Since((n + d) % Wrap) =
        IF (n + d) % Wrap < lastAuto THEN ((n + d) % Wrap) + Wrap - lastAuto
        ELSE ((n + d) % Wrap) - lastAuto
  BY <1>3, SinceIs
<1> HIDE DEF P!Since
<1>6. CASE n + d < Wrap
  BY <1>1, <1>2, <1>4, <1>5, <1>6
<1>7. CASE n + d >= Wrap
  BY <1>1, <1>2, <1>4, <1>5, <1>7
<1> QED BY <1>1, <1>6, <1>7

\* The pause before a frame is shorter than the tick count's round.
LEMMA Pauses ==
    ASSUME P!TypeOK, NEW d \in looked.pauses
    PROVE  d \in 0..(Wrap - 1)
<1>1. looked \in Looks
  BY DEF P!TypeOK
<1>2. d \in 0..(Wrap - Refresh)
  BY <1>1, PageConstants
<1> QED BY <1>2, PageConstants

\* What the reading of a frame leaves.
LEMMA FrameType ==
    ASSUME P!TypeOK, NEW d \in looked.pauses, P!Begin(d), NEW b \in P!Tabs,
           NEW asked, NEW left, P!Read(tick', b, asked, left, d)
    PROVE  /\ tick' \in 0..(Wrap - 1) /\ lastAuto' \in 0..(Wrap - 1)
           /\ lastTab' \in P!Tabs /\ services' \in BOOLEAN
           /\ age' \in [P!Tabs -> 0..(Refresh + 1)]
           /\ procs' = procs \/ procs' = left
<1>1. tick' \in 0..(Wrap - 1)
  <2>1. tick \in Nat /\ d \in Nat /\ tick' = (tick + d) % Wrap /\ Wrap \in Nat \ {0}
    BY Pauses, PageConstants DEF P!TypeOK, P!Begin
  <2> QED BY <2>1
<1>2. lastAuto' \in 0..(Wrap - 1)
  BY <1>1 DEF P!Read, P!TypeOK
<1>3. lastTab' \in P!Tabs
  BY DEF P!Begin, P!TypeOK
<1>4. services' \in BOOLEAN /\ (procs' = procs \/ procs' = left)
  BY DEF P!Read, P!TypeOK
<1>5. age' \in [P!Tabs -> 0..(Refresh + 1)]
  <2>1. ASSUME NEW x \in P!Tabs PROVE P!Older(x, d) \in 0..(Refresh + 1)
    <3>1. age[x] \in Nat /\ d \in Nat /\ Refresh \in Nat
      BY Pauses, PageConstants DEF P!TypeOK
    <3> QED BY <3>1 DEF P!Older
  <2>2. 0 \in 0..(Refresh + 1)
    BY PageConstants
  <2>3. \E r : age' = [x \in P!Tabs |-> IF r /\ x = b THEN 0 ELSE P!Older(x, d)]
    BY DEF P!Read
  <2> QED BY <2>1, <2>2, <2>3
<1> QED BY <1>1, <1>2, <1>3, <1>4, <1>5

\* A frame that stays on its tab shows rows that are fresh.
LEMMA FrameFresh ==
    ASSUME P!TypeOK, P!AgeIsKnown, NEW d \in looked.pauses, P!Begin(d), NEW b \in P!Tabs,
           NEW asked, NEW left, P!Read(tick', b, asked, left, d),
           tab' = b, P!Asked /\ b = tab => asked
    PROVE  P!AgeIsKnown' /\ P!ShownIsFresh'
<1> SUFFICES ASSUME b = tab
             PROVE  (lastAuto' # 0 => age'[b] <= P!Since(tick)') /\ age'[b] < Refresh
  BY DEF P!AgeIsKnown, P!ShownIsFresh, P!Begin
<1> DEFINE empty == IF b = "processes" THEN procs = {} ELSE ~services
           read == asked \/ empty \/ lastAuto = 0 \/ P!Since(tick') >= Refresh
<1>0. Refresh \in Nat \ {0} /\ Wrap \in Nat \ {0} /\ d \in 0..(Wrap - 1)
  BY Pauses, PageConstants
<1>1. /\ age' = [x \in P!Tabs |-> IF read /\ x = b THEN 0 ELSE P!Older(x, d)]
      /\ lastAuto' = IF read /\ ~asked THEN tick' ELSE lastAuto
  BY DEF P!Read
<1> HIDE DEF empty
<1>2. tick' \in 0..(Wrap - 1) /\ lastAuto' \in 0..(Wrap - 1)
  BY FrameType
<1>3. P!Since(tick)' \in Nat
  <2>1. P!Since(tick)' = (tick' + Wrap - lastAuto') % Wrap
    BY DEF P!Since
  <2>2. \A t, l \in 0..(Wrap - 1) : t + Wrap - l \in Nat
    BY <1>0
  <2>3. PICK m \in Nat : m = tick' + Wrap - lastAuto'
    BY <1>2, <2>2
  <2> QED BY <1>0, <2>1, <2>3
<1>4. CASE read
  BY <1>0, <1>1, <1>3, <1>4
<1>5. CASE ~read
  <2>0. ~asked /\ lastAuto # 0 /\ ~(P!Since(tick') >= Refresh)
    BY <1>5
  <2> HIDE DEF read
  <2>1. /\ ~P!Asked /\ lastAuto # 0 /\ lastAuto' = lastAuto /\ ~(P!Since(tick') >= Refresh)
        /\ age'[b] = P!Older(b, d)
    BY <1>1, <1>5, <2>0
  <2>2. age[b] <= P!Since(tick) /\ age[b] \in Nat
    BY <2>1 DEF P!AgeIsKnown, P!Asked, P!TypeOK
  <2>3. tick \in 0..(Wrap - 1) /\ lastAuto \in 0..(Wrap - 1)
    BY DEF P!TypeOK
  <2>4. P!Since(tick) + d < Wrap /\ tick' = (tick + d) % Wrap
    BY <2>1 DEF P!Begin
  <2>5. P!Since(tick') = P!Since(tick) + d /\ P!Since(tick) \in Nat
    BY <1>0, <2>3, <2>4, SinceIs, SinceLater
  <2>6. P!Since(tick)' = P!Since(tick')
    BY <2>1 DEF P!Since
  <2>7. age[b] + d <= P!Since(tick') /\ age[b] + d < Refresh
    <3>1. P!Since(tick') < Refresh
      BY <1>0, <2>1, <2>5
    <3> QED BY <1>0, <2>2, <2>5, <3>1
  <2>8. age'[b] = age[b] + d
    BY <1>0, <2>1, <2>2, <2>7 DEF P!Older
  <2> QED BY <2>6, <2>7, <2>8
<1> QED BY <1>4, <1>5

-----------------------------------------------------------------------------
\* A list of names without one of them is one.
LEMMA Removed ==
    ASSUME NEW S, NEW s \in Seq(S), NEW i \in DOMAIN s
    PROVE  P!RemoveAt(s, i) \in Seq(S)
<1>1. SubSeq(s, 1, i - 1) \in Seq(S)
  <2>1. CASE i = 1
    BY <2>1, SubSeqEmpty, EmptySeq
  <2>2. CASE i # 1
    <3>1. i - 1 \in 1..Len(s) /\ 1 \in 1..Len(s)
      BY <2>2
    <3> QED BY <3>1, SubSeqProperties
  <2> QED BY <2>1, <2>2
<1>2. SubSeq(s, i + 1, Len(s)) \in Seq(S)
  <2>1. CASE i = Len(s)
    BY <2>1, SubSeqEmpty, EmptySeq
  <2>2. CASE i # Len(s)
    <3>1. i + 1 \in 1..Len(s) /\ Len(s) \in 1..Len(s)
      BY <2>2
    <3> QED BY <3>1, SubSeqProperties
  <2> QED BY <2>1, <2>2
<1> QED BY <1>1, <1>2 DEF P!RemoveAt

\* The parts of the invariant hold when the page is first drawn.
LEMMA PageInit == P!Init => P!PageInv
<1> SUFFICES ASSUME P!Init PROVE P!PageInv
  OBVIOUS
<1>1. /\ looked \in Looks /\ running = looked.first /\ started = P!Cardinality(looked.first)
      /\ started \in Nat /\ running \subseteq P!Process /\ P!Distinct(running)
  BY PageConstants DEF P!Init, P!Process
<1>2. P!TypeOK
  <2>1. tick \in 0..(Wrap - 1) /\ lastAuto \in 0..(Wrap - 1)
    BY PageConstants DEF P!Init
  <2>2. age \in [P!Tabs -> 0..(Refresh + 1)]
    BY PageConstants DEF P!Init
  <2>3. exclusions \in Seq(Executables) /\ buffer \in Seq(Executables)
    BY EmptySeq DEF P!Init
  <2>4. /\ procs \subseteq P!Process /\ picked \in [selected: SUBSET P!Process, menu: SUBSET P!Process]
        /\ ended = {} /\ hidden = {} /\ menu = {} /\ filters = {} /\ selectedPid = 0
    BY DEF P!Init
  <2>5. /\ services \in BOOLEAN /\ needRefresh \in BOOLEAN /\ dialog \in BOOLEAN
        /\ tab \in P!Tabs /\ lastTab = "none"
    BY DEF P!Init, P!Tabs
  <2> QED BY <1>1, <2>1, <2>2, <2>3, <2>4, <2>5 DEF P!TypeOK
<1>3. P!SeenFirst /\ P!Chosen /\ P!EndsWhatWasChosen /\ P!ExcludedIsHidden
  BY DEF P!Init, P!SeenFirst, P!Seen, P!Chosen, P!EndsWhatWasChosen, P!ExcludedIsHidden
<1>4. P!AgeIsKnown /\ P!ShownIsFresh
  BY DEF P!Init, P!AgeIsKnown, P!ShownIsFresh
<1> QED BY <1>1, <1>2, <1>3, <1>4 DEF P!PageInv

\* The types after a frame.
LEMMA FrameTypeOK ==
    ASSUME P!TypeOK, NEW d \in looked.pauses, P!Begin(d), NEW b \in P!Tabs, tab' = b,
           NEW asked, NEW left \in SUBSET P!Process, P!Read(tick', b, asked, left, d),
           looked' = looked, started' = started, running' \subseteq P!Process,
           needRefresh' \in BOOLEAN, dialog' \in BOOLEAN,
           selectedPid' \in Pids \cup {0}, menu' \subseteq Pids \X Executables,
           filters' \subseteq P!Filters,
           exclusions' \in Seq(Executables), buffer' \in Seq(Executables),
           hidden' \subseteq Executables,
           picked' \in [selected: SUBSET P!Process, menu: SUBSET P!Process],
           ended' \subseteq [by: {"button", "menu"}, chosen: P!Process, gone: P!Process]
    PROVE  P!TypeOK'
<1>1. P!Process' = P!Process
  BY DEF P!Process
<1>2. /\ tick' \in 0..(Wrap - 1) /\ lastAuto' \in 0..(Wrap - 1)
      /\ lastTab' \in P!Tabs /\ services' \in BOOLEAN
      /\ age' \in [P!Tabs -> 0..(Refresh + 1)]
      /\ procs' = procs \/ procs' = left
  BY FrameType
<1>3. procs' \subseteq P!Process
  BY <1>2 DEF P!TypeOK
<1>4. /\ running' \subseteq P!Process' /\ procs' \subseteq P!Process'
      /\ picked' \in [selected: SUBSET P!Process', menu: SUBSET P!Process']
      /\ ended' \subseteq [by: {"button", "menu"}, chosen: P!Process', gone: P!Process']
  BY <1>1, <1>3
<1> HIDE DEF P!Process
<1> QED BY <1>2, <1>4 DEF P!TypeOK

\* Every step keeps the types.
LEMMA PageTypeStep == P!TypeOK /\ [P!Next]_P!vars => P!TypeOK'
<1> SUFFICES ASSUME P!TypeOK, [P!Next]_P!vars PROVE P!TypeOK'
  OBVIOUS
<1>0. /\ looked.tabs \subseteq P!Tabs /\ looked.filters \subseteq P!Filters
      /\ tab \in P!Tabs /\ running \in SUBSET P!Process /\ menu \subseteq Pids \X Executables
      /\ needRefresh \in BOOLEAN /\ dialog \in BOOLEAN /\ selectedPid \in Pids \cup {0}
      /\ filters \subseteq P!Filters /\ exclusions \in Seq(Executables)
      /\ buffer \in Seq(Executables) /\ hidden \subseteq Executables
      /\ picked \in [selected: SUBSET P!Process, menu: SUBSET P!Process]
      /\ ended \subseteq [by: {"button", "menu"}, chosen: P!Process, gone: P!Process]
      /\ procs \subseteq P!Process
  BY PageConstants DEF P!TypeOK
<1>p. \A x \in P!Process : x.pid \in Pids /\ x.name \in Executables
  BY DEF P!Process
<1>1. CASE P!Start
  <2>1. PICK pid \in Pids, n \in Executables :
          running' = running \cup {[pid |-> pid, name |-> n, serial |-> started + 1]}
    BY <1>1 DEF P!Start
  <2>2. started \in Nat /\ started' = started + 1
    BY <1>1 DEF P!Start, P!TypeOK
  <2>3. P!Process \subseteq P!Process'
    BY <2>2 DEF P!Process
  <2>4. [pid |-> pid, name |-> n, serial |-> started + 1] \in P!Process'
    BY <2>2 DEF P!Process
  <2>5. /\ running' \subseteq P!Process' /\ procs \subseteq P!Process'
        /\ picked \in [selected: SUBSET P!Process', menu: SUBSET P!Process']
        /\ ended \subseteq [by: {"button", "menu"}, chosen: P!Process', gone: P!Process']
    BY <1>0, <2>1, <2>3, <2>4
  <2> HIDE DEF P!Process
  <2> QED BY <1>1, <2>2, <2>5 DEF P!Start, P!TypeOK, P!page, P!excluding, P!history
<1>2. CASE P!Stop
  BY <1>2 DEF P!Stop, P!TypeOK, P!Process, P!page, P!excluding, P!history
<1>3. ASSUME NEW d \in looked.pauses, P!Look(d) PROVE P!TypeOK'
  <2>1. /\ P!Begin(d) /\ tab' = tab /\ P!Read(tick', tab, P!Asked, running, d)
        /\ UNCHANGED <<looked, running, started, selectedPid, filters, exclusions, buffer, dialog,
                       hidden, picked, ended>>
        /\ needRefresh' = FALSE /\ menu' \subseteq menu
    BY <1>3 DEF P!Look, P!Frame, P!Menu, P!excluding
  <2> QED BY <1>0, <2>1, FrameTypeOK
<1>4. ASSUME NEW d \in looked.pauses, P!ClickTab(d) PROVE P!TypeOK'
  <2>1. PICK b \in looked.tabs : tab' = b /\ P!Read(tick', b, P!Asked, running, d)
    BY <1>4 DEF P!ClickTab
  <2>2. /\ P!Begin(d)
        /\ UNCHANGED <<looked, running, started, selectedPid, filters, exclusions, buffer, dialog,
                       hidden, picked, ended>>
        /\ needRefresh' = FALSE /\ menu' = {} /\ b \in P!Tabs
    BY <1>0, <1>4 DEF P!ClickTab, P!excluding
  <2> QED BY <1>0, <2>1, <2>2, FrameTypeOK
<1>5. ASSUME NEW d \in looked.pauses, P!ClickRefresh(d) PROVE P!TypeOK'
  <2>1. /\ P!Begin(d) /\ tab' = tab /\ P!Read(tick', tab, TRUE, running, d)
        /\ UNCHANGED <<looked, running, started, selectedPid, filters, exclusions, buffer, dialog,
                       hidden, picked, ended>>
        /\ needRefresh' = FALSE /\ menu' = {}
    BY <1>5 DEF P!ClickRefresh, P!excluding
  <2> QED BY <1>0, <2>1, FrameTypeOK
<1>6. ASSUME NEW d \in looked.pauses, P!ClickEnd(d) PROVE P!TypeOK'
  <2>1. PICK p \in running :
          /\ running' = running \ {p}
          /\ ended' = [by: {"button"}, chosen: picked.selected, gone: {p}]
    BY <1>6 DEF P!ClickEnd
  <2>2. /\ P!Begin(d) /\ tab' = tab /\ P!Read(tick', tab, TRUE, running', d)
        /\ UNCHANGED <<looked, started, filters, exclusions, buffer, dialog, hidden>>
        /\ needRefresh' = FALSE /\ menu' = {} /\ selectedPid' = 0
        /\ picked' = [picked EXCEPT !.selected = {}]
    BY <1>6 DEF P!ClickEnd, P!excluding
  <2>3. /\ running' \in SUBSET P!Process
        /\ picked' \in [selected: SUBSET P!Process, menu: SUBSET P!Process]
        /\ ended' \subseteq [by: {"button", "menu"}, chosen: P!Process, gone: P!Process]
    BY <1>0, <2>1, <2>2
  <2> QED BY <1>0, <2>2, <2>3, FrameTypeOK
<1>7. ASSUME NEW d \in looked.pauses, P!ChangeFilter(d) PROVE P!TypeOK'
  <2>1. /\ P!Begin(d) /\ tab' = tab /\ P!Read(tick', tab, P!Asked, running, d)
        /\ UNCHANGED <<looked, running, started, selectedPid, exclusions, buffer, dialog,
                       hidden, picked, ended>>
        /\ needRefresh' = FALSE /\ menu' = {} /\ filters' \subseteq P!Filters
    BY <1>0, <1>7 DEF P!ChangeFilter, P!excluding
  <2> QED BY <1>0, <2>1, FrameTypeOK
<1>8. ASSUME NEW d \in looked.pauses, P!ClickRow(d) PROVE P!TypeOK'
  <2>1. PICK p \in procs' : selectedPid' = p.pid /\ picked' = [picked EXCEPT !.selected = {p}]
    BY <1>8 DEF P!ClickRow
  <2>2. /\ P!Begin(d) /\ tab' = tab /\ P!Read(tick', tab, P!Asked, running, d)
        /\ UNCHANGED <<looked, running, started, filters, exclusions, buffer, dialog, hidden, ended>>
        /\ needRefresh' = FALSE /\ menu' = {}
    BY <1>8 DEF P!ClickRow, P!Frame, P!excluding
  <2>3. p \in P!Process
    BY <1>0, <2>2, FrameType
  <2>4. /\ selectedPid' \in Pids
        /\ picked' \in [selected: SUBSET P!Process, menu: SUBSET P!Process]
    BY <1>0, <1>p, <2>1, <2>3
  <2> QED BY <1>0, <2>2, <2>4, FrameTypeOK
<1>9. ASSUME NEW d \in looked.pauses, P!OpenMenu(d) PROVE P!TypeOK'
  <2>1. PICK p \in procs' : menu' = {<<p.pid, p.name>>} /\ picked' = [picked EXCEPT !.menu = {p}]
    BY <1>9 DEF P!OpenMenu
  <2>2. /\ P!Begin(d) /\ tab' = tab /\ P!Read(tick', tab, P!Asked, running, d)
        /\ UNCHANGED <<looked, running, started, selectedPid, filters, exclusions, buffer, dialog,
                       hidden, ended>>
        /\ needRefresh' = FALSE
    BY <1>9 DEF P!OpenMenu, P!Frame, P!excluding
  <2>3. p \in P!Process
    BY <1>0, <2>2, FrameType
  <2>4. /\ menu' \subseteq Pids \X Executables
        /\ picked' \in [selected: SUBSET P!Process, menu: SUBSET P!Process]
    BY <1>0, <1>p, <2>1, <2>3
  <2> QED BY <1>0, <2>2, <2>4, FrameTypeOK
<1>10. ASSUME NEW d \in looked.pauses, P!MenuEnd(d) PROVE P!TypeOK'
  <2>0. PICK p \in procs' : \E gone \in SUBSET P!ToEnd(p) :
          /\ running' = running \ gone
          /\ ended' = [by: {"menu"}, chosen: picked.menu, gone: gone]
    BY <1>10 DEF P!MenuEnd
  <2>1. PICK gone \in SUBSET P!ToEnd(p) :
          /\ running' = running \ gone
          /\ ended' = [by: {"menu"}, chosen: picked.menu, gone: gone]
    BY <2>0
  <2>2. /\ P!Begin(d) /\ tab' = tab /\ P!Read(tick', tab, P!Asked, running, d)
        /\ UNCHANGED <<looked, started, selectedPid, filters, exclusions, buffer, dialog,
                       hidden, picked>>
        /\ needRefresh' = TRUE /\ menu' = {}
    BY <1>10 DEF P!MenuEnd, P!excluding
  <2>3. gone \subseteq running
    BY DEF P!ToEnd
  <2>4. /\ running' \subseteq P!Process
        /\ ended' \subseteq [by: {"button", "menu"}, chosen: P!Process, gone: P!Process]
    BY <1>0, <2>1, <2>3
  <2> QED BY <1>0, <2>2, <2>4, FrameTypeOK
<1>11. ASSUME NEW d \in looked.pauses, P!MenuExclude(d) PROVE P!TypeOK'
  <2>1. PICK p \in procs' :
          /\ exclusions' = exclusions \/ exclusions' = Append(exclusions, p.name)
          /\ hidden' = hidden \cup {p.name}
    BY <1>11 DEF P!MenuExclude
  <2>2. /\ P!Begin(d) /\ tab' = tab /\ P!Read(tick', tab, P!Asked, running, d)
        /\ UNCHANGED <<looked, running, started, selectedPid, filters, buffer, dialog, picked, ended>>
        /\ needRefresh' = FALSE /\ menu' = {}
    BY <1>11 DEF P!MenuExclude, P!Frame
  <2>3. p \in P!Process
    BY <1>0, <2>2, FrameType
  <2>4. exclusions' \in Seq(Executables) /\ hidden' \subseteq Executables
    BY <1>0, <1>p, <2>1, <2>3
  <2> QED BY <1>0, <2>2, <2>4, FrameTypeOK
<1>12. CASE P!OpenExclusions
  <2>1. buffer' \in Seq(Executables)
    BY <1>0, <1>12 DEF P!OpenExclusions, P!Filled
  <2> QED BY <1>12, <2>1 DEF P!OpenExclusions, P!TypeOK, P!Process, P!history
<1>13. CASE P!EditExclusions
  <2>1. buffer' \in Seq(Executables)
    BY <1>0, <1>13, Removed DEF P!EditExclusions
  <2> QED BY <1>13, <2>1 DEF P!EditExclusions, P!TypeOK, P!Process, P!page, P!history
<1>14. CASE P!SaveExclusions
  BY <1>14 DEF P!SaveExclusions, P!TypeOK, P!Process, P!page
<1>15. CASE P!CancelExclusions
  BY <1>15 DEF P!CancelExclusions, P!TypeOK, P!Process, P!page, P!history
<1>16. CASE UNCHANGED P!vars
  BY <1>16 DEF P!vars, P!TypeOK, P!Process, P!page, P!excluding, P!history
<1> QED BY <1>1, <1>2, <1>3, <1>4, <1>5, <1>6, <1>7, <1>8, <1>9, <1>10, <1>11, <1>12, <1>13,
           <1>14, <1>15, <1>16 DEF P!Next

-----------------------------------------------------------------------------
\* Processes may end, and what is seen may be running.
LEMMA SeenStill ==
    ASSUME P!Distinct(running), P!SeenFirst, running' \subseteq running,
           P!Seen' \subseteq P!Seen \cup running
    PROVE  P!Distinct(running)' /\ P!SeenFirst'
BY DEF P!Distinct, P!SeenFirst

\* The rows after a frame are those before it, or the running processes.
LEMMA FrameSees ==
    ASSUME P!TypeOK, P!Distinct(running), P!SeenFirst, NEW d, NEW b, NEW asked, NEW left,
           P!Read(tick', b, asked, left, d), left \subseteq running, running' \subseteq running,
           picked'.selected \subseteq P!Seen \cup running,
           picked'.menu \subseteq P!Seen \cup running
    PROVE  P!Distinct(running)' /\ P!SeenFirst'
<1>1. procs' = procs \/ procs' = left
  BY DEF P!Read
<1>2. P!Seen' = procs' \cup picked'.selected \cup picked'.menu
  BY DEF P!Seen
<1>3. procs \subseteq P!Seen
  BY DEF P!Seen
<1> HIDE DEF P!Seen
<1> QED BY <1>1, <1>2, <1>3, SeenStill

\* A number is given again only to a process that has started since.
LEMMA SeenStep ==
    ASSUME P!TypeOK, P!Distinct(running), P!SeenFirst, [P!Next]_P!vars
    PROVE  P!Distinct(running)' /\ P!SeenFirst'
<1>0. picked.selected \subseteq P!Seen /\ picked.menu \subseteq P!Seen /\ procs \subseteq P!Seen
  BY DEF P!Seen
<1>p. picked = [selected |-> picked.selected, menu |-> picked.menu]
  BY DEF P!TypeOK
<1>1. CASE P!Start
  <2>1. PICK pid \in Pids \ {p.pid : p \in running}, n \in Executables :
          running' = running \cup {[pid |-> pid, name |-> n, serial |-> started + 1]}
    BY <1>1 DEF P!Start
  <2>2. P!Seen' = P!Seen
    BY <1>1 DEF P!Start, P!Seen, P!page, P!history
  <2>3. P!Distinct(running)'
    BY <2>1 DEF P!Distinct
  <2>4. \A c \in P!Seen : c.serial \in 1..started
    BY <1>p DEF P!Seen, P!TypeOK, P!Process
  <2>5. started \in Nat
    BY DEF P!TypeOK
  <2>6. \A c \in P!Seen : started + 1 > c.serial
    BY <2>4, <2>5
  <2>7. ASSUME NEW c \in P!Seen, NEW r \in running', r.pid = c.pid
        PROVE  r = c \/ r.serial > c.serial
    BY <2>1, <2>6, <2>7 DEF P!SeenFirst
  <2> QED BY <2>2, <2>3, <2>7 DEF P!SeenFirst
<1>2. CASE P!Stop
  BY <1>2, SeenStill DEF P!Stop, P!Seen, P!page, P!history
<1>3. ASSUME NEW d \in looked.pauses, P!Look(d) \/ P!MenuExclude(d)
      PROVE  P!Distinct(running)' /\ P!SeenFirst'
  <2>1. P!Read(tick', tab, P!Asked, running, d) /\ running' = running /\ picked' = picked
    BY <1>3 DEF P!Look, P!MenuExclude, P!Frame
  <2> QED BY <1>0, <2>1, FrameSees
<1>4. ASSUME NEW d \in looked.pauses, P!ClickTab(d)
      PROVE  P!Distinct(running)' /\ P!SeenFirst'
  <2>1. PICK b \in looked.tabs : P!Read(tick', b, P!Asked, running, d)
    BY <1>4 DEF P!ClickTab
  <2>2. running' = running /\ picked' = picked
    BY <1>4 DEF P!ClickTab
  <2> QED BY <1>0, <2>1, <2>2, FrameSees
<1>5. ASSUME NEW d \in looked.pauses, P!ClickRefresh(d)
      PROVE  P!Distinct(running)' /\ P!SeenFirst'
  <2>1. P!Read(tick', tab, TRUE, running, d) /\ running' = running /\ picked' = picked
    BY <1>5 DEF P!ClickRefresh
  <2> QED BY <1>0, <2>1, FrameSees
<1>6. ASSUME NEW d \in looked.pauses, P!ClickEnd(d)
      PROVE  P!Distinct(running)' /\ P!SeenFirst'
  <2>1. /\ P!Read(tick', tab, TRUE, running', d) /\ running' \subseteq running
        /\ picked' = [picked EXCEPT !.selected = {}]
    BY <1>6 DEF P!ClickEnd
  <2>2. picked'.selected = {} /\ picked'.menu = picked.menu
    BY <1>p, <2>1
  <2>3. PICK left : left = running'
    OBVIOUS
  <2> QED BY <1>0, <2>1, <2>2, <2>3, FrameSees
<1>7. ASSUME NEW d \in looked.pauses, P!ChangeFilter(d)
      PROVE  P!Distinct(running)' /\ P!SeenFirst'
  <2>1. P!Read(tick', tab, P!Asked, running, d) /\ running' = running /\ picked' = picked
    BY <1>7 DEF P!ChangeFilter
  <2> QED BY <1>0, <2>1, FrameSees
<1>8. ASSUME NEW d \in looked.pauses, P!ClickRow(d) \/ P!OpenMenu(d)
      PROVE  P!Distinct(running)' /\ P!SeenFirst'
  <2>1. PICK p \in procs' : \/ picked' = [picked EXCEPT !.selected = {p}]
                           \/ picked' = [picked EXCEPT !.menu = {p}]
    BY <1>8 DEF P!ClickRow, P!OpenMenu
  <2>2. P!Read(tick', tab, P!Asked, running, d) /\ running' = running
    BY <1>8 DEF P!ClickRow, P!OpenMenu, P!Frame
  <2>3. p \in P!Seen \cup running
    BY <1>0, <2>2 DEF P!Read
  <2>4. /\ picked'.selected \subseteq P!Seen \cup running
        /\ picked'.menu \subseteq P!Seen \cup running
    BY <1>0, <1>p, <2>1, <2>3
  <2> QED BY <2>2, <2>4, FrameSees
<1>9. ASSUME NEW d \in looked.pauses, P!MenuEnd(d)
      PROVE  P!Distinct(running)' /\ P!SeenFirst'
  <2>1. P!Read(tick', tab, P!Asked, running, d) /\ running' \subseteq running /\ picked' = picked
    BY <1>9 DEF P!MenuEnd
  <2> QED BY <1>0, <2>1, FrameSees
<1>10. CASE \/ P!OpenExclusions \/ P!EditExclusions \/ P!SaveExclusions \/ P!CancelExclusions
            \/ UNCHANGED P!vars
  <2>1. running' = running /\ P!Seen' = P!Seen
    BY <1>10 DEF P!OpenExclusions, P!EditExclusions, P!SaveExclusions, P!CancelExclusions, P!vars,
       P!Seen, P!page, P!history
  <2> QED BY <2>1, SeenStill
<1> QED BY <1>1, <1>2, <1>3, <1>4, <1>5, <1>6, <1>7, <1>8, <1>9, <1>10 DEF P!Next

-----------------------------------------------------------------------------
\* What the page remembers of a click is what was clicked.
LEMMA ChosenStep ==
    ASSUME P!TypeOK, P!Chosen, [P!Next]_P!vars
    PROVE  P!Chosen'
<1>p. picked = [selected |-> picked.selected, menu |-> picked.menu]
  BY DEF P!TypeOK
<1>1. CASE \/ P!Start \/ P!Stop \/ P!OpenExclusions \/ P!EditExclusions \/ P!SaveExclusions
           \/ P!CancelExclusions \/ UNCHANGED P!vars
  <2>1. selectedPid' = selectedPid /\ picked' = picked /\ menu' \subseteq menu
    BY <1>1 DEF P!Start, P!Stop, P!OpenExclusions, P!EditExclusions, P!SaveExclusions,
       P!CancelExclusions, P!vars, P!page, P!history
  <2> QED BY <2>1 DEF P!Chosen
<1>2. ASSUME NEW d \in looked.pauses,
             \/ P!Look(d) \/ P!ClickTab(d) \/ P!ClickRefresh(d) \/ P!ChangeFilter(d)
             \/ P!MenuEnd(d) \/ P!MenuExclude(d)
      PROVE  P!Chosen'
  <2>1. selectedPid' = selectedPid /\ picked' = picked /\ menu' \subseteq menu
    BY <1>2 DEF P!Look, P!ClickTab, P!ClickRefresh, P!ChangeFilter, P!MenuEnd, P!MenuExclude,
       P!Frame, P!Menu
  <2> QED BY <2>1 DEF P!Chosen
<1>3. ASSUME NEW d \in looked.pauses, P!ClickEnd(d) PROVE P!Chosen'
  BY <1>3, <1>p DEF P!ClickEnd, P!Chosen
<1>4. ASSUME NEW d \in looked.pauses, P!ClickRow(d) PROVE P!Chosen'
  BY <1>4, <1>p DEF P!ClickRow, P!Chosen
<1>5. ASSUME NEW d \in looked.pauses, P!OpenMenu(d) PROVE P!Chosen'
  <2>1. PICK p \in procs' : menu' = {<<p.pid, p.name>>} /\ picked' = [picked EXCEPT !.menu = {p}]
    BY <1>5 DEF P!OpenMenu
  <2>2. /\ selectedPid' = selectedPid /\ picked'.selected = picked.selected
        /\ picked'.menu = {p}
    BY <1>5, <1>p, <2>1 DEF P!OpenMenu
  <2> QED BY <2>1, <2>2 DEF P!Chosen
<1> QED BY <1>1, <1>2, <1>3, <1>4, <1>5 DEF P!Next

\* So what ends is what was clicked.
LEMMA EndsStep ==
    ASSUME P!TypeOK, P!SeenFirst, P!Chosen, P!EndsWhatWasChosen, [P!Next]_P!vars
    PROVE  P!EndsWhatWasChosen'
<1>1. CASE \/ P!Start \/ P!Stop \/ P!OpenExclusions \/ P!EditExclusions \/ P!SaveExclusions
           \/ P!CancelExclusions \/ UNCHANGED P!vars
  <2>1. ended' = ended
    BY <1>1 DEF P!Start, P!Stop, P!OpenExclusions, P!EditExclusions, P!SaveExclusions,
       P!CancelExclusions, P!vars, P!history
  <2> QED BY <2>1 DEF P!EndsWhatWasChosen
<1>2. ASSUME NEW d \in looked.pauses,
             \/ P!Look(d) \/ P!ClickTab(d) \/ P!ClickRefresh(d) \/ P!ChangeFilter(d)
             \/ P!ClickRow(d) \/ P!OpenMenu(d) \/ P!MenuExclude(d)
      PROVE  P!EndsWhatWasChosen'
  <2>1. ended' = ended
    BY <1>2 DEF P!Look, P!ClickTab, P!ClickRefresh, P!ChangeFilter, P!ClickRow, P!OpenMenu,
       P!MenuExclude
  <2> QED BY <2>1 DEF P!EndsWhatWasChosen
<1>3. ASSUME NEW d \in looked.pauses, P!ClickEnd(d) PROVE P!EndsWhatWasChosen'
  <2>1. PICK p \in running :
          /\ p.pid = selectedPid
          /\ ended' = [by: {"button"}, chosen: picked.selected, gone: {p}]
    BY <1>3 DEF P!ClickEnd
  <2>2. SUFFICES ASSUME NEW e \in ended'
                 PROVE  /\ e.by # "menu"
                        /\ \/ e.gone = e.chosen
                           \/ e.gone.pid = e.chosen.pid /\ e.gone.serial > e.chosen.serial
    BY DEF P!EndsWhatWasChosen
  <2>3. e.by = "button" /\ e.chosen \in picked.selected /\ e.gone = p
    BY <2>1
  <2>4. e.chosen.pid = p.pid /\ e.chosen \in P!Seen
    BY <2>1, <2>3 DEF P!Chosen, P!Seen
  <2> QED BY <2>3, <2>4 DEF P!SeenFirst
<1>4. ASSUME NEW d \in looked.pauses, P!MenuEnd(d) PROVE P!EndsWhatWasChosen'
  <2>1. PICK p \in procs' :
          /\ <<p.pid, p.name>> \in menu
          /\ \E gone \in SUBSET P!ToEnd(p) :
               ended' = [by: {"menu"}, chosen: picked.menu, gone: gone]
    BY <1>4 DEF P!MenuEnd, P!InMenu
  <2>2. SUFFICES ASSUME NEW e \in ended'
                 PROVE  e.by = "menu" /\ e.gone.name = e.chosen.name
    BY DEF P!EndsWhatWasChosen
  <2>3. e.by = "menu" /\ e.chosen \in picked.menu /\ e.gone \in P!ToEnd(p)
    BY <2>1
  <2>4. e.gone.name = p.name
    BY <2>3 DEF P!ToEnd
  <2>5. e.chosen.name = p.name
    BY <2>1, <2>3 DEF P!Chosen
  <2> QED BY <2>3, <2>4, <2>5
<1> QED BY <1>1, <1>2, <1>3, <1>4 DEF P!Next

-----------------------------------------------------------------------------
\* Every frame that stays on its tab shows rows that are fresh.
LEMMA FreshStep ==
    ASSUME P!TypeOK, P!AgeIsKnown, P!ShownIsFresh, [P!Next]_P!vars
    PROVE  P!AgeIsKnown' /\ P!ShownIsFresh'
<1>0. tab \in P!Tabs /\ looked.tabs \subseteq P!Tabs
  BY PageConstants DEF P!TypeOK
<1>1. CASE \/ P!Start \/ P!Stop \/ P!OpenExclusions \/ P!EditExclusions \/ P!SaveExclusions
           \/ P!CancelExclusions \/ UNCHANGED P!vars
  <2>1. UNCHANGED <<age, lastAuto, tab, lastTab, tick>>
    BY <1>1 DEF P!Start, P!Stop, P!OpenExclusions, P!EditExclusions, P!SaveExclusions,
       P!CancelExclusions, P!vars, P!page, P!history
  <2> QED BY <2>1 DEF P!AgeIsKnown, P!ShownIsFresh, P!Since
<1>2. ASSUME NEW d \in looked.pauses,
             \/ P!Look(d) \/ P!ChangeFilter(d) \/ P!ClickRow(d) \/ P!OpenMenu(d) \/ P!MenuEnd(d)
             \/ P!MenuExclude(d)
      PROVE  P!AgeIsKnown' /\ P!ShownIsFresh'
  <2>1. P!Begin(d) /\ tab' = tab /\ P!Read(tick', tab, P!Asked, running, d)
    BY <1>2 DEF P!Look, P!ChangeFilter, P!ClickRow, P!OpenMenu, P!MenuEnd, P!MenuExclude, P!Frame
  <2> QED BY <1>0, <2>1, FrameFresh
<1>3. ASSUME NEW d \in looked.pauses, P!ClickTab(d)
      PROVE  P!AgeIsKnown' /\ P!ShownIsFresh'
  <2>1. PICK b \in looked.tabs \ {tab} : tab' = b
    BY <1>3 DEF P!ClickTab
  <2>2. tab' # lastTab'
    BY <1>3, <2>1 DEF P!ClickTab, P!Begin
  <2> QED BY <2>2 DEF P!AgeIsKnown, P!ShownIsFresh
<1>4. ASSUME NEW d \in looked.pauses, P!ClickRefresh(d) \/ P!ClickEnd(d)
      PROVE  P!AgeIsKnown' /\ P!ShownIsFresh'
  <2>1. PICK left : P!Read(tick', tab, TRUE, left, d)
    BY <1>4 DEF P!ClickRefresh, P!ClickEnd
  <2>2. P!Begin(d) /\ tab' = tab
    BY <1>4 DEF P!ClickRefresh, P!ClickEnd
  <2> QED BY <1>0, <2>1, <2>2, FrameFresh
<1> QED BY <1>1, <1>2, <1>3, <1>4 DEF P!Next

-----------------------------------------------------------------------------
\* Adding a name to the list hides it, and nothing less.
LEMMA Adding ==
    ASSUME NEW list \in Seq(Executables), NEW n \in Executables
    PROVE  /\ P!IsExcluded(n, Append(list, n))
           /\ \A m : P!IsExcluded(m, list) => P!IsExcluded(m, Append(list, n))
<1>1. Len(list) + 1 \in DOMAIN Append(list, n) /\ Append(list, n)[Len(list) + 1] = n
  OBVIOUS
<1>2. \A i \in DOMAIN list : i \in DOMAIN Append(list, n) /\ Append(list, n)[i] = list[i]
  OBVIOUS
<1> QED BY <1>1, <1>2 DEF P!IsExcluded

\* Every step keeps what the menu excluded in the list.
LEMMA HiddenStep ==
    ASSUME P!TypeOK, P!ExcludedIsHidden, [P!Next]_P!vars
    PROVE  P!ExcludedIsHidden'
<1>1. CASE \/ P!Start \/ P!Stop \/ P!OpenExclusions \/ P!EditExclusions
           \/ P!CancelExclusions \/ UNCHANGED P!vars
  <2>1. exclusions' = exclusions /\ hidden' = hidden
    BY <1>1 DEF P!Start, P!Stop, P!OpenExclusions, P!EditExclusions,
       P!CancelExclusions, P!vars, P!excluding, P!history
  <2> QED BY <2>1 DEF P!ExcludedIsHidden
<1>2. ASSUME NEW d \in looked.pauses,
             \/ P!Look(d) \/ P!ClickTab(d) \/ P!ClickRefresh(d) \/ P!ClickEnd(d)
             \/ P!ChangeFilter(d) \/ P!ClickRow(d) \/ P!OpenMenu(d) \/ P!MenuEnd(d)
      PROVE  P!ExcludedIsHidden'
  <2>1. exclusions' = exclusions /\ hidden' = hidden
    BY <1>2 DEF P!Look, P!ClickTab, P!ClickRefresh, P!ClickEnd, P!ChangeFilter, P!ClickRow,
       P!OpenMenu, P!MenuEnd, P!excluding
  <2> QED BY <2>1 DEF P!ExcludedIsHidden
<1>3. ASSUME NEW d \in looked.pauses, P!MenuExclude(d) PROVE P!ExcludedIsHidden'
  <2>1. PICK p \in procs' :
          /\ exclusions' = IF \E i \in DOMAIN exclusions : exclusions[i] \in Inside[p.name]
                           THEN exclusions ELSE Append(exclusions, p.name)
          /\ hidden' = hidden \cup {p.name}
    BY <1>3 DEF P!MenuExclude
  <2>2. exclusions \in Seq(Executables) /\ p.name \in Executables
    <3>1. procs' = procs \/ procs' = running
      BY <1>3 DEF P!MenuExclude, P!Frame, P!Read
    <3> QED BY <3>1 DEF P!TypeOK, P!Process
  <2>3. CASE \E i \in DOMAIN exclusions : exclusions[i] \in Inside[p.name]
    BY <2>1, <2>3 DEF P!ExcludedIsHidden, P!IsExcluded
  <2>4. CASE ~\E i \in DOMAIN exclusions : exclusions[i] \in Inside[p.name]
    <3>1. exclusions' = Append(exclusions, p.name)
      BY <2>1, <2>4
    <3>2. /\ P!IsExcluded(p.name, exclusions')
          /\ \A m : P!IsExcluded(m, exclusions) => P!IsExcluded(m, exclusions')
      BY <2>2, <3>1, Adding
    <3> HIDE DEF P!IsExcluded
    <3> QED BY <2>1, <3>2 DEF P!ExcludedIsHidden
  <2> QED BY <2>3, <2>4
<1>4. CASE P!SaveExclusions
  BY <1>4 DEF P!SaveExclusions, P!ExcludedIsHidden, P!IsExcluded, P!Range
<1> QED BY <1>1, <1>2, <1>3, <1>4 DEF P!Next

-----------------------------------------------------------------------------
LEMMA PageAlways == P!Spec => []P!PageInv
<1>1. P!PageInv /\ [P!Next]_P!vars => P!PageInv'
  BY PageTypeStep, SeenStep, ChosenStep, EndsStep, FreshStep, HiddenStep DEF P!PageInv
<1> QED BY <1>1, PageInit, PTL DEF P!Spec

\* The page's variables hold what the code can put there.
THEOREM ProcessTypeCorrect == P!Spec => []P!TypeOK
BY PageAlways, PTL DEF P!PageInv

\* Whatever starts and ends between a click and its use, however often numbers are given
\* again, and whatever is hidden meanwhile: the button ends the process of the row that was
\* clicked, or one that was given its number since, and the menu those of its name.
THEOREM ProcessEndsTheChosen == P!Spec => []EndsWhatWasChosen
BY PageAlways, PTL DEF P!PageInv, EndsWhatWasChosen

\* For every refresh time and length of the tick count: a page that stays open draws no row
\* that is as old as the refresh time, also when the tick count begins again.
THEOREM ProcessRowsAreFresh == P!Spec => []ShownIsFresh
BY PageAlways, PTL DEF P!PageInv, ShownIsFresh

\* Whatever names contain each other, a name excluded by the menu, or a longer one that has
\* it as a part, stays in the list until the dialog saves a text without it.
THEOREM ProcessStaysExcluded == P!Spec => []ExcludedIsHidden
BY PageAlways, PTL DEF P!PageInv, ExcludedIsHidden

-----------------------------------------------------------------------------
(* The shutdown timer *)

LEMMA TimerTypeStep == T!TypeOK /\ [T!Next]_(T!vars) => T!TypeOK'
<1> USE ShutdownTimerAssumption DEF T!ConstAssumption, T!TypeOK, T!JobStages, T!Abort, T!Arm
<1> SUFFICES ASSUME T!TypeOK, [T!Next]_(T!vars) PROVE T!TypeOK'
  OBVIOUS
<1>1. CASE T!DrawSat
  <2>1. active' \in BOOLEAN /\ verifying' \in BOOLEAN
    BY <1>1 DEF T!DrawSat
  <2>2. lastVerify' \in 0..VerifyEvery + 1 /\ snapshot' \in Nat
    BY <1>1 DEF T!DrawSat
  <2>3. job' \in T!JobStages
    BY <1>1 DEF T!DrawSat
  <2>4. QED
    BY <1>1, <2>1, <2>2, <2>3 DEF T!DrawSat
<1>2. CASE T!StartShutdown
  BY <1>2 DEF T!StartShutdown, T!StartCountdown
<1>3. CASE T!FindScheduled
  BY <1>3 DEF T!FindScheduled
<1>4. CASE T!ArmProbe
  BY <1>4 DEF T!ArmProbe
<1>5. CASE T!UndoProbe
  BY <1>5 DEF T!UndoProbe
<1>6. CASE T!ReportGone
  BY <1>6 DEF T!ReportGone
<1>7. CASE T!PressCancel
  BY <1>7 DEF T!PressCancel
<1>8. CASE T!Quit
  BY <1>8 DEF T!Quit
<1>9. ASSUME NEW d \in Delays, T!PressStart(d)
      PROVE  T!TypeOK'
  BY <1>9 DEF T!PressStart
<1>10. CASE T!Tick
  <2>1. os' \in Nat \cup {None}
    BY <1>10 DEF T!Tick, T!Nearer
  <2>2. ends' \in Nat
    BY <1>10 DEF T!Tick, T!Nearer
  <2>3. lastVerify' \in 0..VerifyEvery + 1
    BY <1>10 DEF T!Tick, T!Nearer
  <2>4. QED
    BY <1>10, <2>1, <2>2, <2>3 DEF T!Tick, T!Nearer
<1>11. CASE T!ShutDown
  BY <1>11 DEF T!ShutDown
<1>12. CASE T!AbortElsewhere
  BY <1>12 DEF T!AbortElsewhere
<1>13. CASE UNCHANGED T!vars
  BY <1>13 DEF T!vars
<1>14. QED
  BY <1>1, <1>2, <1>3, <1>4, <1>5, <1>6, <1>7, <1>8, <1>9, <1>10, <1>11, <1>12,
     <1>13 DEF T!Next, T!UiThread, T!Worker, T!User

\* The variables of every reachable state are well-formed.
THEOREM TimerTypeCorrect == T!Spec => []T!TypeOK
<1>1. T!Init => T!TypeOK
  <2> SUFFICES ASSUME T!Init PROVE T!TypeOK
    OBVIOUS
  <2>1. lastVerify \in 0..VerifyEvery + 1 /\ aborts \in 0..External
    BY ShutdownTimerAssumption DEF T!ConstAssumption, T!Init
  <2>2. QED
    BY <2>1 DEF T!Init, T!TypeOK, T!JobStages
<1>2. QED
  BY <1>1, TimerTypeStep, PTL DEF T!Spec

\* The countdown the user started shows the time of the shutdown that will
\* happen, whatever the probe, the user and other tools do meanwhile.
THEOREM TimerCountdownIsRight == T!Spec => []CountdownIsTheTimer
<1>1. T!Init => CountdownIsTheTimer
  BY DEF T!Init, CountdownIsTheTimer, T!CountdownIsTheTimer
<1>2. T!TypeOK /\ CountdownIsTheTimer /\ [T!Next]_(T!vars) => CountdownIsTheTimer'
  <2> USE ShutdownTimerAssumption DEF T!ConstAssumption, CountdownIsTheTimer, T!CountdownIsTheTimer
  <2> SUFFICES ASSUME T!TypeOK, CountdownIsTheTimer, [T!Next]_(T!vars)
               PROVE  CountdownIsTheTimer'
    OBVIOUS
  <2>1. CASE T!StartShutdown
    BY <2>1 DEF T!StartShutdown, T!StartCountdown, T!Arm
  <2>2. CASE T!ArmProbe
    BY <2>2 DEF T!ArmProbe, T!Arm
  <2>3. CASE T!Tick
    BY <2>3 DEF T!Tick, T!Nearer, T!TypeOK
  <2>4. CASE UNCHANGED <<os, armedBy, ends>>
    BY <2>4
  <2>5. CASE os' = None
    BY <2>5
  <2>6. QED
    BY <2>1, <2>2, <2>3, <2>4, <2>5
    DEF T!Next, T!UiThread, T!Worker, T!User, T!DrawSat, T!FindScheduled, T!UndoProbe,
        T!ReportGone, T!PressCancel, T!PressStart, T!Quit, T!ShutDown, T!AbortElsewhere,
        T!Abort, T!vars
<1>3. QED
  BY <1>1, <1>2, TimerTypeCorrect, PTL DEF T!Spec

\* As long as the program is not closed in the middle of a probe, no shutdown
\* stays scheduled that the user did not ask for.
THEOREM TimerNothingStray == T!Spec => []NoStrayShutdown
<1> DEFINE Inv == NoStrayShutdown /\ T!OneProbe
<1>1. T!Init => Inv
  BY DEF T!Init, NoStrayShutdown, T!NoStrayShutdown, T!OneProbe
<1>2. T!TypeOK /\ Inv /\ [T!Next]_(T!vars) => Inv'
  <2> USE ShutdownTimerAssumption DEF T!ConstAssumption, NoStrayShutdown, T!NoStrayShutdown, T!OneProbe, T!Alive
  <2> SUFFICES ASSUME T!TypeOK, Inv, [T!Next]_(T!vars) PROVE Inv'
    OBVIOUS
  <2>1. CASE T!DrawSat
    BY <2>1 DEF T!DrawSat
  <2>2. CASE T!StartShutdown
    BY <2>2 DEF T!StartShutdown, T!StartCountdown, T!Arm
  <2>3. CASE T!Worker
    BY <2>3 DEF T!Worker, T!FindScheduled, T!ArmProbe, T!UndoProbe, T!ReportGone, T!Arm, T!Abort
  <2>4. CASE T!User \/ T!AbortElsewhere
    BY <2>4 DEF T!User, T!PressCancel, T!Quit, T!PressStart, T!AbortElsewhere, T!Abort
  <2>5. CASE T!Tick \/ T!ShutDown
    BY <2>5 DEF T!Tick, T!Nearer, T!ShutDown, T!TypeOK
  <2>6. CASE UNCHANGED T!vars
    BY <2>6 DEF T!vars
  <2>7. QED
    BY <2>1, <2>2, <2>3, <2>4, <2>5, <2>6 DEF T!Next, T!UiThread
<1>3. QED
  BY <1>1, <1>2, TimerTypeCorrect, PTL DEF T!Spec
=============================================================================
