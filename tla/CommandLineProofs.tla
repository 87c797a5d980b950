-------------------------- MODULE CommandLineProofs --------------------------
(***************************************************************************)
(* The command line (CommandLine), of any lines, tweaks and machines and    *)
(* any number of commands: its types, that a flag may stand anywhere, and   *)
(* that the exit code tells what became of the machine.                     *)
(*                                                                         *)
(* What is picked out of a sequence (Picking) is a matter of the hosts file *)
(* as well, and its lemmas are in SharedFilesProofs.                        *)
(***************************************************************************)
EXTENDS SharedFilesProofs, LineScene

-----------------------------------------------------------------------------
(* The command line: where the flags may stand *)

LEMMA LineConstants ==
    /\ \A line \in Lines : line \in Seq(STRING) /\ line # <<>> /\ Len(line) \in Nat \ {0}
    /\ L!Switches \subseteq FlagWords
    /\ \A w \in FlagWords : w \notin DOMAIN Assigned
    /\ Table \subseteq [id : STRING, page : STRING, kind : {"toggle", "action"},
                        needsAdmin : BOOLEAN, available : BOOLEAN]
    /\ \A s, t \in Table : s.id = t.id => s = t
    /\ \A t \in Table : t.id \notin DOMAIN Pieces
    /\ Atoi \in [DOMAIN Atoi -> Int] /\ "cancel" \notin DOMAIN Atoi
    /\ L!AreSettings(Installed) /\ \A m \in Computers : L!IsMachine(m)
    /\ MaxCommands \in Nat
<1>1. Lines \subseteq Seq(STRING) \ {<<>>} /\ FlagWords \cap DOMAIN Assigned = {}
      /\ {t.id : t \in Table} \cap DOMAIN Pieces = {}
  BY CommandLineAssumption DEF L!ConstAssumption
<1>2. \A line \in Lines : line \in Seq(STRING) /\ line # <<>> /\ Len(line) \in Nat \ {0}
  BY <1>1
<1> QED BY <1>1, <1>2, CommandLineAssumption DEF L!ConstAssumption

LEMMA SamePicked == \A f, D : L!At(f, D) = H!At(f, D)
BY DEF L!At, H!At, L!Cardinality, H!Cardinality

LEMMA LatestOf ==
    ASSUME NEW n \in Nat, NEW S \in SUBSET 1..n, S # {}
    PROVE  L!Max(S) \in S /\ \A x \in S : x <= L!Max(S)
<1>1. S \in SUBSET 0..n
  OBVIOUS
<1>2. H!Max(S) \in S /\ \A x \in S : x <= H!Max(S)
  BY <1>1, MaxOf
<1>3. \A x \in S : H!Max(S) >= x
  BY <1>2
<1>4. L!Max(S) \in S /\ \A x \in S : L!Max(S) >= x
  BY <1>2, <1>3 DEF L!Max
<1> QED BY <1>4

\* Two lines of n + 1 words that differ in the place of f: at i in one, last in the other.
TwoPlaces(v, w, n, i, f) ==
    /\ n \in Nat /\ i \in 1..n + 1
    /\ DOMAIN v = 1..n + 1 /\ DOMAIN w = 1..n + 1
    /\ v[i] = f /\ w[n + 1] = f
    /\ \A q \in 1..n : v[IF q < i THEN q ELSE q + 1] = w[q]

\* a is s with f behind its first i elements.
With(a, s, i, f) ==
    /\ Len(a) = Len(s) + 1
    /\ \A j \in 1..i : a[j] = s[j]
    /\ a[i + 1] = f
    /\ \A j \in i + 1..Len(s) : a[j + 1] = s[j]

LEMMA Inserted ==
    ASSUME NEW S, NEW s \in Seq(S), NEW f \in S, NEW i \in 1..Len(s)
    PROVE  /\ L!InsertAt(s, i + 1, f) \in Seq(S)
           /\ With(L!InsertAt(s, i + 1, f), s, i, f)
<1> DEFINE left == SubSeq(s, 1, i)  right == SubSeq(s, i + 1, Len(s))
           most == left \o <<f>>  a == most \o right
<1>1. Len(s) \in Nat /\ i \in Nat /\ i + 1 - 1 = i /\ \A j \in 1..Len(s) : s[j] \in S
  BY LenProperties, ElementOfSeq
<1>2. L!InsertAt(s, i + 1, f) = a
  <2>1. PICK m \in Int : m = i + 1 /\ m - 1 = i
    BY <1>1
  <2>2. L!InsertAt(s, m, f) = SubSeq(s, 1, m - 1) \o <<f>> \o SubSeq(s, m, Len(s))
    BY DEF L!InsertAt
  <2> QED BY <2>1, <2>2
<1>3. left \in Seq(S) /\ Len(left) = i /\ \A j \in 1..i : left[j] = s[j]
  <2>1. \A j \in 1..i : s[j] \in S
    BY <1>1
  <2>2. left \in Seq(S) /\ Len(left) = (IF 1 <= i THEN i - 1 + 1 ELSE 0)
        /\ \A j \in 1..i - 1 + 1 : left[j] = s[1 + j - 1]
    BY <1>1, <2>1, SubSeqProperties
  <2> QED BY <1>1, <2>2
<1>4. right \in Seq(S) /\ Len(right) = Len(s) - i
      /\ \A j \in 1..Len(s) - i : right[j] = s[i + j]
  <2>1. \A j \in i + 1..Len(s) : s[j] \in S
    BY <1>1
  <2>2. right \in Seq(S)
        /\ Len(right) = (IF i + 1 <= Len(s) THEN Len(s) - (i + 1) + 1 ELSE 0)
        /\ \A j \in 1..Len(s) - (i + 1) + 1 : right[j] = s[(i + 1) + j - 1]
    BY <1>1, <2>1, SubSeqProperties
  <2>3. Len(s) - (i + 1) + 1 = Len(s) - i /\ \A j \in 1..Len(s) - i : (i + 1) + j - 1 = i + j
    BY <1>1
  <2>4. Len(right) = Len(s) - i
    BY <1>1, <2>2
  <2>5. \A j \in 1..Len(s) - i : right[j] = s[i + j]
    <3> HIDE DEF right
    <3> QED BY <2>2, <2>3
  <2> QED BY <2>2, <2>4, <2>5
<1>5. <<f>> \in Seq(S) /\ Len(<<f>>) = 1 /\ <<f>>[1] = f
  OBVIOUS
<1> HIDE DEF left, right
<1>6. most \in Seq(S) /\ Len(most) = i + 1
      /\ \A j \in 1..i + 1 : most[j] = IF j <= i THEN s[j] ELSE f
  <2>1. most \in Seq(S) /\ Len(most) = Len(left) + Len(<<f>>)
        /\ \A j \in 1..Len(left) + Len(<<f>>) :
             most[j] = IF j <= Len(left) THEN left[j] ELSE <<f>>[j - Len(left)]
    BY <1>3, <1>5, ConcatProperties
  <2>2. ASSUME NEW j \in 1..i + 1 PROVE most[j] = IF j <= i THEN s[j] ELSE f
    <3> HIDE DEF most
    <3>1. CASE j <= i
      BY <1>1, <1>3, <1>5, <2>1, <3>1
    <3>2. CASE j = i + 1
      <4>1. j - Len(left) = 1
        BY <1>1, <1>3, <3>2
      <4> QED BY <1>1, <1>3, <1>5, <2>1, <3>2, <4>1
    <3> QED BY <1>1, <3>1, <3>2
  <2> QED BY <1>3, <1>5, <2>1, <2>2
<1> HIDE DEF most
<1>7. a \in Seq(S) /\ Len(a) = Len(most) + Len(right)
      /\ \A j \in 1..Len(most) + Len(right) :
           a[j] = IF j <= Len(most) THEN most[j] ELSE right[j - Len(most)]
  BY <1>4, <1>6, ConcatProperties
<1> HIDE DEF a
<1>8. Len(most) + Len(right) = Len(s) + 1
  BY <1>1, <1>4, <1>6
<1>9. \A j \in 1..i + 1 : a[j] = most[j]
  BY <1>1, <1>6, <1>7, <1>8
<1>10. ASSUME NEW j \in 1..i PROVE a[j] = s[j]
  BY <1>1, <1>6, <1>9
<1>11. a[i + 1] = f
  BY <1>1, <1>6, <1>9
<1>12. ASSUME NEW j \in i + 1..Len(s) PROVE a[j + 1] = s[j]
  <2>1. j - i \in 1..Len(s) - i /\ i + (j - i) = j /\ (j + 1) - (i + 1) = j - i
    BY <1>1
  <2>2. a[j + 1] = right[(j + 1) - (i + 1)]
    BY <1>1, <1>6, <1>7, <1>8
  <2>3. right[j - i] = s[j]
    BY <1>4, <2>1
  <2> QED BY <2>1, <2>2, <2>3
<1>13. With(a, s, i, f)
  BY <1>7, <1>8, <1>10, <1>11, <1>12 DEF With
<1> QED BY <1>2, <1>7, <1>13

LEMMA InsertedAndAppended ==
    ASSUME NEW S, NEW line \in Seq(S), line # <<>>, NEW f \in S, NEW i \in DOMAIN line
    PROVE  TwoPlaces(Tail(L!InsertAt(line, i + 1, f)), Append(Tail(line), f), Len(line) - 1, i, f)
<1> DEFINE n == Len(line) - 1
           a == L!InsertAt(line, i + 1, f)
           words == Tail(line)
           w == Append(words, f)
<1>1. Len(line) \in Nat \ {0} /\ DOMAIN line = 1..Len(line)
  BY LenProperties, EmptySeq
<1>2. n \in Nat /\ i \in 1..n + 1 /\ Len(line) = n + 1
  BY <1>1
<1>3. words \in Seq(S) /\ Len(words) = n /\ \A q \in 1..n : words[q] = line[q + 1]
  <2>1. words \in Seq(S) /\ Len(words) = Len(line) - 1
        /\ \A q \in 1..Len(words) : words[q] = line[q + 1]
    BY <1>1, HeadTailProperties
  <2> QED BY <2>1
<1> HIDE DEF words
<1>4. DOMAIN w = 1..n + 1 /\ w[n + 1] = f /\ \A q \in 1..n : w[q] = line[q + 1]
  <2>1. w \in Seq(S) /\ Len(w) = Len(words) + 1 /\ w[Len(words) + 1] = f
        /\ \A q \in 1..Len(words) : w[q] = words[q]
    BY <1>3, AppendProperties
  <2>2. DOMAIN w = 1..Len(w)
    BY <2>1, LenProperties
  <2> QED BY <1>3, <2>1, <2>2
<1>5. /\ a \in Seq(S) /\ Len(a) = n + 2 /\ a # <<>>
      /\ \A j \in 1..i : a[j] = line[j]
      /\ a[i + 1] = f
      /\ \A j \in i + 1..n + 1 : a[j + 1] = line[j]
  <2>1. Len(line) + 1 = n + 2 /\ i \in 1..Len(line) /\ Len(line) = n + 1
    BY <1>1, <1>2
  <2>2. a \in Seq(S) /\ With(a, line, i, f)
    BY <2>1, Inserted
  <2> HIDE DEF a
  <2>3. a # <<>>
    BY <1>2, <2>1, <2>2, EmptySeq DEF With
  <2> QED BY <1>2, <2>1, <2>2, <2>3 DEF With
<1> HIDE DEF a
<1>7. DOMAIN Tail(a) = 1..n + 1 /\ \A q \in 1..n + 1 : Tail(a)[q] = a[q + 1]
  <2>1. Tail(a) \in Seq(S) /\ Len(Tail(a)) = n + 1
        /\ \A q \in 1..Len(Tail(a)) : Tail(a)[q] = a[q + 1]
    BY <1>2, <1>5, HeadTailProperties
  <2> QED BY <2>1, LenProperties
<1>8. Tail(a)[i] = f
  BY <1>2, <1>5, <1>7
<1>9. ASSUME NEW q \in 1..n
      PROVE  Tail(a)[IF q < i THEN q ELSE q + 1] = line[q + 1]
  <2>1. CASE q < i
    <3>1. q \in 1..n + 1 /\ q + 1 \in 1..i
      BY <1>2, <2>1
    <3> QED BY <1>5, <1>7, <2>1, <3>1
  <2>2. CASE ~(q < i)
    <3>1. q + 1 \in 1..n + 1 /\ q + 1 \in i + 1..n + 1
      BY <1>2, <2>2
    <3>2. Tail(a)[q + 1] = a[(q + 1) + 1] /\ a[(q + 1) + 1] = line[q + 1]
      BY <1>5, <1>7, <3>1
    <3> QED BY <2>2, <3>2
  <2> QED BY <2>1, <2>2
<1>10. TwoPlaces(Tail(a), w, n, i, f)
  <2> HIDE DEF n, w
  <2>1. ASSUME NEW q \in 1..n PROVE Tail(a)[IF q < i THEN q ELSE q + 1] = w[q]
    BY <1>4, <1>9
  <2> QED BY <1>2, <1>4, <1>7, <1>8, <2>1 DEF TwoPlaces
<1> QED BY <1>10 DEF a, words

\* Where the words of the one line are in the other.
Moved(q, n, i) == IF q < i THEN q ELSE IF q = n + 1 THEN i ELSE q + 1

LEMMA Moves ==
    ASSUME NEW n \in Nat, NEW i \in 1..n + 1
    PROVE  /\ \A q \in 1..n + 1 : Moved(q, n, i) \in 1..n + 1
           /\ \A q \in 1..n : Moved(q, n, i) # i
           /\ \A p, q \in 1..n : p < q => Moved(p, n, i) < Moved(q, n, i)
           /\ \A r \in 1..n + 1 : r # i => \E q \in 1..n : Moved(q, n, i) = r
           /\ Moved(n + 1, n, i) = i
<1>1. \A q \in 1..n + 1 : Moved(q, n, i) \in 1..n + 1
  BY DEF Moved
<1>2. \A q \in 1..n : Moved(q, n, i) # i
  BY DEF Moved
<1>3. \A p, q \in 1..n : p < q => Moved(p, n, i) < Moved(q, n, i)
  BY DEF Moved
<1>4. ASSUME NEW r \in 1..n + 1, r # i PROVE \E q \in 1..n : Moved(q, n, i) = r
  <2>1. CASE r < i
    <3>1. r \in 1..n /\ Moved(r, n, i) = r
      BY <2>1 DEF Moved
    <3> QED BY <3>1
  <2>2. CASE ~(r < i)
    <3>1. r - 1 \in 1..n /\ Moved(r - 1, n, i) = r
      BY <1>4, <2>2 DEF Moved
    <3> QED BY <3>1
  <2> QED BY <2>1, <2>2
<1>5. Moved(n + 1, n, i) = i
  BY DEF Moved
<1> QED BY <1>1, <1>2, <1>3, <1>4, <1>5

\* The moved flag takes no word in either place, and the others take the words they took.
LEMMA TakesMoved ==
    ASSUME NEW v, NEW w, NEW n, NEW i, NEW f \in L!WithoutValue, TwoPlaces(v, w, n, i, f),
           i = 1 \/ v[i - 1] \notin FlagWords \ L!WithoutValue
    PROVE  /\ \A q \in 1..n + 1 : v[Moved(q, n, i)] = w[q]
           /\ \A q \in 0..n : L!Takes(v, Moved(q, n, i)) <=> L!Takes(w, q)
           /\ ~L!Takes(v, i) /\ ~L!Takes(w, n + 1)
           /\ \A q \in 1..n : L!Takes(v, Moved(q, n, i) - 1) <=> L!Takes(w, q - 1)
           /\ \A q \in 1..n : L!Takes(w, q) => v[Moved(q, n, i) + 1] = w[q + 1]
<1>1. f \in L!Switches /\ f \in FlagWords /\ L!IsFlag(f) /\ L!WithoutValue \subseteq L!Switches
  BY LineConstants DEF L!WithoutValue, L!Switches, L!IsFlag
<1>2. n \in Nat /\ i \in 1..n + 1 /\ DOMAIN v = 1..n + 1 /\ DOMAIN w = 1..n + 1
      /\ v[i] = f /\ w[n + 1] = f
  BY DEF TwoPlaces
<1>3. ASSUME NEW q \in 1..n + 1 PROVE v[Moved(q, n, i)] = w[q]
  <2>1. CASE q = n + 1
    BY <1>2, <2>1, Moves
  <2>2. CASE q # n + 1
    <3>1. q \in 1..n
      BY <1>2, <2>2
    <3> QED BY <1>2, <3>1 DEF TwoPlaces, Moved
  <2> QED BY <2>1, <2>2
<1>4. ~L!Takes(v, i) /\ ~L!Takes(w, n + 1)
  BY <1>1, <1>2 DEF L!Takes
<1>5. ~L!Takes(w, n)
  BY <1>1, <1>2 DEF L!Takes
<1>6. ~L!Takes(v, i - 1) /\ ~L!Takes(w, i - 1)
  <2>1. ~L!Takes(v, i - 1)
    <3>1. i - 1 + 1 = i
      BY <1>2
    <3> QED BY <1>1, <1>2, <3>1 DEF L!Takes
  <2>2. CASE i = 1
    <3>1. i - 1 \notin DOMAIN w
      BY <1>2, <2>2
    <3> QED BY <2>1, <3>1 DEF L!Takes
  <2>3. CASE i # 1
    <3>1. i - 1 \in 1..n /\ Moved(i - 1, n, i) = i - 1
      BY <1>2, <2>3 DEF Moved
    <3>2. w[i - 1] = v[i - 1]
      BY <1>2, <1>3, <3>1
    <3>3. w[i - 1] \notin FlagWords \ L!Switches
      BY <1>1, <2>3, <3>2
    <3> QED BY <2>1, <3>3 DEF L!Takes
  <2> QED BY <2>2, <2>3
<1>7. ASSUME NEW q \in 1..n, q # i - 1, q # n
      PROVE  /\ L!Takes(v, Moved(q, n, i)) <=> L!Takes(w, q)
             /\ v[Moved(q, n, i) + 1] = w[q + 1]
  <2>1. q + 1 \in 1..n /\ Moved(q + 1, n, i) = Moved(q, n, i) + 1
    BY <1>2, <1>7 DEF Moved
  <2>2. v[Moved(q, n, i)] = w[q] /\ v[Moved(q, n, i) + 1] = w[q + 1]
    BY <1>2, <1>3, <2>1
  <2>3. q \in DOMAIN w /\ q + 1 \in DOMAIN w /\ Moved(q, n, i) \in DOMAIN v
        /\ Moved(q, n, i) + 1 \in DOMAIN v
    <3>1. Moved(q, n, i) \in 1..n + 1 /\ Moved(q + 1, n, i) \in 1..n + 1
      BY <1>2, <2>1, Moves
    <3> QED BY <1>2, <2>1, <3>1
  <2> QED BY <2>2, <2>3 DEF L!Takes
<1>8. ASSUME NEW q \in 0..n PROVE L!Takes(v, Moved(q, n, i)) <=> L!Takes(w, q)
  <2>1. CASE q = 0
    <3>1. Moved(q, n, i) = 0 /\ 0 \notin DOMAIN v /\ 0 \notin DOMAIN w
      BY <1>2, <2>1 DEF Moved
    <3> QED BY <2>1, <3>1 DEF L!Takes
  <2>2. CASE q = i - 1 /\ q # 0
    <3>1. Moved(q, n, i) = i - 1
      BY <1>2, <2>2 DEF Moved
    <3> QED BY <1>6, <2>2, <3>1
  <2>3. CASE q = n /\ q # i - 1 /\ q # 0
    <3>1. Moved(q, n, i) = n + 1 /\ n + 1 + 1 \notin DOMAIN v
      BY <1>2, <2>3 DEF Moved
    <3> QED BY <1>5, <2>3, <3>1 DEF L!Takes
  <2>4. CASE q # n /\ q # i - 1 /\ q # 0
    BY <1>2, <1>7, <2>4
  <2> QED BY <2>1, <2>2, <2>3, <2>4
<1>9. ASSUME NEW q \in 1..n PROVE L!Takes(v, Moved(q, n, i) - 1) <=> L!Takes(w, q - 1)
  <2>1. CASE q = i
    <3>1. Moved(q, n, i) - 1 = i
      BY <1>2, <2>1 DEF Moved
    <3> QED BY <1>4, <1>6, <2>1, <3>1
  <2>2. CASE q # i
    <3>1. Moved(q, n, i) - 1 = Moved(q - 1, n, i) /\ q - 1 \in 0..n
      BY <1>2, <2>2 DEF Moved
    <3> QED BY <1>8, <3>1
  <2> QED BY <2>1, <2>2
<1>10. ASSUME NEW q \in 1..n, L!Takes(w, q) PROVE v[Moved(q, n, i) + 1] = w[q + 1]
  BY <1>5, <1>6, <1>7, <1>10
<1> QED BY <1>3, <1>4, <1>8, <1>9, <1>10

\* Two lines that differ in the place of a flag which may stand in both.
FlagMoved(v, w, n, i, f) ==
    /\ TwoPlaces(v, w, n, i, f) /\ f \in L!WithoutValue
    /\ i = 1 \/ v[i - 1] \notin FlagWords \ L!WithoutValue
    /\ \A q \in 1..n : w[q] \in DOMAIN Assigned => Assigned[w[q]][1] # f

LEMMA SamePositional ==
    ASSUME NEW v, NEW w, NEW n, NEW i, NEW f, FlagMoved(v, w, n, i, f)
    PROVE  L!At(v, L!Positional(v)) = L!At(w, L!Positional(w))
<1> DEFINE C == L!Positional(w)  D == L!Positional(v)
           h == [q \in C |-> Moved(q, n, i)]
<1>1. n \in Nat /\ i \in 1..n + 1 /\ DOMAIN v = 1..n + 1 /\ DOMAIN w = 1..n + 1
      /\ v[i] = f /\ w[n + 1] = f
  BY DEF FlagMoved, TwoPlaces
<1>2. L!IsFlag(f)
  BY LineConstants DEF FlagMoved, L!WithoutValue, L!Switches, L!IsFlag
<1>3. /\ \A q \in 1..n + 1 : v[Moved(q, n, i)] = w[q]
      /\ \A q \in 1..n : L!Takes(v, Moved(q, n, i) - 1) <=> L!Takes(w, q - 1)
  BY TakesMoved DEF FlagMoved
<1>4. C \subseteq 1..n /\ D \subseteq 1..n + 1 /\ i \notin D
  <2>1. C \subseteq 1..n + 1 /\ n + 1 \notin C
    BY <1>1, <1>2 DEF L!Positional
  <2>2. C \subseteq 1..n
    BY <1>1, <2>1
  <2> QED BY <1>1, <1>2, <2>2 DEF L!Positional
<1>5. ASSUME NEW q \in 1..n PROVE q \in C <=> Moved(q, n, i) \in D
  <2>1. q \in 1..n + 1
    BY <1>1
  <2>2. q \in DOMAIN w /\ Moved(q, n, i) \in DOMAIN v /\ v[Moved(q, n, i)] = w[q]
    BY <1>1, <1>3, <2>1, Moves
  <2> QED BY <1>3, <2>2 DEF L!Positional
<1> HIDE DEF C, D
<1>6. Corresponds(h, C, w, D, v)
  <2>1. h \in [C -> D]
    BY <1>4, <1>5
  <2>2. \A p, q \in C : p < q => h[p] < h[q]
    BY <1>1, <1>4, Moves
  <2>3. ASSUME NEW r \in D PROVE \E q \in C : h[q] = r
    <3>1. r \in 1..n + 1 /\ r # i
      BY <1>4
    <3>2. \E q \in 1..n : Moved(q, n, i) = r
      BY <1>1, <3>1, Moves
    <3> QED BY <1>5, <3>2
  <2>4. \A q \in C : v[h[q]] = w[q]
    BY <1>1, <1>3, <1>4
  <2> QED BY <2>1, <2>2, <2>3, <2>4 DEF Corresponds
<1>7. Placing(C) /\ Placing(D)
  <2>1. n + 1 \in Nat
    BY <1>1
  <2> QED BY <1>1, <1>4, <2>1, SomePlaces
<1>8. H!At(w, C) = H!At(v, D)
  BY <1>6, <1>7, SameAt
<1> QED BY <1>8, SamePicked DEF C, D

\* What a flag is given is given to it at the other place.
LEMMA SameFlagAt ==
    ASSUME NEW v, NEW w, NEW n, NEW i, NEW f, FlagMoved(v, w, n, i, f)
    PROVE  /\ \A q \in 1..n + 1 : q \in L!FlagPlaces(w) <=> Moved(q, n, i) \in L!FlagPlaces(v)
           /\ \A q \in L!FlagPlaces(w) : L!FlagAt(v, Moved(q, n, i)) = L!FlagAt(w, q)
           /\ n + 1 \in L!FlagPlaces(w) /\ L!FlagAt(w, n + 1) = <<f, L!NoValue>>
           /\ \A q \in L!FlagPlaces(w) : L!FlagAt(w, q)[1] = f => L!FlagAt(w, q)[2] = L!NoValue
<1>1. n \in Nat /\ i \in 1..n + 1 /\ DOMAIN v = 1..n + 1 /\ DOMAIN w = 1..n + 1
      /\ v[i] = f /\ w[n + 1] = f
  BY DEF FlagMoved, TwoPlaces
<1>2. L!IsFlag(f) /\ f \notin DOMAIN Assigned /\ f \in L!Switches
  BY LineConstants DEF FlagMoved, L!WithoutValue, L!Switches, L!IsFlag
<1>3. /\ \A q \in 1..n + 1 : v[Moved(q, n, i)] = w[q]
      /\ \A q \in 0..n : L!Takes(v, Moved(q, n, i)) <=> L!Takes(w, q)
      /\ ~L!Takes(v, i) /\ ~L!Takes(w, n + 1)
      /\ \A q \in 1..n : L!Takes(w, q) => v[Moved(q, n, i) + 1] = w[q + 1]
  BY TakesMoved DEF FlagMoved
<1>4. \A q \in 1..n + 1 : q \in L!FlagPlaces(w) <=> Moved(q, n, i) \in L!FlagPlaces(v)
  <2>1. \A q \in 1..n + 1 : Moved(q, n, i) \in 1..n + 1
    BY <1>1, Moves
  <2> QED BY <1>1, <1>3, <2>1 DEF L!FlagPlaces
<1>5. n + 1 \in L!FlagPlaces(w) /\ L!FlagAt(w, n + 1) = <<f, L!NoValue>>
  BY <1>1, <1>2, <1>3 DEF L!FlagPlaces, L!FlagAt
<1>6. ASSUME NEW q \in L!FlagPlaces(w) PROVE L!FlagAt(v, Moved(q, n, i)) = L!FlagAt(w, q)
  <2>1. q \in 1..n + 1
    BY <1>1 DEF L!FlagPlaces
  <2>2. CASE q = n + 1
    <3>1. Moved(q, n, i) = i
      BY <1>1, <2>2, Moves
    <3> QED BY <1>1, <1>2, <1>3, <1>5, <2>2, <3>1 DEF L!FlagAt
  <2>3. CASE q # n + 1
    <3>1. q \in 1..n /\ q \in 0..n
      BY <1>1, <2>1, <2>3
    <3>2. v[Moved(q, n, i)] = w[q] /\ (L!Takes(v, Moved(q, n, i)) <=> L!Takes(w, q))
          /\ (L!Takes(w, q) => v[Moved(q, n, i) + 1] = w[q + 1])
      BY <1>3, <2>1, <3>1
    <3> QED BY <3>2 DEF L!FlagAt
  <2> QED BY <2>2, <2>3
<1>7. ASSUME NEW q \in L!FlagPlaces(w), L!FlagAt(w, q)[1] = f PROVE L!FlagAt(w, q)[2] = L!NoValue
  <2>1. q \in 1..n + 1
    BY <1>1 DEF L!FlagPlaces
  <2>2. CASE w[q] \in DOMAIN Assigned
    <3>1. Assigned[w[q]][1] = f
      BY <1>7, <2>2 DEF L!FlagAt
    <3>2. q # n + 1
      BY <1>1, <1>2, <2>2
    <3>3. q \in 1..n
      BY <1>1, <2>1, <3>2
    <3> QED BY <2>2, <3>1, <3>3 DEF FlagMoved
  <2>3. CASE w[q] \notin DOMAIN Assigned
    <3>1. w[q] = f
      BY <1>7, <2>3 DEF L!FlagAt
    <3>2. ~L!Takes(w, q)
      BY <1>2, <3>1 DEF L!Takes
    <3> QED BY <2>3, <3>2 DEF L!FlagAt
  <2> QED BY <2>2, <2>3
<1> QED BY <1>4, <1>5, <1>6, <1>7

LEMMA SameFlags ==
    ASSUME NEW v, NEW w, NEW n, NEW i, NEW f, FlagMoved(v, w, n, i, f)
    PROVE  L!ParseArgs(v).flags = L!ParseArgs(w).flags
<1> DEFINE M(q) == Moved(q, n, i)
           FV == L!FlagPlaces(v)  FW == L!FlagPlaces(w)
           KV == {L!FlagAt(v, r)[1] : r \in FV}  KW == {L!FlagAt(w, q)[1] : q \in FW}
<1>1. n \in Nat /\ i \in 1..n + 1 /\ FV \subseteq 1..n + 1 /\ FW \subseteq 1..n + 1
  BY DEF FlagMoved, TwoPlaces, L!FlagPlaces
<1>2. /\ \A q \in 1..n + 1 : q \in FW <=> M(q) \in FV
      /\ \A q \in FW : L!FlagAt(v, M(q)) = L!FlagAt(w, q)
      /\ n + 1 \in FW /\ L!FlagAt(w, n + 1)[1] = f
      /\ \A q \in FW : L!FlagAt(w, q)[1] = f => L!FlagAt(w, q)[2] = L!NoValue
  BY SameFlagAt
<1>3. \A r \in FV : \E q \in FW : M(q) = r
  <2> SUFFICES ASSUME NEW r \in FV PROVE \E q \in FW : M(q) = r
    OBVIOUS
  <2>1. CASE r = i
    BY <1>1, <1>2, <2>1, Moves
  <2>2. CASE r # i
    <3>1. r \in 1..n + 1
      BY <1>1
    <3>2. PICK q \in 1..n : Moved(q, n, i) = r
      BY <1>1, <2>2, <3>1, Moves
    <3>3. q \in 1..n + 1
      BY <1>1
    <3> QED BY <1>2, <3>2, <3>3
  <2> QED BY <2>1, <2>2
<1>0. \A p, r \in 1..n : p < r => M(p) < M(r)
  BY <1>1, Moves
<1> HIDE DEF M, FV, FW
<1>4. KV = KW
  <2>1. \A q \in FW : M(q) \in FV
    BY <1>1, <1>2
  <2> QED BY <1>2, <1>3, <2>1
<1>5. ASSUME NEW g \in KW
      PROVE  L!FlagAt(v, L!Max(L!Given(v, g)))[2] = L!FlagAt(w, L!Max(L!Given(w, g)))[2]
  <2> DEFINE gv == L!Given(v, g)  gw == L!Given(w, g)  x == L!Max(gv)  y == L!Max(gw)
  <2>1. gv = {r \in FV : L!FlagAt(v, r)[1] = g} /\ gw = {q \in FW : L!FlagAt(w, q)[1] = g}
    BY DEF L!Given, FV, FW
  <2> HIDE DEF gv, gw
  <2>2. gw # {} /\ gv # {} /\ gv \subseteq 1..n + 1 /\ gw \subseteq 1..n + 1 /\ n + 1 \in Nat
    <3>1. \E q \in FW : L!FlagAt(w, q)[1] = g
      OBVIOUS
    <3>2. \E r \in FV : L!FlagAt(v, r)[1] = g
      BY <1>4
    <3>3. gw # {} /\ gv # {}
      BY <2>1, <3>1, <3>2
    <3>4. gv \subseteq FV /\ gw \subseteq FW
      BY <2>1
    <3>5. n + 1 \in Nat
      BY <1>1
    <3> QED BY <1>1, <3>3, <3>4, <3>5
  <2>3. x \in gv /\ (\A r \in gv : r <= x) /\ y \in gw /\ (\A q \in gw : q <= y)
    BY <2>2, LatestOf
  <2> HIDE DEF x, y
  <2>4. CASE g = f
    <3>1. PICK q \in FW : M(q) = x
      BY <1>3, <2>1, <2>3
    <3>2. L!FlagAt(v, x) = L!FlagAt(w, q)
      BY <1>2, <3>1
    <3>3. L!FlagAt(w, q)[1] = f /\ L!FlagAt(w, y)[1] = f /\ y \in FW
      BY <2>1, <2>3, <2>4, <3>2
    <3>4. L!FlagAt(v, x)[2] = L!NoValue /\ L!FlagAt(w, y)[2] = L!NoValue
      BY <1>2, <3>2, <3>3
    <3> QED BY <3>4 DEF x, y, gv, gw
  <2>5. CASE g # f
    <3>1. PICK q \in FW : M(q) = x
      BY <1>3, <2>1, <2>3
    <3>2. L!FlagAt(v, x) = L!FlagAt(w, q) /\ q \in gw
      BY <1>2, <2>1, <2>3, <3>1
    <3>3. q # n + 1 /\ y # n + 1
      BY <1>2, <2>1, <2>3, <2>5, <3>2
    <3>4. q \in 1..n /\ y \in 1..n /\ q <= y
      BY <1>1, <2>2, <2>3, <3>2, <3>3
    <3>5. M(y) \in gv
      <4>1. y \in FW /\ M(y) \in FV
        BY <1>1, <1>2, <2>1, <2>3
      <4> QED BY <1>2, <2>1, <2>3, <4>1
    <3>6. M(y) <= M(q)
      BY <2>3, <3>1, <3>5
    <3>7. q = y
      <4>1. M(y) \in 1..n + 1 /\ M(q) \in 1..n + 1
        BY <2>2, <2>3, <3>1, <3>5
      <4>2. M(y) \in Int /\ M(q) \in Int
        BY <1>1, <4>1
      <4> QED BY <1>0, <1>1, <3>4, <3>6, <4>2
    <3> QED BY <3>2, <3>7 DEF x, y, gv, gw
  <2> QED BY <2>4, <2>5
<1>6. /\ L!ParseArgs(v).flags = [g \in KV |-> L!FlagAt(v, L!Max(L!Given(v, g)))[2]]
      /\ L!ParseArgs(w).flags = [g \in KW |-> L!FlagAt(w, L!Max(L!Given(w, g)))[2]]
  BY DEF L!ParseArgs, FV, FW
<1> HIDE DEF KV, KW
<1> QED BY <1>4, <1>5, <1>6

\* A flag without a value means the same wherever it stands behind the command.
LEMMA FlagsMove ==
    ASSUME NEW line \in Lines, NEW f \in L!WithoutValue, NEW i \in DOMAIN line
    PROVE  L!FlagMoves(line, f, i)
<1> DEFINE v == Tail(L!InsertAt(line, i + 1, f))  w == Append(Tail(line), f)  n == Len(line) - 1
<1> SUFFICES ASSUME line[i] \notin FlagWords \ L!WithoutValue, ~L!GivesValue(line, f)
             PROVE  L!ParseArgs(v) = L!ParseArgs(w)
  BY DEF L!FlagMoves
<1>0. PICK S : line \in Seq(S) /\ f \in S
  <2>1. line \in Seq(STRING)
    BY LineConstants
  <2>2. line \in Seq(STRING \cup {f})
    BY <2>1, SeqMonotonic
  <2> QED BY <2>2, Zenon
<1>1. line \in Seq(S) /\ line # <<>> /\ Len(line) \in Nat \ {0} /\ DOMAIN line = 1..Len(line)
  BY <1>0, LineConstants, LenProperties
<1>2. f \in S
  BY <1>0
<1>3. TwoPlaces(v, w, n, i, f)
  BY <1>1, <1>2, InsertedAndAppended
<1>4. \A q \in 1..n : w[q] = line[q + 1]
  <2>1. Tail(line) \in Seq(S) /\ Len(Tail(line)) = n
        /\ \A q \in 1..Len(Tail(line)) : Tail(line)[q] = line[q + 1]
    BY <1>1, HeadTailProperties
  <2>2. \A q \in 1..Len(Tail(line)) : w[q] = Tail(line)[q]
    BY <1>2, <2>1, AppendProperties
  <2> QED BY <2>1, <2>2
<1> HIDE DEF v, w
<1>5. i = 1 \/ v[i - 1] = line[i]
  <2> SUFFICES ASSUME i # 1 PROVE v[i - 1] = line[i]
    OBVIOUS
  <2>1. PICK q \in 1..n : q = i - 1 /\ q < i /\ q + 1 = i
    BY <1>1
  <2>2. v[q] = w[q]
    BY <1>3, <2>1 DEF TwoPlaces
  <2> QED BY <1>4, <2>1, <2>2
<1>6. ASSUME NEW q \in 1..n, w[q] \in DOMAIN Assigned PROVE Assigned[w[q]][1] # f
  <2>1. q + 1 \in DOMAIN line
    BY <1>1
  <2> QED BY <1>4, <1>6, <2>1 DEF L!GivesValue
<1>7. FlagMoved(v, w, n, i, f)
  BY <1>3, <1>5, <1>6 DEF FlagMoved
<1> HIDE DEF n
<1>8. L!ParseArgs(v).flags = L!ParseArgs(w).flags
  BY <1>7, SameFlags
<1>9. L!At(v, L!Positional(v)) = L!At(w, L!Positional(w))
  BY <1>7, SamePositional
<1> QED BY <1>8, <1>9 DEF L!ParseArgs

-----------------------------------------------------------------------------
(* The command line: what an exit code tells *)

\* What stands in a line.
LEMMA LineWords ==
    ASSUME NEW line \in Lines
    PROVE  LET p == L!Args(line).positional IN
           /\ Len(p) \in Nat /\ p \in Seq({p[k] : k \in 1..Len(p)})
           /\ \A k \in 1..Len(p) : L!Asked(line, p[k])
<1> DEFINE words == Tail(line)  D == L!Positional(words)  p == L!At(words, D)
           A == {x \in {line[j] : j \in DOMAIN line} : TRUE}
<1>1. PICK S : line \in Seq(S) /\ line # <<>>
  <2>1. line \in Seq(STRING) /\ line # <<>>
    BY LineConstants
  <2> QED BY <2>1, Zenon
<1>2. Len(line) \in Nat \ {0} /\ DOMAIN line = 1..Len(line)
  BY <1>1, LenProperties, EmptySeq
<1>3. words \in Seq(S) /\ Len(words) = Len(line) - 1 /\ DOMAIN words = 1..Len(words)
      /\ \A q \in 1..Len(words) : words[q] = line[q + 1]
  BY <1>1, HeadTailProperties, LenProperties
<1>4. D \in SUBSET (1..Len(words)) /\ Len(words) \in Nat
  BY <1>2, <1>3 DEF L!Positional
<1>5. Placing(D)
  BY <1>4, SomePlaces
<1> HIDE DEF words, D
<1>6. \A q \in D : words[q] \in A
  <2>1. ASSUME NEW q \in D PROVE words[q] \in A
    <3>1. q \in 1..Len(words) /\ q + 1 \in DOMAIN line
      BY <1>2, <1>3, <1>4
    <3>2. words[q] = line[q + 1]
      BY <1>3, <3>1
    <3> QED BY <3>1, <3>2
  <2> QED BY <2>1
<1>7. p \in Seq(A)
  <2>1. H!At(words, D) \in Seq(A)
    <3> HIDE DEF A
    <3> QED BY <1>5, <1>6, AtType
  <2> QED BY <2>1, SamePicked
<1> HIDE DEF p
<1>8. Len(p) \in Nat /\ p \in [1..Len(p) -> A]
  <2> HIDE DEF A
  <2> QED BY <1>7, LenProperties
<1>9. \A k \in 1..Len(p) : L!Asked(line, p[k])
  BY <1>8 DEF L!Asked
<1>10. p \in Seq({p[k] : k \in 1..Len(p)})
  <2>1. p \in [1..Len(p) -> {p[k] : k \in 1..Len(p)}]
    BY <1>8
  <2> QED BY <1>8, <2>1
<1>11. L!Args(line).positional = p
  BY DEF L!Args, L!ParseArgs, p, words, D
<1> QED BY <1>8, <1>9, <1>10, <1>11

\* So does a flag that it finds, with or without its value.
LEMMA FlagAsked ==
    ASSUME NEW line \in Lines, NEW f, L!HasFlag(L!Args(line), f)
    PROVE  L!Asked(line, f) \/ L!GivesValue(line, f)
<1> DEFINE words == Tail(line)
<1>1. PICK S : line \in Seq(S) /\ line # <<>>
  <2>1. line \in Seq(STRING) /\ line # <<>>
    BY LineConstants
  <2> QED BY <2>1, Zenon
<1>2. Len(line) \in Nat \ {0} /\ DOMAIN line = 1..Len(line)
  BY <1>1, LenProperties, EmptySeq
<1>3. Len(words) = Len(line) - 1 /\ DOMAIN words = 1..Len(words)
      /\ \A q \in 1..Len(words) : words[q] = line[q + 1]
  BY <1>1, HeadTailProperties, LenProperties
<1> HIDE DEF words
<1>4. PICK q \in L!FlagPlaces(words) : L!FlagAt(words, q)[1] = f
  BY DEF L!HasFlag, L!Args, L!ParseArgs, words
<1>5. q + 1 \in DOMAIN line /\ words[q] = line[q + 1]
  BY <1>2, <1>3, <1>4 DEF L!FlagPlaces
<1>6. CASE words[q] \in DOMAIN Assigned
  BY <1>4, <1>5, <1>6 DEF L!FlagAt, L!GivesValue
<1>7. CASE words[q] \notin DOMAIN Assigned
  BY <1>4, <1>5, <1>7 DEF L!FlagAt, L!Asked
<1> QED BY <1>6, <1>7

\* The line is carried out on a machine, with rights or without.
Ready == L!IsMachine(machine) /\ rights \in BOOLEAN

\* How a line may end.
Fine(line, r) ==
    /\ r.code \in 0..2 /\ L!IsMachine(r.pc)
    /\ L!OnlyWhatWasAsked(line, machine, r.pc, r.code)
    /\ r.code = 0 => L!CheckedIsTrue(line, r.pc)
    /\ r.code = 0 /\ ~r.lost => L!WrittenIsTrue(line, machine, r.pc)

LEMMA Endings ==
    /\ \A r \in L!Usage : r.code = 2 /\ r.pc = machine
    /\ \A r \in L!Failure : r.code = 1 /\ r.pc = machine
    /\ \A words : \A r \in L!Shows(words) : r.code = 0 /\ r.pc = machine
    /\ \A m : \A r \in L!Ok(m) : r.code = 0 /\ r.pc = m
BY DEF L!Usage, L!Failure, L!Shows, L!Ok, L!End

\* A machine that is left alone.
LEMMA LeftAlone ==
    ASSUME Ready, NEW line, NEW r, r.pc = machine, r.code \in 0..2,
           r.code = 0 => L!SuccessIsTrue(line, machine, machine)
    PROVE  Fine(line, r)
BY DEF Ready, Fine, L!OnlyWhatWasAsked, L!SuccessIsTrue

LEMMA Refuses ==
    ASSUME Ready, NEW line, NEW r \in L!Usage \cup L!Failure
    PROVE  Fine(line, r)
BY LeftAlone, Endings

\* A change that concerns neither the toggles, the packages, the processes nor the settings.
LEMMA Elsewhere ==
    ASSUME Ready, NEW line, NEW m, m.on = machine.on, m.packages = machine.packages,
           m.running = machine.running, m.settings = machine.settings
    PROVE  L!OnlyWhatWasAsked(line, machine, m, 0)
BY DEF L!OnlyWhatWasAsked

\* Commands that look at nothing they write: it is done, or comes to nothing.
LEMMA WritesFine ==
    ASSUME Ready, NEW line, NEW m, NEW r \in L!Unchecked(m),
           Head(line) \notin {"cpu", "uwp", "proc"},
           L!IsMachine(m), L!OnlyWhatWasAsked(line, machine, m, 0),
           L!WrittenIsTrue(line, machine, m)
    PROVE  Fine(line, r)
<1>1. \A is : L!CheckedIsTrue(line, is)
  BY DEF L!CheckedIsTrue, L!Line
<1>2. CASE r \in L!Ok(m)
  <2>1. r.code = 0 /\ r.pc = m
    BY <1>2, Endings
  <2> QED BY <1>1, <2>1 DEF Fine
<1>3. CASE r \in L!Lost(machine)
  <2>1. r.code = 0 /\ r.pc = machine /\ r.lost
    BY <1>3 DEF L!Lost
  <2>2. L!OnlyWhatWasAsked(line, machine, machine, 0)
    BY Elsewhere
  <2> QED BY <1>1, <2>1, <2>2 DEF Fine, Ready
<1> QED BY <1>2, <1>3 DEF L!Unchecked

\* Commands that only show something.
LEMMA ShowsFine ==
    ASSUME Ready, NEW line, NEW words, NEW r \in L!Shows(words) \cup L!Failure \cup L!Usage,
           L!SuccessIsTrue(line, machine, machine)
    PROVE  Fine(line, r)
<1>1. r.pc = machine /\ r.code \in 0..2
  BY Endings
<1> QED BY <1>1, LeftAlone

LEMMA BenchFine ==
    ASSUME Ready, NEW line, Head(line) = "bench", NEW r \in L!CmdBench(L!Args(line))
    PROVE  Fine(line, r)
<1>1. L!SuccessIsTrue(line, machine, machine)
  BY DEF L!SuccessIsTrue, L!CheckedIsTrue, L!WrittenIsTrue, L!Line
<1> QED BY <1>1, ShowsFine DEF L!CmdBench

LEMMA SvcFine ==
    ASSUME Ready, NEW line, Head(line) = "svc", NEW r \in L!CmdSvc(L!Args(line))
    PROVE  Fine(line, r)
<1>1. L!SuccessIsTrue(line, machine, machine)
  BY DEF L!SuccessIsTrue, L!CheckedIsTrue, L!WrittenIsTrue, L!Line
<1> QED BY <1>1, ShowsFine DEF L!CmdSvc

\* Commands that write, and hardly ever look.
LEMMA WuFine ==
    ASSUME Ready, NEW line, Head(line) = "wu", NEW r \in L!CmdWu(L!Args(line))
    PROVE  Fine(line, r)
<1> DEFINE a == L!Args(line)
<1>1. CASE L!Sub(a, "status") = "status"
  <2>1. L!SuccessIsTrue(line, machine, machine)
    BY <1>1 DEF L!SuccessIsTrue, L!CheckedIsTrue, L!WrittenIsTrue, L!Line, L!Sub
  <2>2. r \in L!Shows({machine.release})
    BY <1>1 DEF L!CmdWu, L!Sub
  <2> QED BY <2>1, <2>2, ShowsFine
<1>2. CASE L!Sub(a, "status") # "status" /\ r \in L!Usage \cup L!Failure
  BY <1>2, Refuses
<1>3. CASE L!Sub(a, "status") # "status" /\ r \notin L!Usage \cup L!Failure
  <2>1. PICK release \in Releases \cup {L!NoValue} :
            /\ r \in L!Unchecked([machine EXCEPT !.release = release])
            /\ L!Has(a, 1)
            /\ \/ L!Word(a, 1) = "pin" /\ release = L!Word(a, 2)
               \/ L!Word(a, 1) = "unpin" /\ release = L!NoValue
    BY <1>3 DEF L!CmdWu, L!Sub, L!IfAdmin, L!Pin, L!Usage, L!Failure
  <2>2. PICK m : m = [machine EXCEPT !.release = release]
    OBVIOUS
  <2>3. L!IsMachine(m) /\ m.release = release
    BY <2>2 DEF Ready, L!IsMachine, L!AreSettings
  <2>4. L!OnlyWhatWasAsked(line, machine, m, 0)
    BY <2>2, Elsewhere DEF Ready, L!IsMachine
  <2>5. L!WrittenIsTrue(line, machine, m)
    BY <2>1, <2>3 DEF L!WrittenIsTrue, L!Line
  <2> QED BY <2>1, <2>2, <2>3, <2>4, <2>5, WritesFine
<1> QED BY <1>1, <1>2, <1>3

LEMMA CpuFine ==
    ASSUME Ready, NEW line, Head(line) = "cpu", NEW r \in L!CmdCpu(L!Args(line))
    PROVE  Fine(line, r)
<1> DEFINE a == L!Args(line)  m == r.pc  n == L!Number(L!Word(a, 2))
<1>1. CASE r \in L!Usage \cup L!Failure
  BY <1>1, Refuses
<1>2. CASE r \in L!Shows({machine.throttle}) /\ ~L!Has(a, 2)
  <2>1. L!SuccessIsTrue(line, machine, machine)
    BY <1>2 DEF L!SuccessIsTrue, L!CheckedIsTrue, L!WrittenIsTrue, L!Line
  <2> QED BY <1>2, <2>1, ShowsFine
<1>3. CASE r \notin L!Usage \cup L!Failure /\ ~(r \in L!Shows({machine.throttle}) /\ ~L!Has(a, 2))
  <2>1. r \in L!Ok([machine EXCEPT !.throttle = n]) /\ n \in 1..100
    BY <1>3 DEF L!CmdCpu, L!IfAdmin, L!Throttle
  <2>2. r.code = 0 /\ m = [machine EXCEPT !.throttle = n]
    BY <2>1, Endings
  <2> HIDE DEF n
  <2>3. L!IsMachine(m) /\ m.throttle = n
    BY <2>1, <2>2 DEF Ready, L!IsMachine, L!AreSettings
  <2>4. L!OnlyWhatWasAsked(line, machine, m, 0)
    BY <2>2, Elsewhere DEF Ready, L!IsMachine
  <2>5. L!SuccessIsTrue(line, machine, m)
    BY <2>3 DEF L!SuccessIsTrue, L!CheckedIsTrue, L!WrittenIsTrue, L!Line, n
  <2> QED BY <2>2, <2>3, <2>4, <2>5 DEF Fine, L!SuccessIsTrue
<1> QED BY <1>1, <1>2, <1>3

LEMMA NumberType == \A w : L!Number(w) \in Int /\ L!Number("cancel") = 0
<1>1. Atoi \in [DOMAIN Atoi -> Int] /\ "cancel" \notin DOMAIN Atoi
  BY LineConstants
<1> QED BY <1>1 DEF L!Number

LEMMA TenYearsOf ==
    /\ L!TenYears \div 60 = 5256000 /\ L!TenYears \div 60 \in Int
    /\ L!TenYears \in Int /\ L!TenYears = 60 * (L!TenYears \div 60)
BY SMT DEF L!TenYears

LEMMA SecondsOfShort ==
    ASSUME NEW n \in Int, 1 <= n, n <= 5256000
    PROVE  L!Seconds(n) = 60 * n
<1>1. n \div 71582788 = 0
  BY SMT
<1>2. n % 71582788 = n
  BY SMT
<1> QED BY <1>1, <1>2, SMT DEF L!Seconds

\* Within ten years the seconds do not overflow.
LEMMA SecondsOf ==
    ASSUME NEW n \in 1..(L!TenYears \div 60)
    PROVE  L!Seconds(n) = 60 * n /\ 60 * n \in 0..L!TenYears
<1>1. n \in Int /\ 1 <= n /\ n <= L!TenYears \div 60
  BY TenYearsOf, SMT
<1>2. n <= 5256000
  BY <1>1, TenYearsOf, SMT
<1>3. L!Seconds(n) = 60 * n
  BY <1>1, <1>2, SecondsOfShort, SMT
<1>4. 60 * n \in 0..L!TenYears
  BY <1>1, TenYearsOf, SMT
<1> QED BY <1>3, <1>4

LEMMA ShutdownFine ==
    ASSUME Ready, NEW line, Head(line) = "shutdown", NEW r \in L!CmdShutdown(L!Args(line))
    PROVE  Fine(line, r)
<1> DEFINE a == L!Args(line)  n == L!Number(L!Word(a, 1))
<1>1. CASE r \in L!Usage
  BY <1>1, Refuses
<1>2. CASE r \notin L!Usage /\ L!Word(a, 1) = "cancel"
  <2>1. r \in L!Unchecked([machine EXCEPT !.timer = {}])
    BY <1>2 DEF L!CmdShutdown, L!Sub
  <2>2. PICK m : m = [machine EXCEPT !.timer = {}]
    OBVIOUS
  <2>3. L!IsMachine(m)
    BY <2>2 DEF Ready, L!IsMachine, L!AreSettings
  <2>4. L!OnlyWhatWasAsked(line, machine, m, 0)
    BY <2>2, Elsewhere DEF Ready, L!IsMachine
  <2>5. n = 0
    BY <1>2, NumberType
  <2>6. L!WrittenIsTrue(line, machine, m)
    BY <2>5 DEF L!WrittenIsTrue, L!Line
  <2> QED BY <2>1, <2>2, <2>3, <2>4, <2>6, WritesFine
<1>3. CASE r \notin L!Usage /\ L!Word(a, 1) # "cancel"
  <2>1. r \in L!Unchecked(L!Schedule(machine, L!Seconds(n)))
    BY <1>3 DEF L!CmdShutdown, L!Sub
  <2>2. PICK m : m = L!Schedule(machine, L!Seconds(n))
    OBVIOUS
  <2> HIDE DEF n
  <2>3. CASE ~(machine.timer = {} /\ L!Seconds(n) \in 0..L!TenYears)
    <3>1. m = machine
      BY <2>2, <2>3 DEF L!Schedule
    <3>2. ~(machine.timer = {} /\ n \in 1..(L!TenYears \div 60))
      BY <2>3, SecondsOf
    <3>3. L!WrittenIsTrue(line, machine, machine)
      BY <3>2 DEF L!WrittenIsTrue, L!Line, n
    <3>4. L!OnlyWhatWasAsked(line, machine, machine, 0)
      BY Elsewhere
    <3> QED BY <2>1, <2>2, <3>1, <3>3, <3>4, WritesFine DEF Ready
  <2>4. CASE machine.timer = {} /\ L!Seconds(n) \in 0..L!TenYears
    <3> DEFINE s == L!Seconds(n)
    <3>1. m = [machine EXCEPT !.timer = {s}]
      BY <2>2, <2>4 DEF L!Schedule
    <3> HIDE DEF s
    <3>2. s \in 0..L!TenYears
      BY <2>4 DEF s
    <3>3. L!IsMachine(m) /\ m.timer = {s}
      BY <3>1, <3>2 DEF Ready, L!IsMachine, L!AreSettings
    <3>4. L!OnlyWhatWasAsked(line, machine, m, 0)
      BY <3>1, Elsewhere DEF Ready, L!IsMachine
    <3>5. n \in 1..(L!TenYears \div 60) => m.timer = {60 * n}
      BY <3>3, SecondsOf DEF s
    <3>6. L!WrittenIsTrue(line, machine, m)
      BY <3>5 DEF L!WrittenIsTrue, L!Line, n
    <3> QED BY <2>1, <2>2, <3>3, <3>4, <3>6, WritesFine
  <2> QED BY <2>3, <2>4
<1> QED BY <1>1, <1>2, <1>3

LEMMA HostsFine ==
    ASSUME Ready, NEW line, Head(line) = "hosts", NEW r \in L!CmdHosts(L!Args(line))
    PROVE  Fine(line, r)
<1> DEFINE a == L!Args(line)  named == L!Listed(line)
<1>1. CASE r \in L!Usage \cup L!Failure
  BY <1>1, Refuses
<1>2. CASE r \notin L!Usage \cup L!Failure /\ L!Word(a, 1) = "list"
  <2>1. r \in L!Shows(machine.domains)
    BY <1>2 DEF L!CmdHosts, L!Sub
  <2>2. L!SuccessIsTrue(line, machine, machine)
    BY <1>2 DEF L!SuccessIsTrue, L!CheckedIsTrue, L!WrittenIsTrue, L!Line
  <2> QED BY <2>1, <2>2, ShowsFine
<1>3. CASE r \notin L!Usage \cup L!Failure /\ L!Word(a, 1) # "list"
  <2>1. PICK ds : /\ r \in L!Unchecked([machine EXCEPT !.domains = ds]) /\ ds \cap Unblockable = {}
                  /\ \/ L!Word(a, 1) = "ban" /\ ds = machine.domains \cup named
                     \/ L!Word(a, 1) = "unban" /\ ds = machine.domains \ named
                     \/ L!Word(a, 1) = "clear" /\ ds = {}
    BY <1>3 DEF L!CmdHosts, L!Sub, L!Block, L!IfAdmin, L!Listed
  <2>2. PICK m : m = [machine EXCEPT !.domains = ds]
    OBVIOUS
  <2> HIDE DEF named
  <2>3. L!IsMachine(m) /\ m.domains = ds
    BY <2>1, <2>2 DEF Ready, L!IsMachine, L!AreSettings
  <2>4. L!OnlyWhatWasAsked(line, machine, m, 0)
    BY <2>2, Elsewhere DEF Ready, L!IsMachine
  <2>5. L!WrittenIsTrue(line, machine, m)
    BY <2>1, <2>3 DEF L!WrittenIsTrue, L!Line, named
  <2> QED BY <2>1, <2>2, <2>3, <2>4, <2>5, WritesFine
<1> QED BY <1>1, <1>2, <1>3

LEMMA AppsFine ==
    ASSUME Ready, NEW line, Head(line) = "apps", NEW r \in L!CmdApps(L!Args(line))
    PROVE  Fine(line, r)
<1> DEFINE a == L!Args(line)  named == L!Listed(line)
<1>1. CASE r \in L!Usage \cup L!Failure
  BY <1>1, Refuses
<1>2. CASE r \notin L!Usage \cup L!Failure
  <2>1. PICK names : /\ r \in L!Unchecked([machine EXCEPT !.apps = names]) /\ names \cap Unblockable = {}
                     /\ L!Word(a, 1) = "block" => names = named
    BY <1>2 DEF L!CmdApps, L!Sub, L!ApplyProcessBlockList, L!Listed
  <2>2. PICK m : m = [machine EXCEPT !.apps = names]
    OBVIOUS
  <2> HIDE DEF named
  <2>3. L!IsMachine(m) /\ m.apps = names
    BY <2>1, <2>2 DEF Ready, L!IsMachine, L!AreSettings
  <2>4. L!OnlyWhatWasAsked(line, machine, m, 0)
    BY <2>2, Elsewhere DEF Ready, L!IsMachine
  <2>5. L!WrittenIsTrue(line, machine, m)
    BY <2>1, <2>3 DEF L!WrittenIsTrue, L!Line, named
  <2> QED BY <2>1, <2>2, <2>3, <2>4, <2>5, WritesFine
<1> QED BY <1>1, <1>2

LEMMA AnalyticsFine ==
    ASSUME Ready, NEW line, Head(line) = "analytics", NEW r \in L!CmdAnalytics(L!Args(line))
    PROVE  Fine(line, r)
<1> DEFINE a == L!Args(line)
<1>1. CASE r \in L!Usage
  BY <1>1, Refuses
<1>2. CASE r \notin L!Usage /\ L!Sub(a, "status") = "status"
  <2>1. r \in L!Shows({machine.consent})
    BY <1>2 DEF L!CmdAnalytics, L!Sub, L!Answer
  <2>2. L!SuccessIsTrue(line, machine, machine)
    BY DEF L!SuccessIsTrue, L!CheckedIsTrue, L!WrittenIsTrue, L!Line
  <2> QED BY <2>1, <2>2, ShowsFine
<1>3. CASE r \notin L!Usage /\ L!Sub(a, "status") # "status"
  <2>1. PICK c : /\ r \in L!Unchecked([machine EXCEPT !.consent = c])
                 /\ c \in {"unknown", "granted", "declined"}
    <3>1. L!Word(a, 1) \in DOMAIN L!Answer
          /\ r \in L!Unchecked([machine EXCEPT !.consent = L!Answer[L!Word(a, 1)]])
      BY <1>3 DEF L!CmdAnalytics, L!Sub
    <3>2. \A w \in DOMAIN L!Answer : L!Answer[w] \in {"unknown", "granted", "declined"}
      BY DEF L!Answer
    <3> QED BY <3>1, <3>2
  <2>2. PICK m : m = [machine EXCEPT !.consent = c]
    OBVIOUS
  <2>3. L!IsMachine(m)
    BY <2>1, <2>2 DEF Ready, L!IsMachine, L!AreSettings
  <2>4. L!OnlyWhatWasAsked(line, machine, m, 0)
    BY <2>2, Elsewhere DEF Ready, L!IsMachine
  <2>5. L!WrittenIsTrue(line, machine, m)
    BY DEF L!WrittenIsTrue, L!Line
  <2> QED BY <2>1, <2>2, <2>3, <2>4, <2>5, WritesFine
<1> QED BY <1>1, <1>2, <1>3

\* A word that a command reads stands in the line.
LEMMA WordAsked ==
    ASSUME NEW line \in Lines, NEW n \in Nat \ {0}, L!Has(L!Args(line), n)
    PROVE  L!Asked(line, L!Word(L!Args(line), n))
<1> DEFINE p == L!Args(line).positional
<1>1. Len(p) \in Nat /\ \A k \in 1..Len(p) : L!Asked(line, p[k])
  BY LineWords
<1>2. Len(p) >= n
  BY DEF L!Has
<1> HIDE DEF p
<1>3. L!Asked(line, p[n])
  BY <1>1, <1>2
<1> QED BY <1>3 DEF p, L!Word

\* FindTweak.
LEMMA Found ==
    ASSUME NEW id, L!Known(id)
    PROVE  /\ L!Find(id) \in Table /\ L!Find(id).id = id /\ id \notin DOMAIN Pieces
           /\ L!Find(id).kind \in {"toggle", "action"}
           /\ \A t \in Table : t.id = id => t = L!Find(id)
<1>1. PICK t \in Table : t.id = id
  BY DEF L!Known
<1>2. L!Find(id) \in Table /\ L!Find(id).id = id
  BY <1>1 DEF L!Find
<1>3. /\ \A s, u \in Table : s.id = u.id => s = u
      /\ {u.id : u \in Table} \cap DOMAIN Pieces = {}
      /\ \A u \in Table : u.kind \in {"toggle", "action"}
  BY LineConstants
<1> QED BY <1>2, <1>3

LEMMA SplitPart ==
    ASSUME NEW line, NEW w, L!Asked(line, w), NEW id \in L!Split(w)
    PROVE  id \in L!Parts(line)
BY DEF L!Asked, L!Parts

LEMMA IdPart ==
    ASSUME NEW line, NEW id, L!Known(id), L!Asked(line, id)
    PROVE  id \in L!Parts(line)
BY Found, SplitPart DEF L!Split

LEMMA TweakFine ==
    ASSUME Ready, NEW line \in Lines, Head(line) = "tweak", NEW r \in L!CmdTweak(L!Args(line))
    PROVE  Fine(line, r)
<1> DEFINE a == L!Args(line)  id == L!Word(a, 2)  t == L!Find(id)
           b == L!Word(a, 3) \in L!OnWords
<1>1. CASE r \in L!Usage \cup L!Failure
  BY <1>1, Refuses
<1>2. CASE r \notin L!Usage \cup L!Failure /\ L!Word(a, 1) \in {"pages", "list", "get"}
  <2>1. PICK words : r \in L!Shows(words)
    BY <1>2 DEF L!CmdTweak, L!Sub, L!CmdTweakOn
  <2>2. L!SuccessIsTrue(line, machine, machine)
    BY <1>2 DEF L!SuccessIsTrue, L!CheckedIsTrue, L!WrittenIsTrue, L!Line
  <2> QED BY <2>1, <2>2, ShowsFine
<1>3. CASE r \notin L!Usage \cup L!Failure /\ L!Word(a, 1) \notin {"pages", "list", "get"}
  <2>1. /\ L!Has(a, 2) /\ L!Known(id) /\ ~(t.needsAdmin /\ ~rights)
        /\ \/ L!Word(a, 1) = "set" /\ t.kind = "toggle" /\ r \in L!Apply(t, b)
           \/ L!Word(a, 1) = "run" /\ t.kind = "action" /\ r \in L!Apply(t, TRUE)
    BY <1>3 DEF L!CmdTweak, L!Sub, L!CmdTweakOn
  <2>2. t \in Table /\ t.id = id
    BY <2>1, Found
  <2>3. L!Asked(line, id)
    BY <2>1, WordAsked
  <2>4. id \in L!Parts(line)
    BY <2>1, <2>3, IdPart
  <2> HIDE DEF t, id
  <2>5. CASE L!Word(a, 1) = "set" /\ t.kind = "toggle" /\ r \in L!Apply(t, b)
    <3>1. PICK v : v = b /\ v \in BOOLEAN
      <4>1. b \in BOOLEAN
        OBVIOUS
      <4> QED BY <4>1, Zenon
    <3>2. r \in L!Unchecked([machine EXCEPT !.on[id] = v])
      BY <2>1, <2>2, <2>5, <3>1 DEF L!Apply
    <3>3. PICK m : m = [machine EXCEPT !.on[id] = v]
      OBVIOUS
    <3>4. id \in DOMAIN machine.on
      BY <2>2, <2>5 DEF Ready, L!IsMachine
    <3> HIDE DEF b
    <3>5. L!IsMachine(m) /\ m.on = [machine.on EXCEPT ![id] = v]
      BY <3>1, <3>3, <3>4 DEF Ready, L!IsMachine, L!AreSettings
    <3>6. L!OnlyWhatWasAsked(line, machine, m, 0)
      BY <2>4, <3>3 DEF Ready, L!IsMachine, L!OnlyWhatWasAsked
    <3>7. L!WrittenIsTrue(line, machine, m)
      <4>1. m.on[id] = v
        BY <3>4, <3>5
      <4> QED BY <2>5, <3>1, <4>1 DEF L!WrittenIsTrue, L!Line, b, id
    <3> QED BY <3>2, <3>3, <3>5, <3>6, <3>7, WritesFine
  <2>6. CASE L!Word(a, 1) = "run" /\ t.kind = "action" /\ r \in L!Apply(t, TRUE)
    <3>1. r \in L!Unchecked([machine EXCEPT !.ran = @ \cup {id}])
      BY <2>1, <2>2, <2>6 DEF L!Apply
    <3>2. PICK m : m = [machine EXCEPT !.ran = @ \cup {id}]
      OBVIOUS
    <3>3. L!IsMachine(m) /\ m.ran = machine.ran \cup {id}
      BY <3>2 DEF Ready, L!IsMachine, L!AreSettings
    <3>4. L!OnlyWhatWasAsked(line, machine, m, 0)
      BY <3>2, Elsewhere DEF Ready, L!IsMachine
    <3>5. L!WrittenIsTrue(line, machine, m)
      <4>1. id \in m.ran
        BY <3>3
      <4>2. L!Word(L!Args(line), 1) = "run"
        BY <2>6
      <4>3. L!Word(L!Args(line), 2) \in m.ran
        BY <4>1 DEF id
      <4> QED BY <4>2, <4>3 DEF L!WrittenIsTrue, L!Line
    <3> QED BY <3>1, <3>2, <3>3, <3>4, <3>5, WritesFine
  <2> QED BY <2>1, <2>5, <2>6
<1> QED BY <1>1, <1>2, <1>3

LEMMA ProcFine ==
    ASSUME Ready, NEW line \in Lines, Head(line) = "proc", NEW r \in L!CmdProc(L!Args(line))
    PROVE  Fine(line, r)
<1> DEFINE a == L!Args(line)  m == r.pc  w == L!Word(a, 2)
           named == IF w \in Digits THEN {p \in machine.running : p.pid = L!Number(w)}
                                    ELSE {p \in machine.running : p.name = w}
           ended == L!Ended(named)
<1>1. CASE r \in L!Usage \cup L!Failure
  BY <1>1, Refuses
<1>2. CASE r \notin L!Usage \cup L!Failure /\ L!Word(a, 1) = "list"
  <2>1. PICK words : r \in L!Shows(words)
    BY <1>2 DEF L!CmdProc, L!Sub
  <2>2. L!SuccessIsTrue(line, machine, machine)
    BY <1>2 DEF L!SuccessIsTrue, L!CheckedIsTrue, L!WrittenIsTrue, L!Line
  <2> QED BY <2>1, <2>2, ShowsFine
<1>3. CASE r \notin L!Usage \cup L!Failure /\ L!Word(a, 1) # "list"
  <2>1. /\ L!Has(a, 2) /\ L!Word(a, 1) = "kill"
        /\ r \in L!Ok([machine EXCEPT !.running = @ \ ended])
        /\ w \in Digits => ended # {}
    BY <1>3 DEF L!CmdProc, L!Sub
  <2>2. L!Asked(line, w)
    BY <2>1, WordAsked
  <2>3. r.code = 0 /\ m = [machine EXCEPT !.running = @ \ ended]
    BY <2>1, Endings
  <2>4. \A p \in ended : p \in machine.running /\ (p.name = w \/ (w \in Digits /\ L!Number(w) = p.pid))
    BY DEF L!Ended
  <2>5. \A p \in machine.running \ ended : w \in Digits => p.pid # L!Number(w)
    <3>1. SUFFICES ASSUME NEW p \in machine.running \ ended, w \in Digits, p.pid = L!Number(w)
                   PROVE  FALSE
      OBVIOUS
    <3>2. PICK q \in ended : q \in machine.running /\ q.pid = p.pid
      BY <2>1, <3>1 DEF L!Ended
    <3>3. p = q
      BY <3>1, <3>2 DEF Ready, L!IsMachine
    <3> QED BY <3>1, <3>2, <3>3
  <2> HIDE DEF ended, named, w
  <2>6. L!IsMachine(m) /\ m.running = machine.running \ ended
    BY <2>3 DEF Ready, L!IsMachine, L!AreSettings
  <2>7. L!OnlyWhatWasAsked(line, machine, m, 0)
    <3>1. m.on = machine.on /\ m.packages = machine.packages /\ m.settings = machine.settings
      BY <2>3 DEF Ready, L!IsMachine
    <3>2. \A p \in machine.running \ m.running : \E i \in DOMAIN line :
              line[i] = p.name \/ (line[i] \in Digits /\ L!Number(line[i]) = p.pid)
      BY <2>2, <2>4, <2>6 DEF L!Asked
    <3> QED BY <3>1, <3>2 DEF L!OnlyWhatWasAsked
  <2>8. L!SuccessIsTrue(line, machine, m)
    BY <2>5, <2>6 DEF L!SuccessIsTrue, L!CheckedIsTrue, L!WrittenIsTrue, L!Line, w
  <2> QED BY <2>3, <2>6, <2>7, <2>8 DEF Fine, L!SuccessIsTrue
<1> QED BY <1>1, <1>2, <1>3

LEMMA UwpFine ==
    ASSUME Ready, NEW line \in Lines, Head(line) = "uwp", NEW r \in L!CmdUwp(L!Args(line))
    PROVE  Fine(line, r)
<1> DEFINE a == L!Args(line)  m == r.pc  p == a.positional  names == Tail(p)
<1>1. CASE r \in L!Usage \cup L!Failure
  BY <1>1, Refuses
<1>2. CASE r \notin L!Usage \cup L!Failure /\ L!Sub(a, "") = "list"
  <2>1. PICK words : r \in L!Shows(words)
    BY <1>2 DEF L!CmdUwp
  <2>2. L!SuccessIsTrue(line, machine, machine)
    BY <1>2 DEF L!SuccessIsTrue, L!CheckedIsTrue, L!WrittenIsTrue, L!Line, L!Sub
  <2> QED BY <2>1, <2>2, ShowsFine
<1>3. CASE r \notin L!Usage \cup L!Failure /\ L!Sub(a, "") # "list"
  <2>1. /\ L!Has(a, 1) /\ L!Word(a, 1) = "remove" /\ names # <<>> /\ L!HasFlag(a, "--yes")
        /\ r \in L!RemovePackages(names)
    BY <1>3 DEF L!CmdUwp, L!Sub
  <2>2. PICK gone \in SUBSET (L!Range(names) \cap machine.packages) :
            /\ r.code = IF names[Len(names)] \in gone THEN 0 ELSE 1
            /\ m = [machine EXCEPT !.packages = @ \ gone]
    <3>1. PICK gone \in SUBSET (L!Range(names) \cap machine.packages) :
              r = [code |-> IF names[Len(names)] \in gone THEN 0 ELSE 1,
                   pc |-> [machine EXCEPT !.packages = @ \ gone], out |-> {}, lost |-> FALSE]
      BY <2>1, Zenon DEF L!RemovePackages
    <3> HIDE DEF names
    <3> QED BY <3>1
  <2> HIDE DEF a
  <2>3. /\ Len(p) \in Nat /\ p \in Seq({p[k] : k \in 1..Len(p)})
        /\ \A k \in 1..Len(p) : L!Asked(line, p[k])
    BY LineWords DEF a
  <2>4. Len(p) >= 1
    BY <2>1 DEF L!Has
  <2>5. PICK S : p \in Seq(S) /\ p # <<>>
    BY <2>3, <2>4, LenProperties, EmptySeq
  <2>6. /\ names \in Seq(S) /\ Len(names) = Len(p) - 1
        /\ \A q \in 1..Len(names) : names[q] = p[q + 1]
    BY <2>5, HeadTailProperties
  <2> HIDE DEF names, p
  <2>7. DOMAIN names = 1..Len(names) /\ Len(names) \in Nat \ {0}
    BY <2>1, <2>6, LenProperties, EmptySeq
  <2>8. \A x \in L!Range(names) : L!Asked(line, x)
    <3>1. SUFFICES ASSUME NEW q \in 1..Len(names) PROVE L!Asked(line, names[q])
      BY <2>7 DEF L!Range
    <3>2. q + 1 \in 1..Len(p)
      BY <2>3, <2>6, <2>7
    <3> QED BY <2>3, <2>6, <3>2
  <2>9. L!Last(p) = names[Len(names)]
    BY <2>3, <2>6, <2>7 DEF L!Last
  <2>10. L!IsMachine(m) /\ m.packages = machine.packages \ gone
    BY <2>2 DEF Ready, L!IsMachine, L!AreSettings
  <2>11. L!OnlyWhatWasAsked(line, machine, m, r.code)
    <3>1. L!Asked(line, "remove")
      BY <2>1, <2>3, <2>4 DEF L!Word, p
    <3>2. L!Asked(line, "--yes") \/ L!GivesValue(line, "--yes")
      BY <2>1, FlagAsked DEF a
    <3>3. m.on = machine.on /\ m.running = machine.running /\ m.settings = machine.settings
      BY <2>2 DEF Ready, L!IsMachine
    <3>4. r.code # 2
      BY <2>2
    <3> QED BY <2>2, <2>8, <2>10, <3>1, <3>2, <3>3, <3>4 DEF L!OnlyWhatWasAsked
  <2>12. r.code = 0 => L!SuccessIsTrue(line, machine, m)
    <3>1. r.code = 0 => L!Last(p) \notin m.packages
      BY <2>2, <2>9, <2>10
    <3> QED BY <3>1 DEF L!SuccessIsTrue, L!CheckedIsTrue, L!WrittenIsTrue, L!Line, a, p
  <2> QED BY <2>2, <2>10, <2>11, <2>12 DEF Fine, L!SuccessIsTrue
<1> QED BY <1>1, <1>2, <1>3

\* ApplySettingValue has one branch for a key.
LEMMA KeysApart == \A k \in DOMAIN L!Limits : k \notin L!Bools \cup {"disableTelemetry", "theme"}
BY DEF L!Limits, L!Bools

LEMMA SettingValue ==
    ASSUME NEW key, NEW w, L!Accepts(key, w)
    PROVE  /\ key \in L!Bools => L!Value(key, w) \in BOOLEAN
           /\ key \in DOMAIN L!Limits => L!Value(key, w) \in L!Limits[key]
<1>1. CASE key \in L!Bools
  <2>1. key \notin DOMAIN L!Limits
    BY <1>1, KeysApart
  <2>2. L!Value(key, w) = (w \in L!OnWords)
    BY <1>1, <2>1 DEF L!Value
  <2>3. (w \in L!OnWords) \in BOOLEAN
    OBVIOUS
  <2>4. L!Value(key, w) \in BOOLEAN
    BY <2>2, <2>3, Zenon
  <2> QED BY <2>1, <2>4
<1>2. CASE key \in DOMAIN L!Limits
  <2>1. key \notin L!Bools \cup {"disableTelemetry", "theme"}
    BY <1>2, KeysApart
  <2>2. L!Value(key, w) = L!Number(w)
    BY <1>2, <2>1 DEF L!Value
  <2>3. L!Number(w) \in L!Limits[key]
    BY <1>2, <2>1 DEF L!Accepts
  <2> QED BY <2>1, <2>2, <2>3
<1> QED BY <1>1, <1>2

LEMMA SettingsFine ==
    ASSUME Ready, NEW line \in Lines, Head(line) = "settings", NEW r \in L!CmdSettings(L!Args(line))
    PROVE  Fine(line, r)
<1> DEFINE a == L!Args(line)  key == L!Word(a, 2)  w == L!Word(a, 3)
<1>1. CASE r \in L!Usage
  BY <1>1, Refuses
<1>2. CASE r \notin L!Usage /\ (L!Sub(a, "list") = "list" \/ L!Sub(a, "") = "get")
  <2>1. PICK words : r \in L!Shows(words)
    BY <1>2 DEF L!CmdSettings, L!Sub
  <2>2. L!SuccessIsTrue(line, machine, machine)
    BY <1>2 DEF L!SuccessIsTrue, L!CheckedIsTrue, L!WrittenIsTrue, L!Line, L!Sub
  <2> QED BY <2>1, <2>2, ShowsFine
<1>3. CASE r \notin L!Usage /\ ~(L!Sub(a, "list") = "list" \/ L!Sub(a, "") = "get")
  <2>1. /\ L!Has(a, 3) /\ L!Accepts(key, w)
        /\ r \in L!Unchecked(L!ApplySettingValue(key, w))
    BY <1>3 DEF L!CmdSettings, L!Sub
  <2>2. L!Asked(line, key)
    <3>1. Len(a.positional) \in Nat
      BY LineWords
    <3>2. L!Has(a, 2)
      BY <2>1, <3>1 DEF L!Has
    <3> QED BY <3>2, WordAsked
  <2>3. PICK m : m = L!ApplySettingValue(key, w)
    OBVIOUS
  <2> HIDE DEF key, w
  <2>4. CASE key \notin L!Keys
    <3>1. m = machine
      BY <2>3, <2>4 DEF L!ApplySettingValue
    <3>2. L!WrittenIsTrue(line, machine, machine)
      BY <2>4 DEF L!WrittenIsTrue, L!Line, key
    <3>3. L!OnlyWhatWasAsked(line, machine, machine, 0)
      BY Elsewhere
    <3> QED BY <2>1, <2>3, <3>1, <3>2, <3>3, WritesFine DEF Ready
  <2>5. CASE key \in L!Keys
    <3> DEFINE v == L!Value(key, w)
    <3>1. m = [machine EXCEPT !.settings[key] = v]
      BY <2>3, <2>5 DEF L!ApplySettingValue
    <3>2. key \in L!Bools => v \in BOOLEAN
      BY <2>1, SettingValue
    <3>3. key \in DOMAIN L!Limits => v \in L!Limits[key] /\ key \notin L!Bools
      BY <2>1, SettingValue, KeysApart
    <3> HIDE DEF v
    <3>4. key \in DOMAIN machine.settings
      BY <2>5 DEF Ready, L!IsMachine, L!AreSettings
    <3>5. m.settings = [machine.settings EXCEPT ![key] = v]
      BY <3>1, <3>4 DEF Ready, L!IsMachine
    <3>6. L!AreSettings(m.settings)
      BY <3>2, <3>3, <3>4, <3>5 DEF Ready, L!IsMachine, L!AreSettings
    <3>7. L!IsMachine(m)
      BY <3>1, <3>6 DEF Ready, L!IsMachine
    <3>8. L!OnlyWhatWasAsked(line, machine, m, 0)
      <4>1. m.on = machine.on /\ m.running = machine.running /\ m.packages = machine.packages
        BY <3>1 DEF Ready, L!IsMachine
      <4>2. \A k \in L!Keys : m.settings[k] # machine.settings[k] => L!Asked(line, k)
        BY <2>2, <3>4, <3>5 DEF Ready, L!IsMachine, L!AreSettings
      <4> QED BY <4>1, <4>2 DEF L!OnlyWhatWasAsked
    <3>9. L!WrittenIsTrue(line, machine, m)
      <4>1. m.settings[key] = v
        BY <3>4, <3>5
      <4> QED BY <4>1 DEF L!WrittenIsTrue, L!Line, v, key, w
    <3> QED BY <2>1, <2>3, <3>7, <3>8, <3>9, WritesFine
  <2> QED BY <2>4, <2>5
<1> QED BY <1>1, <1>2, <1>3

\* Preset apply fails when one of its ids is refused, whatever became of the others.
LEMMA PresetEnds ==
    ASSUME NEW a, NEW r \in L!PresetApply(a)
    PROVE  r.code = IF \E id \in L!PresetIds(a) : L!Refused(id) THEN 1 ELSE 0
<1> DEFINE code == IF \E id \in L!PresetIds(a) : L!Refused(id) THEN 1 ELSE 0
<1>1. PICK is, gone : r = [code |-> code, pc |-> is, out |-> {}, lost |-> gone]
  BY Zenon DEF L!PresetApply
<1> HIDE DEF code
<1>2. r.code = code
  BY <1>1
<1> QED BY <1>2 DEF code

\* What preset apply turns on is what it goes through, and what it does not is refused
\* or of another build.
LEMMA AppliesFine ==
    ASSUME Ready, NEW line \in Lines, Head(line) = "preset",
           L!Word(L!Args(line), 1) = "apply", L!Asked(line, "apply"),
           NEW r \in L!PresetApply(L!Args(line))
    PROVE  Fine(line, r)
<1> DEFINE a == L!Args(line)  m == r.pc  ids == L!PresetIds(a)
           done == {L!Find(id) : id \in {i \in ids : L!Applied(i)}}
<1>0. PICK made \in SUBSET done :
          r = [code |-> IF \E id \in ids : L!Refused(id) THEN 1 ELSE 0,
               pc |-> [machine EXCEPT
                         !.on = [id \in DOMAIN @ |-> @[id] \/ \E t \in made : t.id = id],
                         !.ran = @ \cup {t.id : t \in {u \in made : u.kind = "action"}}],
               out |-> {}, lost |-> made # done]
  BY Zenon DEF L!PresetApply
<1> DEFINE ran == machine.ran \cup {t.id : t \in {u \in made : u.kind = "action"}}
           on == [id \in DOMAIN machine.on |-> machine.on[id] \/ \E t \in made : t.id = id]
<1>1. /\ r.code = IF \E id \in ids : L!Refused(id) THEN 1 ELSE 0
      /\ m = [machine EXCEPT !.on = on, !.ran = ran]
      /\ ~r.lost => made = done
  <2> HIDE DEF done, ids
  <2>1. r.lost = (made # done)
    BY <1>0
  <2>2. ~r.lost => made = done
    BY <2>1, Zenon
  <2> QED BY <1>0, <2>2 DEF Ready, L!IsMachine
<1>2. \A id \in ids : id \in L!Parts(line) \/ id \in L!Range(Quick)
  <2>1. CASE L!Has(a, 2) /\ L!Word(a, 2) # "quick"
    <3>1. L!Asked(line, L!Word(a, 2))
      BY <2>1, WordAsked
    <3>2. ids = L!Split(L!Word(a, 2))
      BY <2>1 DEF L!PresetIds
    <3> QED BY <3>1, <3>2, SplitPart
  <2>2. CASE ~(L!Has(a, 2) /\ L!Word(a, 2) # "quick")
    BY <2>2 DEF L!PresetIds
  <2> QED BY <2>1, <2>2
<1>3. \A t \in done : t \in Table /\ t.id \in ids
  BY Found DEF L!Applied
<1>4. \A t \in Table : t.id \in ids /\ t.available /\ ~L!Refused(t.id) => t \in done
  <2>1. SUFFICES ASSUME NEW t \in Table, t.id \in ids, t.available, ~L!Refused(t.id)
                 PROVE  t \in done
    OBVIOUS
  <2>2. L!Known(t.id)
    BY DEF L!Known
  <2>3. L!Find(t.id) = t
    BY <2>2, Found
  <2>4. L!Applied(t.id)
    BY <2>1, <2>2, <2>3 DEF L!Applied, L!Refused
  <2> QED BY <2>1, <2>3, <2>4
<1> HIDE DEF ids, done
<1>5. /\ DOMAIN on = DOMAIN machine.on
      /\ \A id \in DOMAIN on : on[id] \in BOOLEAN
      /\ \A id \in DOMAIN on : on[id] # machine.on[id] => \E t \in made : t.id = id
      /\ \A id \in DOMAIN on : (\E t \in made : t.id = id) => on[id]
  <2>1. \A id \in DOMAIN machine.on : machine.on[id] \in BOOLEAN
    BY DEF Ready, L!IsMachine
  <2>2. DOMAIN on = DOMAIN machine.on
    OBVIOUS
  <2>3. ASSUME NEW id \in DOMAIN machine.on
        PROVE  /\ on[id] \in BOOLEAN
               /\ on[id] # machine.on[id] => \E t \in made : t.id = id
               /\ (\E t \in made : t.id = id) => on[id]
    <3>1. on[id] = (machine.on[id] \/ \E t \in made : t.id = id)
      OBVIOUS
    <3> HIDE DEF on
    <3>2. CASE \E t \in made : t.id = id
      <4>1. on[id] = TRUE
        BY <3>1, <3>2, Zenon
      <4> QED BY <3>2, <4>1
    <3>3. CASE ~\E t \in made : t.id = id
      <4>1. machine.on[id] \in BOOLEAN
        BY <2>1
      <4>2. on[id] = machine.on[id]
        BY <3>1, <3>3, <4>1
      <4> QED BY <3>3, <4>1, <4>2
    <3> QED BY <3>2, <3>3
  <2> HIDE DEF on
  <2> QED BY <2>2, <2>3
<1>6. \A t \in made : t.kind = "action" => t.id \in ran
  OBVIOUS
<1> HIDE DEF on, ran, m
<1>7. m.on = on /\ m.ran = ran
  BY <1>1 DEF Ready, L!IsMachine
<1>8. L!IsMachine(m)
  BY <1>1, <1>5, <1>7 DEF Ready, L!IsMachine, L!AreSettings
<1>9. L!OnlyWhatWasAsked(line, machine, m, r.code)
  <2>1. m.packages = machine.packages /\ m.running = machine.running /\ m.settings = machine.settings
    BY <1>1 DEF Ready, L!IsMachine
  <2>2. \A id \in DOMAIN machine.on : m.on[id] # machine.on[id] =>
            id \in L!Parts(line) \/ id \in L!Range(Quick)
    BY <1>0, <1>2, <1>3, <1>5, <1>7
  <2>3. r.code # 2
    BY <1>1
  <2> QED BY <2>1, <2>2, <2>3 DEF L!OnlyWhatWasAsked
<1>10. r.code = 0 /\ ~r.lost => L!WrittenIsTrue(line, machine, m)
  <2>1. SUFFICES ASSUME r.code = 0, ~r.lost PROVE L!WrittenIsTrue(line, machine, m)
    OBVIOUS
  <2>2. \A id \in ids : ~L!Refused(id)
    BY <1>1, <2>1
  <2>3. \A t \in Table : t.id \in ids /\ t.available =>
            IF t.kind = "toggle" THEN m.on[t.id] ELSE t.id \in m.ran
    <3>1. SUFFICES ASSUME NEW t \in Table, t.id \in ids, t.available
                   PROVE  IF t.kind = "toggle" THEN m.on[t.id] ELSE t.id \in m.ran
      OBVIOUS
    <3>2. t \in made /\ t.kind \in {"toggle", "action"}
      <4>1. t.kind \in {"toggle", "action"}
        BY LineConstants
      <4> QED BY <1>1, <1>4, <2>1, <2>2, <3>1, <4>1
    <3>3. t.kind = "toggle" => t.id \in DOMAIN machine.on
      BY DEF Ready, L!IsMachine
    <3> QED BY <1>5, <1>6, <1>7, <3>2, <3>3
  <2> QED BY <2>3 DEF L!WrittenIsTrue, L!Line, ids
<1>11. L!CheckedIsTrue(line, m)
  BY DEF L!CheckedIsTrue, L!Line
<1> QED BY <1>1, <1>8, <1>9, <1>10, <1>11 DEF Fine, m

LEMMA PresetFine ==
    ASSUME Ready, NEW line \in Lines, Head(line) = "preset", NEW r \in L!CmdPreset(L!Args(line))
    PROVE  Fine(line, r)
<1> DEFINE a == L!Args(line)  m == r.pc
<1>1. CASE r \in L!Usage \cup L!Failure
  BY <1>1, Refuses
<1>2. CASE r \notin L!Usage \cup L!Failure
  <2>1. L!Has(a, 1) /\ L!Word(a, 1) \in {"quick", "apply", "export", "import"}
    BY <1>2 DEF L!CmdPreset, L!Sub
  <2>2. L!Asked(line, L!Word(a, 1))
    BY <2>1, WordAsked
  <2>3. CASE L!Word(a, 1) = "quick"
    <3>1. PICK words : r \in L!Shows(words)
      BY <2>1, <2>3 DEF L!CmdPreset, L!Sub
    <3>2. L!SuccessIsTrue(line, machine, machine)
      BY <2>3 DEF L!SuccessIsTrue, L!CheckedIsTrue, L!WrittenIsTrue, L!Line
    <3> QED BY <3>1, <3>2, ShowsFine
  <2>4. CASE L!Word(a, 1) = "apply"
    <3>1. r \in L!PresetApply(a)
      BY <2>1, <2>4 DEF L!CmdPreset, L!Sub
    <3> QED BY <2>2, <2>4, <3>1, AppliesFine
  <2>5. CASE L!Word(a, 1) = "export"
    <3> DEFINE saved == [k \in L!PresetKeys |-> Installed[k]]
    <3>1. PICK kept : /\ kept = {saved} \/ kept = {}
                      /\ r.code = 0 /\ m = [machine EXCEPT !.preset = kept]
      BY <1>2, <2>1, <2>5 DEF L!CmdPreset, L!Sub, L!Export, L!Ok, L!End, L!Lost
    <3>2. \A k \in L!PresetKeys \cap L!Bools : saved[k] \in BOOLEAN
      BY LineConstants DEF L!AreSettings
    <3> HIDE DEF saved
    <3>3. L!IsMachine(m)
      BY <3>1, <3>2 DEF Ready, L!IsMachine, L!AreSettings
    <3>4. L!OnlyWhatWasAsked(line, machine, m, 0)
      BY <3>1, Elsewhere DEF Ready, L!IsMachine
    <3>5. L!CheckedIsTrue(line, m) /\ L!WrittenIsTrue(line, machine, m)
      BY <2>5 DEF L!CheckedIsTrue, L!WrittenIsTrue, L!Line
    <3> QED BY <3>1, <3>3, <3>4, <3>5 DEF Fine
  <2>6. CASE L!Word(a, 1) = "import"
    <3>1. PICK saved \in machine.preset : r \in L!Unchecked(L!Import(saved))
      BY <1>2, <2>1, <2>6 DEF L!CmdPreset, L!Sub
    <3> DEFINE s == [k \in L!Keys |-> IF k \in L!PresetKeys THEN saved[k] ELSE Installed[k]]
    <3>2. PICK is : /\ is = L!Import(saved)
                    /\ is = [machine EXCEPT !.settings = s, !.consent = "unknown"]
      BY DEF L!Import
    <3>3. L!AreSettings(s)
      <4>1. \A k \in L!PresetKeys \cap L!Bools : saved[k] \in BOOLEAN
        BY <3>1 DEF Ready, L!IsMachine
      <4>2. L!AreSettings(Installed)
        BY LineConstants
      <4>3. L!Bools \subseteq L!Keys /\ DOMAIN L!Limits \subseteq L!Keys
        BY DEF L!Keys
      <4>4. \A k \in DOMAIN L!Limits : k \notin L!PresetKeys
        BY DEF L!Limits, L!PresetKeys
      <4>5. \A k \in L!Bools : s[k] \in BOOLEAN
        BY <4>1, <4>2, <4>3 DEF L!AreSettings
      <4>6. \A k \in DOMAIN L!Limits : s[k] \in L!Limits[k]
        BY <4>2, <4>3, <4>4 DEF L!AreSettings
      <4>7. DOMAIN s = L!Keys
        OBVIOUS
      <4> HIDE DEF s
      <4> QED BY <4>5, <4>6, <4>7 DEF L!AreSettings
    <3> HIDE DEF s
    <3>4. L!IsMachine(is)
      BY <3>2, <3>3 DEF Ready, L!IsMachine
    <3>5. L!OnlyWhatWasAsked(line, machine, is, 0)
      <4>1. is.on = machine.on /\ is.running = machine.running /\ is.packages = machine.packages
        BY <3>2 DEF Ready, L!IsMachine
      <4> QED BY <2>2, <2>6, <4>1 DEF L!OnlyWhatWasAsked
    <3>6. L!WrittenIsTrue(line, machine, is)
      BY <2>6 DEF L!WrittenIsTrue, L!Line
    <3> QED BY <3>1, <3>2, <3>4, <3>5, <3>6, WritesFine
  <2> QED BY <2>1, <2>3, <2>4, <2>5, <2>6
<1> QED BY <1>1, <1>2

\* Whatever the line, and however it ends.
LEMMA CommandFine ==
    ASSUME Ready, NEW line \in Lines, NEW r \in L!Command(line)
    PROVE  Fine(line, r)
<1> DEFINE cmd == Head(line)  a == L!Args(line)
<1>1. CASE r \in L!Usage
  BY <1>1, Refuses
<1>2. CASE cmd \in {"help", "--help", "-h", "/?", "version", "--version", "sysinfo"}
  <2>1. r \in L!Ok(machine)
    BY <1>2 DEF L!Command
  <2>2. r.pc = machine /\ r.code = 0
    BY <2>1, Endings
  <2>3. L!SuccessIsTrue(line, machine, machine)
    BY <1>2 DEF L!SuccessIsTrue, L!CheckedIsTrue, L!WrittenIsTrue, L!Line
  <2> QED BY <2>2, <2>3, LeftAlone
<1>3. CASE cmd = "tweak"
  BY <1>3, TweakFine DEF L!Command, L!Args
<1>4. CASE cmd = "preset"
  BY <1>4, PresetFine DEF L!Command, L!Args
<1>5. CASE cmd = "wu"
  BY <1>5, WuFine DEF L!Command, L!Args
<1>6. CASE cmd = "cpu"
  BY <1>6, CpuFine DEF L!Command, L!Args
<1>7. CASE cmd = "bench"
  BY <1>7, BenchFine DEF L!Command, L!Args
<1>8. CASE cmd = "proc"
  BY <1>8, ProcFine DEF L!Command, L!Args
<1>9. CASE cmd = "svc"
  BY <1>9, SvcFine DEF L!Command, L!Args
<1>10. CASE cmd = "uwp"
  BY <1>10, UwpFine DEF L!Command, L!Args
<1>11. CASE cmd = "shutdown"
  BY <1>11, ShutdownFine DEF L!Command, L!Args
<1>12. CASE cmd = "hosts"
  BY <1>12, HostsFine DEF L!Command, L!Args
<1>13. CASE cmd = "apps"
  BY <1>13, AppsFine DEF L!Command, L!Args
<1>14. CASE cmd = "analytics"
  BY <1>14, AnalyticsFine DEF L!Command, L!Args
<1>15. CASE cmd = "settings"
  BY <1>15, SettingsFine DEF L!Command, L!Args
<1> QED
  BY <1>1, <1>2, <1>3, <1>4, <1>5, <1>6, <1>7, <1>8, <1>9, <1>10, <1>11, <1>12, <1>13, <1>14, <1>15
     DEF L!Command

\* A command that needs rights looks at them before it writes.
LEMMA HadRights ==
    ASSUME Ready, NEW line \in Lines, NEW r \in L!Command(line), r.code = 0, L!NeedsRights(line)
    PROVE  rights
<1> SUFFICES ASSUME ~rights PROVE FALSE
  OBVIOUS
<1> DEFINE a == L!Args(line)
<1>1. r \notin L!Usage \cup L!Failure
  BY Endings
<1>2. CASE L!Line(line, "tweak", "set") \/ L!Line(line, "tweak", "run")
  <2>1. r \in L!CmdTweak(a) /\ L!Has(a, 1) /\ L!Word(a, 1) \in {"set", "run"}
    BY <1>2 DEF L!Command, L!Args, L!Line
  <2>2. \E t \in Table : t.id = L!Word(a, 2) /\ t.needsAdmin
    BY <1>2 DEF L!NeedsRights, L!Line
  <2>3. L!Known(L!Word(a, 2)) /\ L!Find(L!Word(a, 2)).needsAdmin
    BY <2>2, Found DEF L!Known
  <2> QED BY <1>1, <2>1, <2>3 DEF L!CmdTweak, L!CmdTweakOn, L!Sub
<1>3. CASE L!Line(line, "preset", "apply")
  <2>1. r \in L!PresetApply(a)
    BY <1>3 DEF L!Command, L!Args, L!Line, L!CmdPreset, L!Sub
  <2>2. PICK t \in Table : t.id \in L!PresetIds(a) /\ t.available /\ t.needsAdmin
    BY <1>3 DEF L!NeedsRights, L!Line
  <2>3. L!Known(t.id) /\ L!Find(t.id) = t
    BY Found DEF L!Known
  <2>4. L!Refused(t.id)
    BY <2>2, <2>3 DEF L!Refused
  <2>5. r.code = IF \E id \in L!PresetIds(a) : L!Refused(id) THEN 1 ELSE 0
    BY <2>1, PresetEnds
  <2> QED BY <2>2, <2>4, <2>5
<1>4. CASE L!Line(line, "wu", "pin") \/ L!Line(line, "wu", "unpin")
  <2>1. r \in L!CmdWu(a) /\ L!Has(a, 1) /\ L!Word(a, 1) \in {"pin", "unpin"}
    BY <1>4 DEF L!Command, L!Args, L!Line
  <2> QED BY <1>1, <2>1 DEF L!CmdWu, L!Sub, L!IfAdmin
<1>5. CASE L!Line(line, "cpu", "throttle") /\ L!Has(a, 2)
  <2>1. r \in L!CmdCpu(a) /\ L!Has(a, 1) /\ L!Word(a, 1) = "throttle"
    BY <1>5 DEF L!Command, L!Args, L!Line
  <2> QED BY <1>1, <1>5, <2>1 DEF L!CmdCpu, L!Sub, L!IfAdmin
<1>6. CASE \E sub \in {"ban", "unban", "clear"} : L!Line(line, "hosts", sub)
  <2>1. r \in L!CmdHosts(a) /\ L!Has(a, 1) /\ L!Word(a, 1) \in {"ban", "unban", "clear"}
    BY <1>6 DEF L!Command, L!Args, L!Line
  <2>2. PICK ds : r \in L!Block(ds)
    BY <2>1 DEF L!CmdHosts, L!Sub
  <2> QED BY <1>1, <2>2 DEF L!Block, L!IfAdmin
<1> QED BY <1>2, <1>3, <1>4, <1>5, <1>6 DEF L!NeedsRights

-----------------------------------------------------------------------------
\* Whatever is typed, and at the prompt.
LEMMA FlagsOfLine ==
    ASSUME NEW line \in Lines \cup {<<>>}
    PROVE  \A f \in L!WithoutValue, i \in DOMAIN line : L!FlagMoves(line, f, i)
<1>1. SUFFICES ASSUME NEW f \in L!WithoutValue, NEW i \in DOMAIN line
               PROVE  L!FlagMoves(line, f, i)
  OBVIOUS
<1>2. line \in Lines
  BY <1>1
<1> QED BY <1>2, FlagsMove

LEMMA LineInit == L!Init => L!LineInv
<1> SUFFICES ASSUME L!Init PROVE L!LineInv
  OBVIOUS
<1>1. L!TypeOK
  <2>1. L!IsMachine(machine) /\ MaxCommands \in Nat
    BY LineConstants DEF L!Init
  <2>2. result.code = 0 /\ argv \in Lines \cup {<<>>} /\ count \in 0..MaxCommands
    BY <2>1 DEF L!Init, L!NoResult
  <2>3. rights \in BOOLEAN /\ lineStage \in {"prompt", "typed", "done"}
    BY DEF L!Init
  <2> QED BY <2>1, <2>2, <2>3 DEF L!TypeOK
<1>2. L!FlagsMayStandAnywhere
  BY <1>1, FlagsOfLine DEF L!TypeOK, L!FlagsMayStandAnywhere
<1> QED BY <1>1, <1>2 DEF L!Init, L!LineInv, L!ExitCodeIsTrue

LEMMA LineStep == L!LineInv /\ [L!Next]_(L!vars) => L!LineInv'
<1> SUFFICES ASSUME L!LineInv, [L!Next]_(L!vars) PROVE L!LineInv'
  OBVIOUS
<1>0. MaxCommands \in Nat /\ L!TypeOK
  BY LineConstants DEF L!LineInv
<1>1. ASSUME L!TypeOK' PROVE L!FlagsMayStandAnywhere'
  BY <1>1, FlagsOfLine DEF L!TypeOK, L!FlagsMayStandAnywhere
<1>2. ASSUME NEW line \in Lines, L!Type(line) PROVE L!LineInv'
  <2>1. L!TypeOK'
    BY <1>0, <1>2 DEF L!Type, L!TypeOK
  <2>2. before' = machine' /\ lineStage' = "typed" /\ argv' \in Lines
    BY <1>2 DEF L!LineInv, L!Type
  <2> QED BY <1>1, <2>1, <2>2 DEF L!LineInv, L!ExitCodeIsTrue
<1>3. CASE L!Run
  <2>1. argv \in Lines /\ before = machine /\ Ready
    BY <1>3 DEF L!LineInv, L!TypeOK, L!Run, Ready
  <2>2. PICK r \in L!Command(argv) : /\ machine' = r.pc
                                 /\ result' = [code |-> r.code, out |-> r.out, lost |-> r.lost]
    BY <1>3 DEF L!Run
  <2>3. Fine(argv, r)
    BY <2>1, <2>2, CommandFine
  <2>4. /\ lineStage' = "done" /\ result'.code = r.code /\ result'.lost = r.lost
        /\ argv' = argv /\ rights' = rights /\ before' = machine /\ count' = count
    BY <1>3, <2>1, <2>2 DEF L!Run
  <2>5. L!TypeOK'
    BY <1>0, <2>2, <2>3, <2>4 DEF L!TypeOK, Fine
  <2>6. r.code = 0 /\ L!NeedsRights(argv) => rights
    BY <2>1, <2>2, HadRights
  <2>7. L!ExitCodeIsTrue'
    BY <2>2, <2>3, <2>4, <2>6 DEF L!ExitCodeIsTrue, Fine
  <2> QED BY <1>1, <2>1, <2>4, <2>5, <2>7 DEF L!LineInv
<1>4. CASE L!Exit
  <2>1. L!TypeOK'
    <3>1. result'.code = 0 /\ argv' \in Lines \cup {<<>>}
      BY <1>4 DEF L!Exit, L!NoResult
    <3>2. rights' \in BOOLEAN /\ lineStage' \in {"prompt", "typed", "done"}
      BY <1>4 DEF L!Exit
    <3>3. machine' = machine /\ count' = count
      BY <1>4 DEF L!Exit
    <3> QED BY <1>0, <3>1, <3>2, <3>3 DEF L!TypeOK
  <2>2. before' = machine' /\ lineStage' = "prompt"
    BY <1>4 DEF L!Exit
  <2> QED BY <1>1, <2>1, <2>2 DEF L!LineInv, L!ExitCodeIsTrue
<1>5. CASE UNCHANGED L!vars
  BY <1>5 DEF L!LineInv, L!TypeOK, L!ExitCodeIsTrue, L!FlagsMayStandAnywhere, L!vars
<1> QED BY <1>2, <1>3, <1>4, <1>5 DEF L!Next

\* LineInv is inductive.
LEMMA LineAlways == L!Spec => []L!LineInv
BY LineInit, LineStep, PTL DEF L!Spec

\* The variables hold what the code can put there, whatever lines are typed.
THEOREM LineTypeCorrect == L!Spec => []L!TypeOK
<1>1. L!LineInv => L!TypeOK
  BY DEF L!LineInv
<1> QED BY <1>1, LineAlways, PTL

\* A flag without a value may stand anywhere behind the command (ParseArgs): the line
\* means the same as with the flag at its end.
THEOREM LineFlagsMayStandAnywhere == L!Spec => []FlagsMayStandAnywhere
<1>1. L!LineInv => FlagsMayStandAnywhere
  BY DEF L!LineInv, FlagsMayStandAnywhere
<1> QED BY <1>1, LineAlways, PTL

\* How far exit codes go (Run and the commands), whatever is typed and whichever writes
\* come to nothing: with 0 the rights were there that the line needs, and what the
\* commands look at is so; all else that the line asks for is so unless a write came to
\* nothing; with 2, and with 1 but for what comes in several entries, the machine is as
\* it was; and whatever changed was named.
THEOREM LineExitCodeIsTrue == L!Spec => []ExitCodeIsTrue
<1>1. L!LineInv => ExitCodeIsTrue
  BY DEF L!LineInv, ExitCodeIsTrue
<1> QED BY <1>1, LineAlways, PTL
=============================================================================
