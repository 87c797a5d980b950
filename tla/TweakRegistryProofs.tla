------------------------ MODULE TweakRegistryProofs -------------------------
(***************************************************************************)
(* The registry of tweaks, and the queue of jobs that Quick Setup and the   *)
(* pages give their work to.                                                *)
(*                                                                         *)
(* TweakRegistry for any table that is as ConstAssumption says, any machine *)
(* and any sequence of calls: its types, that a probe tells what a toggle   *)
(* was last set to, and that everything off is the Windows default.         *)
(*                                                                         *)
(* JobQueue for any jobs and any number of calls: the queue loses, repeats  *)
(* and reorders nothing, and so implements FifoJobs.                        *)
(***************************************************************************)
EXTENDS TweakRegistry, JobScene, SequenceTheorems, TLAPS

-----------------------------------------------------------------------------
(* The table of tweaks *)

LEMMA Entry ==
    ASSUME NEW t \in All
    PROVE  /\ WrittenBy(t) \subseteq Names
           /\ \A n \in WrittenBy(t) : n \in STRING \X STRING
           /\ t.admin \/ \A n \in WrittenBy(t) : n[1] = "HKCU"
BY ConstAssumption DEF Names, EntriesAreOnes, RightsSuffice

LEMMA NamesArePairs == \A n \in Names : n \in STRING \X STRING
BY Entry DEF Names

\* The entry of the power plan, and with it the scheme, is in the table.
LEMMA PlanIsThere ==
    /\ Scheme \in Values /\ Scheme \in Names /\ ~IsActive(Scheme)
    /\ \E t \in Toggles : t.id = PowerPlan /\ Scheme \in DOMAIN t.on \cap DOMAIN t.off
                          /\ t.on[Scheme] = "ultimate" /\ t.off[Scheme] = "balanced"
<1>1. PICK t \in Toggles : t.id = PowerPlan
  BY ConstAssumption DEF EntriesAreOnes, Ids
<1>2. Scheme \in WrittenBy(t)
  BY <1>1, ConstAssumption DEF SchemesAreApart
<1>3. Scheme \in Names
  BY <1>2, Entry DEF Toggles
<1>4. ~IsActive(Scheme)
  BY DEF IsActive, Scheme
<1> QED BY <1>1, <1>2, <1>3, <1>4, ConstAssumption DEF SchemesAreApart, Values

\* Two names of the table are never kept in one place.
LEMMA PlaceIsOwn ==
    ASSUME NEW s, NEW n \in Names, NEW m \in Names, Place(n, s) = Place(m, s)
    PROVE  n = m
<1>1. n \in STRING \X STRING /\ m \in STRING \X STRING
  BY NamesArePairs
<1>2. n = <<n[1], n[2]>> /\ m = <<m[1], m[2]>>
  BY <1>1
<1>3. CASE IsActive(n) /\ IsActive(m)
  BY <1>2, <1>3 DEF Place, Of, IsActive
<1>4. CASE ~IsActive(n) /\ ~IsActive(m)
  BY <1>4 DEF Place
<1>5. ASSUME NEW a, NEW b, NEW c, NEW p \in STRING \X STRING, p = <<a, b, c>> PROVE FALSE
  <2>1. p = <<p[1], p[2]>>
    OBVIOUS
  <2>2. DOMAIN p = 1..2
    BY <2>1
  <2>3. DOMAIN p = 1..3
    BY <1>5
  <2> QED BY <2>2, <2>3
<1>6. CASE IsActive(n) /\ ~IsActive(m)
  <2>1. m = <<"POWER", n[2], s[Scheme]>>
    BY <1>6 DEF Place, Of
  <2> QED BY <2>1, <1>1, <1>5
<1>7. CASE ~IsActive(n) /\ IsActive(m)
  <2>1. n = <<"POWER", m[2], s[Scheme]>>
    BY <1>7 DEF Place, Of
  <2> QED BY <2>1, <1>1, <1>5
<1> QED BY <1>3, <1>4, <1>6, <1>7

LEMMA PlaceType ==
    ASSUME NEW s, s[Scheme] \in Schemes, NEW n \in Names
    PROVE  Place(n, s) \in Values
BY DEF Place, Values

\* What is stored after the writes w: the content of a name in its place, if it
\* may be written there, and what was there everywhere else.
LEMMA WhatIsWritten ==
    ASSUME NEW s, DOMAIN s = Values, s[Scheme] \in Schemes, NEW w, DOMAIN w \subseteq Names
    PROVE  /\ DOMAIN Written(s, w) = Values
           /\ \A n \in DOMAIN w :
                Written(s, w)[Place(n, s)] =
                    IF CanWrite(Place(n, s), w[n]) THEN w[n] ELSE s[Place(n, s)]
           /\ \A v \in Values :
                (\A n \in DOMAIN w : Place(n, s) # v) => Written(s, w)[v] = s[v]
<1> DEFINE At1(v) == w[CHOOSE n \in DOMAIN w : Place(n, s) = v]
           places == {Place(n, s) : n \in DOMAIN w}
           new == [v \in places |-> At1(v)]
<1>1. Written(s, w) = [v \in Values |->
          IF v \in places /\ CanWrite(v, At1(v)) THEN At1(v) ELSE s[v]]
  <2>1. DOMAIN new = places
    OBVIOUS
  <2>2. \A v \in places : new[v] = At1(v)
    OBVIOUS
  <2>3. Written(s, w) = [v \in DOMAIN s |->
            IF v \in DOMAIN new /\ CanWrite(v, new[v]) THEN new[v] ELSE s[v]]
    BY DEF Written
  <2> HIDE DEF new, places, At1
  <2> QED BY <2>1, <2>2, <2>3
<1>2. ASSUME NEW n \in DOMAIN w PROVE At1(Place(n, s)) = w[n]
  <2> DEFINE m == CHOOSE m \in DOMAIN w : Place(m, s) = Place(n, s)
  <2>1. m \in DOMAIN w /\ Place(m, s) = Place(n, s)
    OBVIOUS
  <2> HIDE DEF m
  <2>2. m = n
    BY <2>1, PlaceIsOwn
  <2> QED BY <2>2 DEF m
<1>3. \A n \in DOMAIN w : Place(n, s) \in Values /\ Place(n, s) \in places
  BY PlaceType
<1> HIDE DEF At1
<1> QED BY <1>1, <1>2, <1>3

-----------------------------------------------------------------------------
\* What an entry writes when it is applied.
Writes(t, on) == IF on THEN t.on ELSE t.off

\* The part of the type that the table's properties rest on.
StoreType == session \in Sessions /\ DOMAIN store = Values /\ store[Scheme] \in Schemes

LEMMA Applied ==
    ASSUME StoreType, NEW t \in All, NEW on \in BOOLEAN, Call(t, on)
    PROVE  /\ session' = session /\ first' = first /\ IsAvailable(t)
           /\ store' = Written(store, Writes(t, on))
           /\ DOMAIN Writes(t, on) \subseteq WrittenBy(t)
           /\ DOMAIN Writes(t, on) \subseteq Names
           /\ DOMAIN store' = Values
           /\ \A n \in DOMAIN Writes(t, on) :
                store'[Place(n, store)] =
                    IF CanWrite(Place(n, store), Writes(t, on)[n])
                    THEN Writes(t, on)[n] ELSE store[Place(n, store)]
           /\ \A v \in Values :
                (\A n \in DOMAIN Writes(t, on) : Place(n, store) # v) => store'[v] = store[v]
<1>1. store' = Written(store, Writes(t, on)) /\ UNCHANGED <<session, first>> /\ IsAvailable(t)
  BY DEF Call, Apply, Writes
<1>2. DOMAIN Writes(t, on) \subseteq WrittenBy(t)
  BY DEF Writes, WrittenBy
<1>3. DOMAIN Writes(t, on) \subseteq Names
  BY <1>2, Entry
<1> HIDE DEF Writes
<1> QED BY <1>1, <1>2, <1>3, WhatIsWritten DEF StoreType

\* What a process may apply it may also write, if the edition has the scheme.
LEMMA MayWrite ==
    ASSUME StoreType, NEW t \in All, NEW on \in BOOLEAN, Call(t, on),
           NEW n \in DOMAIN Writes(t, on), NEW c, n = Scheme /\ c = "ultimate" => session.ultimate
    PROVE  CanWrite(Place(n, store), c)
<1>1. n \in WrittenBy(t) /\ n \in Names
  BY Applied
<1>2. session.elevated \/ n[1] = "HKCU"
  BY <1>1, Entry DEF Call, MayRun
<1>3. n[1] = "HKCU" => Place(n, store) = n
  BY DEF Place, IsActive
<1>4. Place(n, store) = Scheme => n = Scheme
  <2>1. Place(Scheme, store) = Scheme
    BY PlanIsThere DEF Place
  <2> QED BY <2>1, <1>1, PlanIsThere, PlaceIsOwn
<1> QED BY <1>2, <1>3, <1>4 DEF CanWrite

\* Only the power plan's entry changes the scheme.
LEMMA SchemeStays ==
    ASSUME StoreType, NEW t \in All, NEW on \in BOOLEAN, Call(t, on)
    PROVE  /\ store'[Scheme] \in Schemes
           /\ t \notin Toggles \/ t.id # PowerPlan => store'[Scheme] = store[Scheme]
           /\ t \in Toggles /\ t.id = PowerPlan => t.on[Scheme] = "ultimate" /\ t.off[Scheme] = "balanced"
<1>1. Scheme \in Values /\ Place(Scheme, store) = Scheme /\ Scheme \in Names
  BY PlanIsThere DEF Place
<1>2. Scheme \in WrittenBy(t) => /\ t \in Toggles /\ t.id = PowerPlan
                                /\ t.on[Scheme] = "ultimate" /\ t.off[Scheme] = "balanced"
  BY ConstAssumption DEF SchemesAreApart, EntriesAreOnes
<1>3. CASE Scheme \in DOMAIN Writes(t, on)
  <2>1. Scheme \in WrittenBy(t)
    BY <1>3, Applied
  <2>2. store'[Scheme] \in {store[Scheme], Writes(t, on)[Scheme]}
    BY <1>1, <1>3, Applied
  <2> QED BY <2>1, <2>2, <1>2 DEF Writes, Schemes, StoreType
<1>4. CASE Scheme \notin DOMAIN Writes(t, on)
  <2>1. \A n \in DOMAIN Writes(t, on) : Place(n, store) # Scheme
    BY <1>1, <1>4, Applied, PlaceIsOwn
  <2>2. store'[Scheme] = store[Scheme]
    BY <2>1, <1>1, Applied
  <2>3. t \in Toggles /\ t.id = PowerPlan => Scheme \in WrittenBy(t)
    BY ConstAssumption DEF SchemesAreApart
  <2> QED BY <2>2, <2>3, <1>2 DEF StoreType
<1> QED BY <1>3, <1>4

\* A toggle that was set is what its probe reads.
LEMMA ProbesItself ==
    ASSUME StoreType, NEW t \in Toggles, NEW on \in BOOLEAN, Call(t, on),
           t.id = PowerPlan => session.ultimate, SetsNo(t) => session.knowsNo
    PROVE  ProbeIn(t, store') = on
<1> DEFINE w == Writes(t, on)
<1>0. t \in All /\ session' = session /\ session.knowsNo \in BOOLEAN
  BY Applied, ConstAssumption DEF Toggles, StoreType
<1>1. \A c \in t.probe : c[1] \in WrittenBy(t)
  BY ConstAssumption DEF ProbesTell, WrittenBy
<1>2. ASSUME NEW n \in WrittenBy(t) PROVE Place(n, store') = Place(n, store)
  <2>1. IsActive(n) => t.id # PowerPlan
    BY <1>2, ConstAssumption DEF SchemesAreApart, PowerPlan, PowerTimeouts
  <2> QED BY <2>1, <1>0, SchemeStays DEF Place
<1>3. ASSUME NEW n \in DOMAIN w PROVE store'[Place(n, store')] = w[n]
  <2>1. n = Scheme => t.id = PowerPlan
    BY <1>0, Applied, ConstAssumption DEF SchemesAreApart
  <2>2. CanWrite(Place(n, store), w[n])
    BY <2>1, <1>0, MayWrite
  <2> QED BY <2>2, <1>0, <1>2, Applied
<1>4. CASE on
  <2> DEFINE met(c) == c[1] \in DOMAIN t.on /\ Meets(t.on[c[1]], c[2], session.knowsNo)
  <2>1. w = t.on
    BY <1>4 DEF Writes
  <2>2. IF t.any THEN \E c \in t.probe : met(c) ELSE \A c \in t.probe : met(c)
    BY <1>0, ConstAssumption DEF ProbesTell
  <2>3. \A c \in t.probe :
          met(c) => Meets(store'[Place(c[1], store')], c[2], session.knowsNo)
    BY <2>1, <1>0, <1>3
  <2> HIDE DEF met
  <2> QED BY <2>2, <2>3, <1>4 DEF ProbeIn
<1>5. CASE ~on
  <2> DEFINE unmet(c) == c[1] \in DOMAIN t.off /\ ~Meets(t.off[c[1]], c[2], session.knowsNo)
  <2>1. w = t.off
    BY <1>5 DEF Writes
  <2>2. \A c \in t.probe :
          c[1] \in DOMAIN t.off /\ ~Meets(t.off[c[1]], c[2], TRUE) => unmet(c)
    BY <1>0 DEF Meets, SetsNo
  <2>3. IF t.any THEN \A c \in t.probe : unmet(c) ELSE \E c \in t.probe : unmet(c)
    BY <2>2, ConstAssumption DEF ProbesTell
  <2>4. \A c \in t.probe :
          unmet(c) => ~Meets(store'[Place(c[1], store')], c[2], session.knowsNo)
    BY <2>1, <1>0, <1>3
  <2> HIDE DEF unmet
  <2> QED BY <2>3, <2>4, <1>5 DEF ProbeIn
<1> QED BY <1>4, <1>5

\* What another entry writes leaves the probe's answer as it is.
LEMMA ProbesNoOther ==
    ASSUME StoreType, NEW t \in Toggles, NEW u \in All, t # u, NEW on \in BOOLEAN, Call(u, on),
           t.id = PowerTimeouts => u.id # PowerPlan
    PROVE  ProbeIn(t, store') = ProbeIn(t, store)
<1>1. ASSUME NEW c \in t.probe PROVE store'[Place(c[1], store')] = store[Place(c[1], store)]
  <2>1. c[1] \in WrittenBy(t) /\ c[1] \in Names
    BY ConstAssumption, Entry DEF ProbesTell, WrittenBy, Toggles
  <2>2. IsActive(c[1]) => u.id # PowerPlan
    BY <2>1, ConstAssumption DEF SchemesAreApart
  <2>3. Place(c[1], store') = Place(c[1], store)
    BY <2>2, SchemeStays DEF Place
  <2>4. c[1] \notin WrittenBy(u)
    BY ConstAssumption DEF ProbesAreOwn, ProbedBy
  <2>5. \A n \in DOMAIN Writes(u, on) : Place(n, store) # Place(c[1], store)
    BY <2>1, <2>4, Applied, PlaceIsOwn
  <2>6. Place(c[1], store) \in Values
    BY <2>1, PlaceType DEF StoreType
  <2> QED BY <2>3, <2>5, <2>6, Applied
<1> QED BY <1>1 DEF ProbeIn

-----------------------------------------------------------------------------
LEMMA InContents ==
    ASSUME NEW t \in All
    PROVE  /\ \A n \in DOMAIN t.on : t.on[n] \in Contents
           /\ \A n \in DOMAIN t.off : t.off[n] \in Contents
<1> DEFINE ons(u) == {u.on[n] : n \in DOMAIN u.on}
           offs(u) == {u.off[n] : n \in DOMAIN u.off}
           allOns == {ons(u) : u \in All}
           allOffs == {offs(u) : u \in All}
<1>1. \A n \in DOMAIN t.on : t.on[n] \in ons(t)
  OBVIOUS
<1>2. \A n \in DOMAIN t.off : t.off[n] \in offs(t)
  OBVIOUS
<1>3. Contents = {"absent"} \cup (UNION allOns) \cup (UNION allOffs)
  BY DEF Contents
<1> HIDE DEF ons, offs
<1>4. ons(t) \in allOns /\ offs(t) \in allOffs
  OBVIOUS
<1> HIDE DEF allOns, allOffs
<1>5. ASSUME NEW x, x \in ons(t) PROVE x \in Contents
  <2>1. x \in UNION allOns
    BY <1>4, <1>5
  <2> QED BY <2>1, <1>3
<1>6. ASSUME NEW x, x \in offs(t) PROVE x \in Contents
  <2>1. x \in UNION allOffs
    BY <1>4, <1>6
  <2> QED BY <2>1, <1>3
<1> QED BY <1>1, <1>2, <1>5, <1>6

\* The contents of a machine on which everything is off, or on, are of the table.
LEMMA StockType ==
    /\ DOMAIN Stock = Values /\ \A v \in Values : Stock[v] \in Contents
    /\ Stock[Scheme] = "balanced" /\ {"absent", "balanced"} \subseteq Contents
<1>1. "absent" \in Contents
  BY DEF Contents
<1>2. "balanced" \in Contents
  <2>1. PICK t \in Toggles : Scheme \in DOMAIN t.off /\ t.off[Scheme] = "balanced"
    BY PlanIsThere
  <2>2. t \in All
    BY DEF Toggles
  <2> QED BY <2>1, <2>2, InContents
<1>3. ASSUME NEW v \in Values PROVE Stock[v] \in Contents
  <2> DEFINE off == {t \in Toggles : \E n \in DOMAIN t.off : Place(n, Blank) = v}
             t == CHOOSE u \in off : TRUE
             n == CHOOSE n \in DOMAIN t.off : Place(n, Blank) = v
  <2>1. Stock[v] = IF v = Scheme THEN "balanced" ELSE IF off = {} THEN "absent" ELSE t.off[n]
    BY DEF Stock
  <2>2. ASSUME off # {} PROVE t.off[n] \in Contents
    <3>1. t \in off
      BY <2>2
    <3>2. n \in DOMAIN t.off
      BY <3>1
    <3>3. t \in All
      BY <3>1 DEF Toggles
    <3> HIDE DEF t, n, off
    <3> QED BY <3>2, <3>3, InContents
  <2> HIDE DEF off, t, n
  <2> QED BY <1>1, <1>2, <2>1, <2>2
<1>4. Stock[Scheme] = "balanced" /\ DOMAIN Stock = Values
  BY PlanIsThere DEF Stock
<1> QED BY <1>1, <1>2, <1>3, <1>4

\* What a toggle restores is the default, but for what is left over.
LEMMA StockIsOff ==
    ASSUME NEW t \in Toggles, NEW n \in DOMAIN t.off, n \notin Leftovers
    PROVE  Stock[Place(n, Blank)] = t.off[n]
<1> DEFINE v == Place(n, Blank)
           off == {u \in Toggles : \E m \in DOMAIN u.off : Place(m, Blank) = v}
           u == CHOOSE u \in off : TRUE
           m == CHOOSE m \in DOMAIN u.off : Place(m, Blank) = v
<1>0. \A x \in Toggles : DOMAIN x.off \subseteq Names
  BY Entry DEF Toggles, WrittenBy
<1>1. Blank[Scheme] \in Schemes
  BY PlanIsThere DEF Blank, Schemes
<1>2. v \in Values
  BY <1>0, <1>1, PlaceType
<1>3. Stock[v] = IF v = Scheme THEN "balanced" ELSE IF off = {} THEN "absent" ELSE u.off[m]
  BY <1>2 DEF Stock
<1>4. u \in off
  OBVIOUS
<1>5. m \in DOMAIN u.off /\ Place(m, Blank) = v /\ u \in Toggles
  BY <1>4
<1>6. off # {}
  BY <1>4
<1> HIDE DEF off, u, m
<1>7. m = n
  BY <1>0, <1>5, PlaceIsOwn
<1>8. u.off[m] = t.off[n]
  BY <1>5, <1>7, ConstAssumption DEF DefaultsAgree
<1>9. v = Scheme => t.off[n] = "balanced"
  <2>1. Place(Scheme, Blank) = Scheme
    BY PlanIsThere DEF Place
  <2>2. v = Scheme => n = Scheme
    BY <2>1, <1>0, PlanIsThere, PlaceIsOwn
  <2> QED BY <2>2, ConstAssumption DEF SchemesAreApart, WrittenBy
<1> QED BY <1>3, <1>6, <1>8, <1>9

LEMMA TableTypeInit == Init => TypeOK /\ store[Scheme] \in Schemes
<1> SUFFICES ASSUME Init PROVE TypeOK /\ store[Scheme] \in Schemes
  OBVIOUS
<1>1. first \in {"stock", "blank", "allon"}
  <2>1. DOMAIN Machines = {"stock", "blank", "allon"}
    BY DEF Machines
  <2> QED BY <2>1 DEF Init
<1>2. store \in {Stock, Blank, AllOn}
  BY <1>1 DEF Init, Machines
<1> DEFINE OfTable(s) == DOMAIN s = Values /\ s[Scheme] \in Schemes
                         /\ \A v \in Values : s[v] \in Contents
<1>3. OfTable(Stock)
  BY StockType DEF Schemes
<1>4. OfTable(Blank)
  BY StockType, PlanIsThere DEF Blank, Schemes
<1>5. OfTable(AllOn)
  <2>1. ASSUME NEW v \in Values
        PROVE  \/ AllOn[v] = Stock[v]
               \/ \E t \in Toggles : v \in DOMAIN t.on /\ AllOn[v] = t.on[v]
    <3> DEFINE on == {t \in Toggles : v \in DOMAIN t.on}
               t == CHOOSE t \in on : TRUE
    <3>1. AllOn[v] = IF on = {} THEN Stock[v] ELSE t.on[v]
      BY DEF AllOn
    <3>2. on # {} => t \in on
      OBVIOUS
    <3> HIDE DEF t
    <3> QED BY <3>1, <3>2
  <2>2. \A t \in Toggles : \A n \in DOMAIN t.on : t.on[n] \in Contents
    BY InContents DEF Toggles
  <2>3. \A v \in Values : AllOn[v] \in Contents
    BY <2>1, <2>2, StockType
  <2>4. \A t \in Toggles : Scheme \in DOMAIN t.on => t.on[Scheme] = "ultimate"
    BY ConstAssumption DEF SchemesAreApart, WrittenBy
  <2>5. AllOn[Scheme] \in Schemes
    BY <2>1, <2>4, StockType, PlanIsThere DEF Schemes
  <2>6. DOMAIN AllOn = Values
    BY DEF AllOn
  <2> QED BY <2>3, <2>5, <2>6
<1>6. OfTable(store)
  BY <1>2, <1>3, <1>4, <1>5
<1> QED BY <1>6, ConstAssumption DEF TypeOK, Init

LEMMA TableTypeStep ==
    TypeOK /\ store[Scheme] \in Schemes /\ [Next]_vars => TypeOK' /\ store'[Scheme] \in Schemes
<1> SUFFICES ASSUME TypeOK, store[Scheme] \in Schemes, [Next]_vars
             PROVE  TypeOK' /\ store'[Scheme] \in Schemes
  OBVIOUS
<1>0. StoreType
  BY DEF StoreType, TypeOK
<1>1. ASSUME NEW t \in All, NEW on \in BOOLEAN, Call(t, on)
      PROVE  /\ session' \in Sessions /\ first' \in DOMAIN Machines /\ calls' \in 0..session'.calls
             /\ DOMAIN store' = Values /\ \A v \in Values : store'[v] \in Contents
             /\ store'[Scheme] \in Schemes
  <2>1. DOMAIN store' = Values /\ session' = session /\ first' = first
    BY <1>0, <1>1, Applied
  <2>2. \A n \in DOMAIN Writes(t, on) : Writes(t, on)[n] \in Contents
    BY InContents DEF Writes
  <2>3. ASSUME NEW v \in Values PROVE store'[v] \in Contents
    BY <1>0, <1>1, <2>2, Applied DEF TypeOK
  <2>4. calls' \in 0..session.calls
    BY <1>1, ConstAssumption DEF Call, TypeOK
  <2> QED BY <2>1, <2>3, <2>4, <1>0, <1>1, SchemeStays DEF TypeOK
<1>2. ASSUME NEW t \in Toggles, NEW on \in BOOLEAN, Set(t, on)
      PROVE  TypeOK' /\ store'[Scheme] \in Schemes
  <2>1. t \in All /\ Call(t, on)
    BY <1>2 DEF Set, Toggles
  <2>2. DOMAIN last' = Ids /\ \A id \in Ids : last'[id] \in {"never", "on", "off"}
    BY <1>2 DEF Set, TypeOK
  <2> QED BY <2>1, <2>2, <1>1 DEF TypeOK
<1>3. ASSUME NEW t \in All \ Toggles, Run(t) PROVE TypeOK' /\ store'[Scheme] \in Schemes
  <2>1. t \in All /\ Call(t, TRUE) /\ last' = last
    BY <1>3 DEF Run
  <2> QED BY <2>1, <1>1 DEF TypeOK
<1>4. CASE UNCHANGED vars
  BY <1>4 DEF vars, TypeOK
<1> QED BY <1>2, <1>3, <1>4 DEF Next

LEMMA SetIsKnownStep == TableInv /\ [Next]_vars => SetIsKnown'
<1> SUFFICES ASSUME TableInv, [Next]_vars PROVE SetIsKnown'
  OBVIOUS
<1>0. StoreType
  BY DEF StoreType, TypeOK, TableInv
<1>s. session' = session
  BY DEF Next, Set, Run, Call, vars
<1> SUFFICES ASSUME NEW t \in Toggles, last'[t.id] # "never"
             PROVE  IsAvailable(t)' /\ (Promised(t)' => ProbeIn(t, store') = (last'[t.id] = "on"))
  BY <1>s DEF SetIsKnown, ProbeIn
<1>1. ASSUME NEW on \in BOOLEAN, Set(t, on)
      PROVE  IsAvailable(t)' /\ (Promised(t)' => ProbeIn(t, store') = (last'[t.id] = "on"))
  <2>1. t \in All /\ t.id \in Ids /\ Call(t, on)
    BY <1>1 DEF Set, Toggles, Ids
  <2>2. last'[t.id] = IF on THEN "on" ELSE "off"
    BY <1>1, <2>1 DEF Set, TableInv, TypeOK
  <2>3. IsAvailable(t)'
    BY <2>1, <1>0, Applied DEF IsAvailable
  <2>4. ASSUME Promised(t)' PROVE ProbeIn(t, store') = on
    <3>1. (t.id = PowerPlan => session.ultimate) /\ (SetsNo(t) => session.knowsNo)
      BY <2>4, <1>s DEF Promised
    <3> QED BY <3>1, <2>1, <1>0, ProbesItself
  <2> QED BY <2>2, <2>3, <2>4
<1>2. ASSUME NEW u \in All, u # t, NEW on \in BOOLEAN, Call(u, on), last'[t.id] = last[t.id],
             u \in Toggles /\ u.id = PowerPlan => last'[PowerPlan] # "never",
             last'[PowerPlan] = "never" => last[PowerPlan] = "never"
      PROVE  IsAvailable(t)' /\ (Promised(t)' => ProbeIn(t, store') = (last'[t.id] = "on"))
  <2>1. session' = session
    BY <1>0, <1>2, Applied
  <2>2. IsAvailable(t) /\ (Promised(t) => ProbeIn(t, store) = (last[t.id] = "on"))
    BY <1>2 DEF TableInv, SetIsKnown
  <2>3. IsAvailable(t)'
    BY <2>1, <2>2 DEF IsAvailable
  <2>4. Promised(t)' => Promised(t)
    BY <2>1, <1>2 DEF Promised, SchemeKept
  <2>5. ASSUME Promised(t)' PROVE t.id = PowerTimeouts => u.id # PowerPlan
    <3>1. u.id = PowerPlan => u \in Toggles
      BY ConstAssumption DEF EntriesAreOnes, Ids, Toggles
    <3> QED BY <3>1, <2>5, <1>2 DEF Promised, SchemeKept
  <2>6. ASSUME Promised(t)' PROVE ProbeIn(t, store') = ProbeIn(t, store)
    BY <2>6, <2>5, <1>0, <1>2, ProbesNoOther
  <2> QED BY <2>2, <2>3, <2>4, <2>6, <1>2
<1>3. ASSUME NEW u \in Toggles, u # t, NEW on \in BOOLEAN, Set(u, on)
      PROVE  IsAvailable(t)' /\ (Promised(t)' => ProbeIn(t, store') = (last'[t.id] = "on"))
  <2>1. u \in All /\ t \in All /\ u.id # t.id
    BY <1>3, ConstAssumption DEF EntriesAreOnes, Toggles
  <2>2. u.id \in Ids /\ t.id \in Ids /\ PowerPlan \in Ids
    BY ConstAssumption DEF Ids, EntriesAreOnes
  <2>3. last'[t.id] = last[t.id] /\ last'[u.id] # "never"
        /\ (PowerPlan # u.id => last'[PowerPlan] = last[PowerPlan])
    BY <1>3, <2>1, <2>2 DEF Set, TableInv, TypeOK
  <2>4. Call(u, on)
    BY <1>3 DEF Set
  <2> QED BY <2>1, <2>3, <2>4, <1>2, <1>3
<1>4. ASSUME NEW u \in All \ Toggles, Run(u)
      PROVE  IsAvailable(t)' /\ (Promised(t)' => ProbeIn(t, store') = (last'[t.id] = "on"))
  <2>1. Call(u, TRUE) /\ last' = last /\ u # t
    BY <1>4 DEF Run
  <2> QED BY <2>1, <1>2
<1>5. CASE UNCHANGED vars
  BY <1>5 DEF vars, TableInv, SetIsKnown, IsAvailable, Promised, SchemeKept, ProbeIn, Place
<1> QED BY <1>1, <1>3, <1>4, <1>5 DEF Next

\* What DefaultsStay speaks of is kept where it would be with the balanced scheme.
LEMMA SamePlace ==
    ASSUME NEW t \in Toggles, NEW n \in WrittenBy(t), NEW v,
           store[Scheme] = "balanced" \/ v[2] \notin {"display", "sleep"}
    PROVE  Place(n, store) = v <=> Place(n, Blank) = v
<1>1. Blank[Scheme] = "balanced"
  BY PlanIsThere DEF Blank
<1>2. CASE ~IsActive(n)
  BY <1>2 DEF Place
<1>3. CASE IsActive(n)
  <2>1. n[2] \in {"display", "sleep"}
    BY <1>3, ConstAssumption DEF SchemesAreApart
  <2>2. Place(n, store) = <<"POWER", n[2], store[Scheme]>>
    BY <1>3 DEF Place, Of
  <2>3. Place(n, Blank) = <<"POWER", n[2], "balanced">>
    BY <1>1, <1>3 DEF Place, Of
  <2>4. \A a, b, c : <<a, b, c>>[2] = b
    OBVIOUS
  <2>5. Place(n, store) = v => v[2] = n[2]
    BY <2>2, <2>4
  <2>6. Place(n, Blank) = v => v[2] = n[2]
    BY <2>3, <2>4
  <2>7. CASE store[Scheme] = "balanced"
    BY <2>2, <2>3, <2>7
  <2>8. CASE v[2] \notin {"display", "sleep"}
    BY <2>1, <2>5, <2>6, <2>8
  <2> QED BY <2>7, <2>8
<1> QED BY <1>2, <1>3

\* A toggle that is set to off puts back what it ever wrote.
LEMMA OffPutsBack ==
    ASSUME StoreType, NEW u \in Toggles, Call(u, FALSE), NEW v \in OnlyToggles \ Leftovers,
           Touches(u, v), store[Scheme] = "balanced" \/ v[2] \notin {"display", "sleep"}
    PROVE  store'[v] = Stock[v]
<1>1. PICK n \in WrittenBy(u) : Place(n, Blank) = v
  BY DEF Touches
<1>2. Place(n, store) = v
  BY <1>1, SamePlace
<1>3. n \notin Leftovers
  <2>1. CASE IsActive(n)
    BY <2>1 DEF IsActive, Leftovers
  <2>2. CASE ~IsActive(n)
    BY <1>1, <2>2 DEF Place
  <2> QED BY <2>1, <2>2
<1>4. n \in DOMAIN u.off
  BY <1>3, ConstAssumption DEF DefaultsAgree, WrittenBy
<1>5. u \in All
  BY DEF Toggles
<1>6. n = Scheme => u.off[n] = "balanced"
  BY ConstAssumption DEF SchemesAreApart
<1>7. n \in DOMAIN Writes(u, FALSE) /\ Writes(u, FALSE)[n] = u.off[n]
  BY <1>4 DEF Writes
<1>8. CanWrite(Place(n, store), u.off[n])
  BY <1>5, <1>6, <1>7, MayWrite
<1>9. store'[v] = u.off[n]
  BY <1>2, <1>5, <1>7, <1>8, Applied
<1> QED BY <1>1, <1>3, <1>4, <1>9, StockIsOff

LEMMA DefaultsStayStep == TableInv /\ [Next]_vars => DefaultsStay'
<1> SUFFICES ASSUME TableInv, [Next]_vars, first' = "stock"
    PROVE  /\ SchemeKept' => store'[Scheme] = "balanced"
           /\ \A v \in OnlyToggles \ Leftovers :
                 /\ SchemeKept' \/ v[2] \notin {"display", "sleep"}
                 /\ \A t \in Toggles : Touches(t, v) => last'[t.id] # "on"
                 => store'[v] = Stock[v]
  BY DEF DefaultsStay
<1>0. StoreType
  BY DEF StoreType, TypeOK, TableInv
<1>1. ASSUME NEW u \in Toggles, NEW on \in BOOLEAN, Set(u, on)
      PROVE  /\ SchemeKept' => store'[Scheme] = "balanced"
             /\ \A v \in OnlyToggles \ Leftovers :
                   /\ SchemeKept' \/ v[2] \notin {"display", "sleep"}
                   /\ \A t \in Toggles : Touches(t, v) => last'[t.id] # "on"
                   => store'[v] = Stock[v]
  <2>1. u \in All /\ u.id \in Ids /\ PowerPlan \in Ids /\ Call(u, on)
    BY <1>1, ConstAssumption DEF Set, Toggles, Ids, EntriesAreOnes
  <2>2. last' = [last EXCEPT ![u.id] = IF on THEN "on" ELSE "off"] /\ DOMAIN last = Ids
    BY <1>1 DEF Set, TableInv, TypeOK
  <2>3. first = "stock"
    BY <2>1, <1>0, Applied
  <2>4. SchemeKept' => SchemeKept /\ u.id # PowerPlan
    BY <2>1, <2>2 DEF SchemeKept
  <2>5. SchemeKept => store[Scheme] = "balanced"
    BY <2>3 DEF TableInv, DefaultsStay
  <2>6. SchemeKept' => store'[Scheme] = "balanced"
    BY <2>1, <2>4, <2>5, <1>0, SchemeStays
  <2>7. ASSUME NEW v \in OnlyToggles \ Leftovers,
               SchemeKept' \/ v[2] \notin {"display", "sleep"},
               \A t \in Toggles : Touches(t, v) => last'[t.id] # "on"
        PROVE  store'[v] = Stock[v]
    <3>1. store[Scheme] = "balanced" \/ v[2] \notin {"display", "sleep"}
      BY <2>4, <2>5, <2>7
    <3>2. CASE Touches(u, v)
      <4>1. on = FALSE
        BY <2>1, <2>2, <2>7, <3>2
      <4> QED BY <4>1, <3>1, <3>2, <2>1, <1>0, OffPutsBack
    <3>3. CASE ~Touches(u, v)
      <4>1. \A n \in DOMAIN Writes(u, on) : n \in WrittenBy(u)
        BY <2>1, <1>0, Applied
      <4>2. \A n \in DOMAIN Writes(u, on) : Place(n, store) # v
        BY <4>1, <3>1, <3>3, SamePlace DEF Touches
      <4>3. v \in Values
        BY DEF OnlyToggles
      <4>4. store'[v] = store[v]
        BY <4>2, <4>3, <2>1, <1>0, Applied
      <4>5. ASSUME NEW t \in Toggles, Touches(t, v) PROVE last[t.id] # "on"
        <5>1. t.id # u.id
          BY <3>3, <4>5, ConstAssumption DEF EntriesAreOnes, Toggles
        <5>2. t.id \in Ids
          BY DEF Ids
        <5> QED BY <5>1, <5>2, <2>2, <2>7, <4>5
      <4>6. SchemeKept \/ v[2] \notin {"display", "sleep"}
        BY <2>4, <2>7
      <4>7. store[v] = Stock[v]
        BY <4>5, <4>6, <2>3 DEF TableInv, DefaultsStay
      <4> QED BY <4>4, <4>7
    <3> QED BY <3>2, <3>3
  <2> QED BY <2>6, <2>7
<1>2. ASSUME NEW u \in All \ Toggles, Run(u)
      PROVE  /\ SchemeKept' => store'[Scheme] = "balanced"
             /\ \A v \in OnlyToggles \ Leftovers :
                   /\ SchemeKept' \/ v[2] \notin {"display", "sleep"}
                   /\ \A t \in Toggles : Touches(t, v) => last'[t.id] # "on"
                   => store'[v] = Stock[v]
  <2>1. u \in All /\ Call(u, TRUE) /\ last' = last
    BY <1>2 DEF Run
  <2>2. first = "stock" /\ (SchemeKept' <=> SchemeKept)
    BY <2>1, <1>0, Applied DEF SchemeKept
  <2>3. store'[Scheme] = store[Scheme]
    BY <2>1, <1>0, <1>2, SchemeStays
  <2>4. ASSUME NEW v \in OnlyToggles PROVE store'[v] = store[v]
    <3>1. v \in Values /\ v \notin DOMAIN u.on
      BY <1>2 DEF OnlyToggles
    <3>2. ASSUME NEW n \in DOMAIN Writes(u, TRUE) PROVE Place(n, store) # v
      <4>1. n \in DOMAIN u.on /\ n \in WrittenBy(u)
        BY DEF Writes, WrittenBy
      <4>2. ~IsActive(n)
        BY <4>1, <1>2, <2>1, ConstAssumption DEF EntriesAreOnes
      <4> QED BY <4>1, <4>2, <3>1 DEF Place
    <3> QED BY <3>1, <3>2, <2>1, <1>0, Applied
  <2> QED BY <2>1, <2>2, <2>3, <2>4 DEF TableInv, DefaultsStay
<1>3. CASE UNCHANGED vars
  BY <1>3 DEF vars, TableInv, DefaultsStay, SchemeKept
<1> QED BY <1>1, <1>2, <1>3 DEF Next

LEMMA TableAlways == Spec => []TableInv
<1>1. Init => TableInv
  <2> SUFFICES ASSUME Init PROVE TableInv
    OBVIOUS
  <2>1. TypeOK /\ store[Scheme] \in Schemes
    BY TableTypeInit
  <2>2. \A t \in Toggles : last[t.id] = "never"
    BY DEF Init, Ids
  <2>3. first = "stock" => store = Stock
    BY DEF Init, Machines
  <2>4. DefaultsStay
    BY <2>3, StockType DEF DefaultsStay
  <2> QED BY <2>1, <2>2, <2>4 DEF TableInv, SetIsKnown
<1>2. TableInv /\ [Next]_vars => TableInv'
  <2> SUFFICES ASSUME TableInv, [Next]_vars PROVE TableInv'
    OBVIOUS
  <2>1. TypeOK' /\ store'[Scheme] \in Schemes
    BY TableTypeStep DEF TableInv
  <2> QED BY <2>1, SetIsKnownStep, DefaultsStayStep DEF TableInv
<1> QED BY <1>1, <1>2, PTL DEF Spec

\* TweakRegistry.cpp, for any table that is as ConstAssumption says, any machine
\* and any user: the registry, the boot configuration and the power schemes keep
\* the values the table knows, each with a content of the table.
THEOREM TableTypeCorrect == Spec => []TypeOK
<1>1. TableInv => TypeOK
  BY DEF TableInv
<1> QED BY <1>1, TableAlways, PTL

\* TweakRegistry::probe: a toggle reports what it was last set to, whatever was
\* applied since, on every machine where the scheme it needs is there.
THEOREM TableProbeIsLast == Spec => []ProbeIsLast
<1>1. TableInv => ProbeIsLast
  <2> SUFFICES ASSUME TableInv, NEW t \in Toggles, last[t.id] # "never", Promised(t)
               PROVE  Probe(t) = (last[t.id] = "on")
    BY DEF ProbeIsLast
  <2>1. IsAvailable(t) /\ ProbeIn(t, store) = (last[t.id] = "on")
    BY DEF TableInv, SetIsKnown
  <2>2. t.kind = "toggle"
    BY DEF Toggles
  <2> QED BY <2>1, <2>2 DEF Probe
<1> QED BY <1>1, TableAlways, PTL

\* TweakRegistry::apply: once every toggle is off again, in whatever order they
\* were set, what only toggles write is the Windows default.
THEOREM TableRestoresDefault == Spec => []RestoresDefault
<1>1. TableInv => RestoresDefault
  <2> SUFFICES ASSUME TableInv, first = "stock", \A id \in Ids : last[id] # "on",
                      NEW v \in OnlyToggles \ Leftovers,
                      SchemeKept \/ v[2] \notin {"display", "sleep"}
               PROVE  store[v] = Stock[v]
    BY DEF RestoresDefault
  <2>1. \A t \in Toggles : last[t.id] # "on"
    BY DEF Ids
  <2> QED BY <2>1 DEF TableInv, DefaultsStay
<1> QED BY <1>1, TableAlways, PTL

-----------------------------------------------------------------------------
(* The queue of jobs *)

BusyAtWork == worker = "run" => busy

QueueInv == J!TypeOK /\ J!Holding /\ BusyAtWork /\ J!StaleBriefly /\ J!InOrder

LEMMA QueueRunningType == ASSUME J!TypeOK, J!Holding PROVE J!Running \in Seq(Jobs)
  BY JobQueueAssumption DEF J!ConstAssumption, J!TypeOK, J!Holding, J!Running

\* The rest of a queue after its first element.
LEMMA HeadAndTail ==
    ASSUME NEW q \in Seq(Jobs), q # <<>>
    PROVE  q = <<Head(q)>> \o Tail(q)
<1>1. Head(q) \in Jobs /\ Tail(q) \in Seq(Jobs) /\ Len(Tail(q)) = Len(q) - 1
  BY HeadTailProperties
<1>2. <<Head(q)>> \in Seq(Jobs) /\ Len(<<Head(q)>>) = 1
  BY <1>1
<1>3. Len(q) \in Nat \ {0}
  BY EmptySeq
<1>4. /\ <<Head(q)>> \o Tail(q) \in Seq(Jobs)
      /\ Len(<<Head(q)>> \o Tail(q)) = Len(q)
  BY <1>1, <1>2, <1>3, ConcatProperties
<1>5. \A i \in 1..Len(q) : (<<Head(q)>> \o Tail(q))[i] = q[i]
  <2> TAKE i \in 1..Len(q)
  <2>1. (<<Head(q)>> \o Tail(q))[i] = IF i <= 1 THEN <<Head(q)>>[i] ELSE Tail(q)[i - 1]
    BY <1>1, <1>2, <1>3, ConcatProperties
  <2>2. CASE i = 1
    BY <2>1, <2>2
  <2>3. CASE i # 1
    <3>1. i - 1 \in 1..Len(Tail(q))
      BY <2>3, <1>1, <1>3
    <3>2. Tail(q)[i - 1] = q[i]
      BY <3>1, <1>3, HeadTailProperties
    <3>3. QED
      BY <3>2, <2>1, <2>3
  <2>4. QED
    BY <2>2, <2>3
<1>6. QED
  BY <1>4, <1>5, SeqEqual

LEMMA QueueTypeStep == J!TypeOK /\ J!Holding /\ [J!Next]_J!vars => J!TypeOK' /\ J!Holding'
<1> USE JobQueueAssumption DEF J!ConstAssumption, J!TypeOK, J!Holding
<1> SUFFICES ASSUME J!TypeOK, J!Holding, [J!Next]_J!vars PROVE J!TypeOK' /\ J!Holding'
  OBVIOUS
<1>1. ASSUME NEW j \in Jobs, J!Call(j) PROVE J!TypeOK' /\ J!Holding'
  BY <1>1 DEF J!Call
<1>2. CASE J!Enqueue
  BY <1>2, AppendProperties DEF J!Enqueue, J!Push
<1>3. CASE J!Lock
  BY <1>3 DEF J!Lock
<1>4. CASE J!FindEmpty
  BY <1>4 DEF J!FindEmpty
<1>5. CASE J!Wake
  BY <1>5 DEF J!Wake
<1>6. CASE J!Take
  <2>1. Head(queue) \in Jobs /\ Tail(queue) \in Seq(Jobs)
    BY <1>6, HeadTailProperties DEF J!Take
  <2>2. QED
    BY <1>6, <2>1 DEF J!Take
<1>7. CASE J!Run
  BY <1>7, AppendProperties DEF J!Run
<1>8. CASE UNCHANGED J!vars
  BY <1>8 DEF J!vars
<1>9. QED
  BY <1>1, <1>2, <1>3, <1>4, <1>5, <1>6, <1>7, <1>8 DEF J!Next, J!WorkerLoop

\* The sequences behind InOrder, step by step.
LEMMA QueueOrderStep == QueueInv /\ [J!Next]_J!vars => J!InOrder'
<1> SUFFICES ASSUME QueueInv, [J!Next]_J!vars PROVE J!InOrder'
  OBVIOUS
<1> USE DEF QueueInv, J!InOrder
<1>1. J!TypeOK' /\ J!Holding'
  BY QueueTypeStep
<1>2. J!Running \in Seq(Jobs) /\ done \in Seq(Jobs) /\ queue \in Seq(Jobs)
  BY QueueRunningType DEF J!TypeOK
<1>3. done \o J!Running \in Seq(Jobs)
  BY <1>2, ConcatProperties
<1>4. CASE J!Enqueue
  <2>1. calling \in Jobs /\ <<calling>> \in Seq(Jobs)
    BY <1>4 DEF J!Enqueue, J!TypeOK
  <2>2. Append(done \o J!Running \o queue, calling)
          = (done \o J!Running \o queue) \o <<calling>>
    BY <1>2, <1>3, <2>1, ConcatProperties, AppendIsConcat
  <2>3. (done \o J!Running) \o (queue \o <<calling>>)
          = (done \o J!Running \o queue) \o <<calling>>
    BY <1>2, <1>3, <2>1, ConcatAssociative
  <2>4. Append(queue, calling) = queue \o <<calling>>
    BY <1>2, <2>1, AppendIsConcat
  <2>5. QED
    BY <1>4, <2>2, <2>3, <2>4 DEF J!Enqueue, J!Push, J!Running
<1>5. CASE J!Take
  <2>1. Head(queue) \in Jobs /\ Tail(queue) \in Seq(Jobs) /\ <<Head(queue)>> \in Seq(Jobs)
    BY <1>2, <1>5, HeadTailProperties DEF J!Take
  <2>2. queue = <<Head(queue)>> \o Tail(queue)
    BY <1>2, <1>5, HeadAndTail DEF J!Take
  <2>3. (done \o <<Head(queue)>>) \o Tail(queue)
          = done \o (<<Head(queue)>> \o Tail(queue))
    BY <1>2, <2>1, ConcatAssociative
  <2>4. J!Running = <<>> /\ done \o <<>> = done
    BY <1>2, <1>5, ConcatEmptySeq DEF J!Take, J!Running
  <2>5. J!Running' = <<Head(queue)>>
    BY <1>5 DEF J!Take, J!Running
  <2>6. QED
    BY <1>5, <2>2, <2>3, <2>4, <2>5 DEF J!Take
<1>6. CASE J!Run
  <2>1. taken \in Jobs /\ J!Running = <<taken>> /\ J!Running' = <<>>
    BY <1>6, JobQueueAssumption DEF J!ConstAssumption, J!Run, J!Running, J!Holding, J!TypeOK
  <2>2. done' = done \o <<taken>> /\ done' \in Seq(Jobs)
    BY <1>2, <1>6, <2>1, AppendIsConcat, AppendProperties DEF J!Run
  <2>3. done' \o <<>> = done'
    BY <2>2, ConcatEmptySeq
  <2>4. QED
    BY <1>6, <2>1, <2>2, <2>3 DEF J!Run
<1>7. CASE UNCHANGED <<queue, enqueued, done>> /\ worker # "run" /\ worker' # "run"
  BY <1>7 DEF J!Running
<1>8. CASE UNCHANGED <<queue, enqueued, done, worker, taken>>
  BY <1>8 DEF J!Running
<1>9. QED
  BY <1>4, <1>5, <1>6, <1>7, <1>8
  DEF J!Next, J!WorkerLoop, J!Call, J!Lock, J!FindEmpty, J!Wake, J!vars

LEMMA QueueInductive == J!Spec => []QueueInv
<1>1. J!Init => QueueInv
  <2> SUFFICES ASSUME J!Init PROVE QueueInv
    OBVIOUS
  <2>1. <<>> \in Seq(Jobs) /\ <<>> \o <<>> \o <<>> = <<>>
    BY EmptySeq, ConcatEmptySeq
  <2>2. QED
    BY <2>1, JobQueueAssumption
    DEF J!ConstAssumption, J!Init, QueueInv, J!TypeOK, J!Holding, BusyAtWork, J!StaleBriefly,
        J!InOrder, J!Running
<1>2. QueueInv /\ [J!Next]_J!vars => QueueInv'
  <2> SUFFICES ASSUME QueueInv, [J!Next]_J!vars PROVE QueueInv'
    OBVIOUS
  <2>1. J!TypeOK' /\ J!Holding'
    BY QueueTypeStep DEF QueueInv
  <2>2. BusyAtWork'
    BY DEF QueueInv, BusyAtWork, J!Next, J!WorkerLoop, J!Call, J!Enqueue, J!Lock,
           J!FindEmpty, J!Wake, J!Take, J!Run, J!vars
  <2>3. J!StaleBriefly'
    BY DEF QueueInv, BusyAtWork, J!StaleBriefly, J!Holding, J!TypeOK, J!Next, J!WorkerLoop,
           J!Call, J!Enqueue, J!Lock, J!FindEmpty, J!Wake, J!Take, J!Run, J!vars
  <2>4. QED
    BY <2>1, <2>2, <2>3, QueueOrderStep DEF QueueInv
<1>3. QED
  BY <1>1, <1>2, PTL DEF J!Spec

\* The variables of every reachable state are well-formed.
THEOREM QueueTypeCorrect == J!Spec => []J!TypeOK
  BY QueueInductive, PTL DEF QueueInv

\* No job that was enqueued is lost, run twice or overtaken by a later one,
\* whichever way the UI thread and the worker interleave.
THEOREM QueueNothingLost == J!Spec => []J!InOrder
  BY QueueInductive, PTL DEF QueueInv

\* busy_ goes down only when every job that was enqueued is over: the worker
\* resets it with the mutex in hand and the queue empty (JobQueue.cpp, WorkerLoop).
THEOREM QueueBusyUntilDone == J!Spec => BusyUntilDone
<1>1. QueueInv /\ [J!Next]_J!vars => [busy /\ ~busy' => done = enqueued]_J!vars
  <2> SUFFICES ASSUME QueueInv, J!Next, busy, ~busy' PROVE done = enqueued
    OBVIOUS
  <2>1. J!FindEmpty
    BY DEF J!Next, J!WorkerLoop, J!Call, J!Enqueue, J!Lock, J!Wake, J!Take, J!Run
  <2>2. queue = <<>> /\ J!Running = <<>>
    BY <2>1 DEF J!FindEmpty, J!Running
  <2>3. enqueued = done \o <<>> \o <<>> /\ done \in Seq(Jobs)
    BY <2>2 DEF QueueInv, J!InOrder, J!TypeOK
  <2>4. QED
    BY <2>3, ConcatEmptySeq
<1>2. QED
  BY <1>1, QueueInductive, PTL DEF J!Spec, BusyUntilDone, J!BusyUntilDone

\* A job that waits while busy_ is down has a worker that is about to look at the
\* queue, never one that sleeps or runs something else.
THEOREM QueueStaleBriefly == J!Spec => []StaleBriefly
  BY QueueInductive, PTL DEF QueueInv, StaleBriefly

\* The queue with its mutex and its worker implements FifoJobs: every step of
\* it is an enqueue, the start or the end of the next job, or invisible.
THEOREM QueueRefinement == J!Spec => ImplementsFifo
<1>1. J!Init => J!Fifo!Init
  BY DEF J!Init, J!Fifo!Init
<1>2. QueueInv /\ [J!Next]_J!vars => [J!Fifo!Next]_J!Fifo!vars
  <2> SUFFICES ASSUME QueueInv, [J!Next]_J!vars PROVE [J!Fifo!Next]_J!Fifo!vars
    OBVIOUS
  <2> USE DEF J!Fifo!Next, J!Fifo!vars
  <2>1. CASE J!Enqueue
    BY <2>1 DEF J!Enqueue, J!Fifo!Enqueue, QueueInv, J!TypeOK
  <2>2. CASE J!Take
    <3>1. queue \in Seq(Jobs) /\ done \in Seq(Jobs) /\ queue # <<>>
      BY <2>2 DEF J!Take, QueueInv, J!TypeOK
    <3>2. J!Running = <<>> /\ taken = NoJob
      BY <2>2 DEF J!Take, J!Running, QueueInv, J!Holding
    <3>3. enqueued = done \o queue
      BY <3>1, <3>2, ConcatEmptySeq DEF QueueInv, J!InOrder
    <3>4. Len(queue) \in Nat \ {0} /\ Len(done) \in Nat
      BY <3>1, EmptySeq, LenProperties
    <3>5. Len(done) < Len(enqueued) /\ enqueued[Len(done) + 1] = queue[1]
      BY <3>1, <3>3, <3>4, ConcatProperties
    <3>6. J!Fifo!Start
      BY <2>2, <3>2, <3>5 DEF J!Take, J!Fifo!Start
    <3>7. QED
      BY <3>6
  <2>3. CASE J!Run
    BY <2>3 DEF J!Run, J!Fifo!Finish, QueueInv, J!Holding
  <2>4. CASE UNCHANGED <<enqueued, taken, done>>
    BY <2>4
  <2>5. QED
    BY <2>1, <2>2, <2>3, <2>4
    DEF J!Next, J!WorkerLoop, J!Call, J!Lock, J!FindEmpty, J!Wake, J!vars
<1>3. QED
  BY <1>1, <1>2, QueueInductive, PTL DEF J!Spec, ImplementsFifo, J!ImplementsFifo, J!Fifo!Spec
=============================================================================
