------------------------- MODULE SensorsHostProofs -------------------------
(* Theorems about SensorsHost, for every registry of sensors, every choice   *)
(* of channels and labels and either build of the host functions.            *)
EXTENDS SensorsHost, SequenceTheorems, WellFoundedInduction, TLAPS

-----------------------------------------------------------------------------
(* Induction over the natural numbers for a set instead of a predicate: the  *)
(* numbers have no infinite descent, so the least one outside of the set     *)
(* would have a predecessor outside of it.                                   *)
LEMMA SetInduction ==
  ASSUME NEW S, 0 \in S, \A n \in Nat : n \in S => n + 1 \in S
  PROVE  Nat \subseteq S
<1> DEFINE T == Nat \ S
           R == OpToRel(<, Nat)
<1> SUFFICES ASSUME T # {} PROVE FALSE
  OBVIOUS
<1>1. PICK x \in T : \A y \in T : ~(<<y, x>> \in R)
  <2>1. IsWellFoundedOn(R, Nat)
    BY NatLessThanWellFounded
  <2>2. T \subseteq Nat
    OBVIOUS
  <2> HIDE DEF R, T
  <2> QED
    BY <2>1, <2>2, WFMin
<1>2. x \in Nat /\ x \notin S
  OBVIOUS
<1>3. x # 0
  BY <1>2
<1>4. x - 1 \in Nat /\ (x - 1) + 1 = x /\ x - 1 < x
  BY <1>2, <1>3
<1>5. <<x - 1, x>> \in R
  BY <1>2, <1>4 DEF OpToRel
<1>6. x - 1 \notin T
  BY <1>1, <1>5
<1> QED
  BY <1>2, <1>4, <1>6
-----------------------------------------------------------------------------
(* FlattenSeq: what its local function computes, by the length of the        *)
(* sequence, and that it is determined by that.                              *)
Joins(f, s) ==
  f = [i \in 1..Len(s) |-> IF i = 1 THEN s[i] ELSE f[i - 1] \o s[i]]

LEMMA JoinsAt ==
  ASSUME NEW s, Len(s) \in Nat, NEW f, Joins(f, s), NEW i \in 1..Len(s)
  PROVE  f[i] = IF i = 1 THEN s[i] ELSE f[i - 1] \o s[i]
<1> DEFINE g == [j \in 1..Len(s) |-> IF j = 1 THEN s[j] ELSE f[j - 1] \o s[j]]
<1>1. g[i] = IF i = 1 THEN s[i] ELSE f[i - 1] \o s[i]
  OBVIOUS
<1>2. f = g
  BY Zenon DEF Joins
<1> QED
  BY <1>1, <1>2, Zenon

LEMMA JoinsUnique ==
  ASSUME NEW s, Len(s) \in Nat, NEW f, NEW g, Joins(f, s), Joins(g, s)
  PROVE  \A i \in 1..Len(s) : f[i] = g[i]
<1> DEFINE Same == {n \in Nat : n \in 1..Len(s) => f[n] = g[n]}
<1>1. 0 \in Same
  OBVIOUS
<1>2. ASSUME NEW n \in Nat, n \in Same
      PROVE  n + 1 \in Same
  <2> SUFFICES ASSUME n + 1 \in 1..Len(s)
               PROVE  f[n + 1] = g[n + 1]
    OBVIOUS
  <2>1. f[n + 1] = IF n + 1 = 1 THEN s[n + 1] ELSE f[(n + 1) - 1] \o s[n + 1]
    BY JoinsAt
  <2>2. g[n + 1] = IF n + 1 = 1 THEN s[n + 1] ELSE g[(n + 1) - 1] \o s[n + 1]
    BY JoinsAt
  <2>3. (n + 1) - 1 = n /\ (n + 1 # 1 => n \in 1..Len(s))
    OBVIOUS
  <2> QED
    BY <1>2, <2>1, <2>2, <2>3
<1>3. Nat \subseteq Same
  <2> HIDE DEF Same
  <2> QED
    BY <1>1, <1>2, SetInduction
<1> QED
  BY <1>3

LEMMA JoinsPrefix ==
  ASSUME NEW S, NEW s \in Seq(Seq(S)), NEW e \in Seq(S), NEW f, Joins(f, Append(s, e))
  PROVE  Joins([i \in 1..Len(s) |-> f[i]], s)
<1> DEFINE g == [i \in 1..Len(s) |-> f[i]]
           t == Append(s, e)
<1>1. Len(t) = Len(s) + 1 /\ Len(s) \in Nat /\ \A i \in 1..Len(s) : t[i] = s[i]
  OBVIOUS
<1> HIDE DEF t
<1>2. ASSUME NEW i \in 1..Len(s)
      PROVE  g[i] = IF i = 1 THEN s[i] ELSE g[i - 1] \o s[i]
  <2>1. f[i] = IF i = 1 THEN t[i] ELSE f[i - 1] \o t[i]
    <3>1. i \in 1..Len(t) /\ Len(t) \in Nat
      BY <1>1
    <3>2. Joins(f, t)
      BY DEF t
    <3> QED
      BY <3>1, <3>2, JoinsAt
  <2>2. i # 1 => i - 1 \in 1..Len(s)
    BY <1>1
  <2> QED
    BY <1>1, <2>1, <2>2
<1>3. g = [i \in 1..Len(s) |-> g[i]]
  OBVIOUS
<1> HIDE DEF g
<1>4. g = [i \in 1..Len(s) |-> IF i = 1 THEN s[i] ELSE g[i - 1] \o s[i]]
  BY <1>2, <1>3
<1> QED
  BY <1>4 DEF Joins, g

LEMMA JoinsExists ==
  ASSUME NEW S
  PROVE  \A s \in Seq(Seq(S)) : \E f : Joins(f, s)
<1> DEFINE Of(n) == \A s \in Seq(Seq(S)) : Len(s) = n => \E f : Joins(f, s)
           Good == {n \in Nat : Of(n)}
<1>1. 0 \in Good
  <2> SUFFICES ASSUME NEW s \in Seq(Seq(S)), Len(s) = 0
               PROVE  \E f : Joins(f, s)
    OBVIOUS
  <2> DEFINE g == [i \in 1..0 |-> <<>>]
  <2>1. g = [i \in 1..Len(s) |-> IF i = 1 THEN s[i] ELSE g[i - 1] \o s[i]]
    OBVIOUS
  <2> QED
    BY <2>1, Zenon DEF Joins
<1>2. ASSUME NEW n \in Nat, n \in Good
      PROVE  n + 1 \in Good
  <2> SUFFICES ASSUME NEW s \in Seq(Seq(S)), Len(s) = n + 1
               PROVE  \E f : Joins(f, s)
    OBVIOUS
  <2> DEFINE t == [i \in 1..n |-> s[i]]
  <2>1. t \in Seq(Seq(S)) /\ Len(t) = n
    OBVIOUS
  <2>2. \A i \in 1..n : t[i] = s[i]
    OBVIOUS
  <2> HIDE DEF t
  <2>3. PICK f : Joins(f, t)
    BY <1>2, <2>1
  <2> DEFINE g == [i \in 1..n + 1 |-> IF i <= n THEN f[i] ELSE IF i = 1 THEN s[i] ELSE f[i - 1] \o s[i]]
  <2>4. ASSUME NEW i \in 1..n + 1
        PROVE  g[i] = IF i = 1 THEN s[i] ELSE g[i - 1] \o s[i]
    <3>1. CASE i <= n
      <4>1. i \in 1..Len(t) /\ Len(t) \in Nat
        BY <2>1, <3>1
      <4>2. f[i] = IF i = 1 THEN t[i] ELSE f[i - 1] \o t[i]
        BY <2>3, <4>1, JoinsAt
      <4>3. i # 1 => i - 1 \in 1..n + 1 /\ i - 1 <= n
        BY <3>1
      <4>4. t[i] = s[i]
        BY <2>1, <2>2, <4>1
      <4>5. g[i] = f[i] /\ (i # 1 => g[i - 1] = f[i - 1])
        BY <3>1, <4>3
      <4> HIDE DEF g
      <4> QED
        BY <4>2, <4>4, <4>5
    <3>2. CASE ~(i <= n)
      <4>1. i = n + 1 /\ (i # 1 => i - 1 \in 1..n + 1 /\ i - 1 <= n)
        BY <3>2
      <4>2. i # 1 => g[i - 1] = f[i - 1]
        BY <4>1
      <4>3. g[i] = IF i = 1 THEN s[i] ELSE f[i - 1] \o s[i]
        BY <3>2
      <4> HIDE DEF g
      <4> QED
        BY <4>2, <4>3
    <3> QED
      BY <3>1, <3>2
  <2>5. g = [i \in 1..n + 1 |-> g[i]]
    OBVIOUS
  <2> HIDE DEF g
  <2>6. g = [i \in 1..Len(s) |-> IF i = 1 THEN s[i] ELSE g[i - 1] \o s[i]]
    BY <2>4, <2>5
  <2> QED
    BY <2>6, Zenon DEF Joins
<1>3. Nat \subseteq Good
  <2> HIDE DEF Good
  <2> QED
    BY <1>1, <1>2, SetInduction
<1>4. \A n \in Nat : Of(n)
  BY <1>3
<1> QED
  BY <1>4

LEMMA FlattenJoins ==
  ASSUME NEW S, NEW s \in Seq(Seq(S)), Len(s) # 0
  PROVE  \E f : Joins(f, s) /\ FlattenSeq(s) = f[Len(s)]
<1>0. PICK g : Joins(g, s)
  BY JoinsExists
<1> DEFINE h == CHOOSE f : f = [i \in 1..Len(s) |-> IF i = 1 THEN s[i] ELSE f[i - 1] \o s[i]]
<1>1. Joins(h, s)
  BY <1>0, Zenon DEF Joins
<1>2. FlattenSeq(s) = h[Len(s)]
  BY DEF FlattenSeq
<1> HIDE DEF h
<1> QED
  BY <1>1, <1>2

LEMMA FlattenEmpty == FlattenSeq(<<>>) = <<>>
  BY DEF FlattenSeq

(* What is added at the end of a sequence comes after what the rest joins to.*)
LEMMA FlattenAppend ==
  ASSUME NEW S, NEW s \in Seq(Seq(S)), NEW e \in Seq(S), FlattenSeq(s) \in Seq(S)
  PROVE  FlattenSeq(Append(s, e)) = FlattenSeq(s) \o e
<1> DEFINE t == Append(s, e)
           n == Len(s)
<1>1. t \in Seq(Seq(S)) /\ Len(t) = n + 1 /\ t[n + 1] = e /\ n \in Nat
  OBVIOUS
<1>2. Len(t) # 0
  BY <1>1
<1>3. PICK f : Joins(f, t) /\ FlattenSeq(t) = f[Len(t)]
  <2> HIDE DEF t
  <2> QED
    BY <1>1, <1>2, FlattenJoins
<1>4. f[n + 1] = IF n + 1 = 1 THEN t[n + 1] ELSE f[(n + 1) - 1] \o t[n + 1]
  <2>1. n + 1 \in 1..Len(t) /\ Len(t) \in Nat
    BY <1>1
  <2> HIDE DEF t, n
  <2> QED
    BY <1>3, <2>1, JoinsAt
<1>5. CASE n = 0
  <2>1. s = <<>>
    BY <1>5
  <2>2. <<>> \o e = e
    OBVIOUS
  <2>3. FlattenSeq(s) \o e = e
    BY <2>1, <2>2, FlattenEmpty, Zenon
  <2> HIDE DEF t
  <2> QED
    BY <1>1, <1>3, <1>4, <1>5, <2>3 DEF t
<1>6. CASE n # 0
  <2> DEFINE g == [i \in 1..Len(s) |-> f[i]]
  <2>1. Joins(g, s)
    BY <1>3, JoinsPrefix
  <2>2. PICK h : Joins(h, s) /\ FlattenSeq(s) = h[Len(s)]
    BY <1>6, FlattenJoins
  <2>3. n \in 1..Len(s) /\ g[n] = f[n] /\ (n + 1) - 1 = n /\ n + 1 # 1
    BY <1>1, <1>6
  <2>4. g[n] = h[n]
    <3> HIDE DEF g
    <3> QED
      BY <2>1, <2>2, <2>3, JoinsUnique
  <2>5. FlattenSeq(s) = f[n]
    BY <2>2, <2>3, <2>4
  <2> HIDE DEF t
  <2> QED
    BY <1>1, <1>3, <1>4, <2>3, <2>5 DEF t
<1> QED
  BY <1>5, <1>6

(* Joining sequences over a set gives one over that set.                     *)
LEMMA FlattenType ==
  ASSUME NEW S
  PROVE  \A s \in Seq(Seq(S)) : FlattenSeq(s) \in Seq(S)
<1> DEFINE Of(n) == \A s \in Seq(Seq(S)) : Len(s) = n => FlattenSeq(s) \in Seq(S)
           Good == {n \in Nat : Of(n)}
<1>1. 0 \in Good
  <2> SUFFICES ASSUME NEW s \in Seq(Seq(S)), Len(s) = 0
               PROVE  FlattenSeq(s) \in Seq(S)
    OBVIOUS
  <2>1. s = <<>> /\ <<>> \in Seq(S)
    OBVIOUS
  <2> QED
    BY <2>1, FlattenEmpty, Zenon
<1>2. ASSUME NEW n \in Nat, n \in Good
      PROVE  n + 1 \in Good
  <2> SUFFICES ASSUME NEW s \in Seq(Seq(S)), Len(s) = n + 1
               PROVE  FlattenSeq(s) \in Seq(S)
    OBVIOUS
  <2> DEFINE t == [i \in 1..n |-> s[i]]
             e == s[n + 1]
  <2>1. t \in Seq(Seq(S)) /\ Len(t) = n /\ e \in Seq(S) /\ s = Append(t, e)
    OBVIOUS
  <2>2. FlattenSeq(t) \in Seq(S)
    BY <1>2, <2>1
  <2> HIDE DEF t, e
  <2>3. FlattenSeq(s) = FlattenSeq(t) \o e
    BY <2>1, <2>2, FlattenAppend
  <2> QED
    BY <2>1, <2>2, <2>3
<1>3. Nat \subseteq Good
  <2> HIDE DEF Good
  <2> QED
    BY <1>1, <1>2, SetInduction
<1>4. \A n \in Nat : Of(n)
  BY <1>3
<1> QED
  BY <1>4
-----------------------------------------------------------------------------
(* What a wait has collected when the first n sensors are behind it.         *)
Part(i, l) == IF Registry[i] \in expected THEN Wanted(Registry[i], l) ELSE <<>>
Parts(n, l) == [i \in 1..n |-> Part(i, l)]

(* While a wait lasts, it has collected exactly the readings of the sensors  *)
(* behind it that were measuring when it began, and those before it that     *)
(* were measuring then still have their measurement, finished or not.        *)
Collected == call = "waiting" => results = FlattenSeq(Parts(next - 1, label))

StillMeasuring ==
  call = "waiting" =>
    \A i \in next..Len(Registry) :
      Registry[i] \in expected <=> Registry[i] \in Fake \/ phase[Registry[i]] # "idle"

IInv == TypeOK /\ Collected /\ StillMeasuring /\ WaitIsExact

(* The readings that a wait takes from one sensor are readings of sensors.   *)
LEMMA WantedType ==
  ASSUME NEW s \in Sensor, NEW l
  PROVE  Wanted(s, l) \in Seq(Reading)
<1> DEFINE one(i) == IF l \in {All, Channels[s][i].label}
                     THEN <<[sensor |-> s, channel |-> Channels[s][i]]>>
                     ELSE <<>>
           t == [i \in DOMAIN Channels[s] |-> one(i)]
<1>1. Channels[s] \in Seq(Channel)
  BY SensorsAssumption
<1>2. ASSUME NEW i \in DOMAIN Channels[s]
      PROVE  one(i) \in Seq(Reading)
  <2>1. Channels[s][i] \in Channel
    BY <1>1
  <2>2. [sensor |-> s, channel |-> Channels[s][i]] \in Reading
    BY <2>1 DEF Reading
  <2> QED
    BY <2>2
<1> HIDE DEF one
<1>3. t \in Seq(Seq(Reading))
  BY <1>1, <1>2
<1>4. FlattenSeq(t) \in Seq(Reading)
  BY <1>3, FlattenType
<1> QED
  BY <1>4 DEF Wanted, t, one

LEMMA RegistryType ==
  /\ Len(Registry) \in Nat /\ DOMAIN Registry = 1..Len(Registry)
  /\ \A i \in 1..Len(Registry) : Registry[i] \in Sensor
  /\ \A i, j \in 1..Len(Registry) : Registry[i] = Registry[j] => i = j
  BY SensorsAssumption DEF IsInjective

LEMMA PartsType ==
  ASSUME NEW n \in Nat, n <= Len(Registry), NEW l
  PROVE  /\ Parts(n, l) \in Seq(Seq(Reading))
         /\ FlattenSeq(Parts(n, l)) \in Seq(Reading)
<1>1. ASSUME NEW i \in 1..n
      PROVE  Part(i, l) \in Seq(Reading)
  <2>1. Registry[i] \in Sensor
    BY RegistryType
  <2> QED
    BY <2>1, WantedType DEF Part
<1>2. Parts(n, l) \in Seq(Seq(Reading))
  BY <1>1 DEF Parts
<1> QED
  BY <1>2, FlattenType

(* One sensor further, its part is added at the end.                         *)
LEMMA PartsStep ==
  ASSUME NEW n \in 1..Len(Registry), NEW l
  PROVE  FlattenSeq(Parts(n, l)) = FlattenSeq(Parts(n - 1, l)) \o Part(n, l)
<1>1. n - 1 \in Nat /\ n \in Nat /\ n - 1 <= Len(Registry) /\ (n - 1) + 1 = n
  BY RegistryType
<1>2. Parts(n - 1, l) \in Seq(Seq(Reading)) /\ FlattenSeq(Parts(n - 1, l)) \in Seq(Reading)
  BY <1>1, PartsType
<1>3. Part(n, l) \in Seq(Reading)
  BY RegistryType, WantedType DEF Part
<1>4. Parts(n, l) = Append(Parts(n - 1, l), Part(n, l))
  <2>1. Len(Parts(n - 1, l)) = n - 1 /\ DOMAIN Parts(n - 1, l) = 1..n - 1
    BY <1>1, <1>2 DEF Parts
  <2>2. Append(Parts(n - 1, l), Part(n, l)) =
          [i \in 1..n |-> IF i = n THEN Part(n, l) ELSE Parts(n - 1, l)[i]]
    BY <1>1, <1>2, <1>3, <2>1
  <2>3. \A i \in 1..n : (IF i = n THEN Part(n, l) ELSE Parts(n - 1, l)[i]) = Part(i, l)
    BY <1>1 DEF Parts
  <2> QED
    BY <2>2, <2>3 DEF Parts
<1> QED
  BY <1>2, <1>3, <1>4, FlattenAppend
-----------------------------------------------------------------------------
LEMMA InitInv == Init => IInv
<1> SUFFICES ASSUME Init PROVE IInv
  OBVIOUS
<1>1. TypeOK
  BY RegistryType DEF Init, TypeOK, Phase
<1> QED
  BY <1>1 DEF Init, IInv, Collected, StillMeasuring, WaitIsExact

LEMMA NextInv == IInv /\ [Next]_vars => IInv'
<1> SUFFICES ASSUME IInv, [Next]_vars PROVE IInv'
  OBVIOUS
<1> USE RegistryType
<1>0. TypeOK /\ Collected /\ StillMeasuring /\ WaitIsExact
  BY DEF IInv
<1>1. ASSUME NEW cat \in Category \cup {All}, NEW n \in 1..Len(Registry) + 1, Trigger(cat, n)
      PROVE  IInv'
  <2>1. TypeOK'
    BY <1>0, <1>1 DEF TypeOK, Trigger, Answer, Phase
  <2>2. call' = "idle" /\ last'.op = "trigger"
    BY <1>1 DEF Trigger, Answer
  <2> QED
    BY <2>1, <2>2 DEF IInv, Collected, StillMeasuring, WaitIsExact
<1>2. ASSUME NEW l \in Label \cup {All}, WaitBegin(l)
      PROVE  IInv'
  <2>1. TypeOK'
    BY <1>0, <1>2, SensorsAssumption DEF TypeOK, WaitBegin
  <2>2. Collected'
    <3>1. next' - 1 = 0 /\ results' = <<>>
      BY <1>2 DEF WaitBegin
    <3>2. [i \in 1..0 |-> Part(i, label)]' = <<>>
      OBVIOUS
    <3> QED
      BY <3>1, <3>2, FlattenEmpty DEF Collected, Parts
  <2>3. StillMeasuring'
    BY <1>0, <1>2 DEF StillMeasuring, WaitBegin
  <2>4. WaitIsExact'
    BY <1>2 DEF WaitBegin, WaitIsExact
  <2> QED
    BY <2>1, <2>2, <2>3, <2>4 DEF IInv
<1>3. CASE Skip
  <2> USE <1>3 DEF Skip, Awaiting, Awaited
  <2>1. TypeOK'
    BY <1>0 DEF TypeOK
  <2>2. next \in 1..Len(Registry) /\ next' - 1 = next /\ Part(next, label) = <<>>
    BY <1>0 DEF TypeOK, StillMeasuring, Part
  <2>3. Collected'
    <3>1. FlattenSeq(Parts(next, label)) = FlattenSeq(Parts(next - 1, label)) \o <<>>
      BY <2>2, PartsStep
    <3>2. FlattenSeq(Parts(next - 1, label)) \in Seq(Reading)
      BY <2>2, PartsType
    <3>3. FlattenSeq(Parts(next, label)) = results
      BY <1>0, <3>1, <3>2 DEF Collected
    <3>4. Parts(next, label)' = Parts(next', label)
      BY DEF Parts, Part
    <3> QED
      BY <2>2, <3>3 DEF Collected, Parts, Part
  <2>4. StillMeasuring'
    BY <1>0, <2>2 DEF StillMeasuring
  <2>5. WaitIsExact'
    BY DEF WaitIsExact
  <2> QED
    BY <2>1, <2>3, <2>4, <2>5 DEF IInv
<1>4. CASE Collect
  <2> USE <1>4 DEF Collect, Awaiting, Awaited
  <2>1. next \in 1..Len(Registry) /\ Registry[next] \in Sensor
    OBVIOUS
  <2>2. Part(next, label) = Wanted(Registry[next], label)
    BY <1>0, <2>1 DEF StillMeasuring, Part
  <2>3. FlattenSeq(Parts(next, label)) = results \o Wanted(Registry[next], label)
    BY <1>0, <2>1, <2>2, PartsStep DEF Collected
  <2>4. TypeOK'
    <3>1. Wanted(Registry[next], label) \in Seq(Reading)
      BY <2>1, WantedType
    <3>2. results' \in Seq(Reading)
      <4>1. results \in Seq(Reading)
        BY <1>0 DEF TypeOK
      <4>2. results \o Wanted(Registry[next], label) \in Seq(Reading)
        BY <3>1, <4>1
      <4>3. results' \in {results, results \o Wanted(Registry[next], label)}
        OBVIOUS
      <4> QED
        BY <4>1, <4>2, <4>3, Zenon
    <3>3. /\ phase' \in [Sensor -> Phase] /\ call' \in {"idle", "waiting", "panicked"}
          /\ next' \in 1..Len(Registry) + 1
      BY <1>0, <2>1 DEF TypeOK, Phase
    <3> QED
      BY <1>0, <3>2, <3>3 DEF TypeOK
  <2>5. CASE call' = "panicked"
    BY <2>4, <2>5 DEF IInv, Collected, StillMeasuring, WaitIsExact
  <2>6. CASE call' # "panicked"
    <3>1. /\ next' = next + 1 /\ call' = "waiting"
          /\ results' = results \o Wanted(Registry[next], label)
      BY <2>6
    <3>2. Collected'
      <4>1. next' - 1 = next /\ label' = label /\ expected' = expected
        BY <2>1, <3>1
      <4>2. Parts(next - 1, label)' = Parts(next, label)
        BY <4>1 DEF Parts, Part
      <4> QED
        BY <2>3, <3>1, <4>1, <4>2 DEF Collected
    <3>3. StillMeasuring'
      BY <1>0, <2>1, <3>1 DEF StillMeasuring, TypeOK
    <3> QED
      BY <2>4, <3>1, <3>2, <3>3 DEF IInv, WaitIsExact
  <2> QED
    BY <2>5, <2>6
<1>5. CASE WaitFails
  <2>1. TypeOK'
    BY <1>0, <1>5 DEF TypeOK, WaitFails, Answer, Awaiting, Awaited, Phase
  <2> QED
    BY <1>5, <2>1 DEF WaitFails, Answer, IInv, Collected, StillMeasuring, WaitIsExact
<1>6. CASE WaitDone
  <2> USE <1>6 DEF WaitDone
  <2>1. TypeOK'
    BY <1>0 DEF TypeOK, Answer
  <2>2. next - 1 = Len(Registry)
    BY <1>0 DEF TypeOK
  <2>3. results = FlattenSeq(Parts(Len(Registry), label))
    BY <1>0, <2>2 DEF Collected
  <2>4. WaitIsExact'
    BY <2>3 DEF WaitIsExact, Answer, Parts, Part
  <2> QED
    BY <2>1, <2>4 DEF IInv, Collected, StillMeasuring
<1>7. ASSUME NEW s \in Sensor, Measured(s)
      PROVE  IInv'
  <2> USE <1>7 DEF Measured
  <2>1. TypeOK'
    BY <1>0 DEF TypeOK, Phase
  <2>2. Collected'
    BY <1>0 DEF Collected, Parts, Part
  <2>3. StillMeasuring'
    BY <1>0 DEF StillMeasuring, TypeOK
  <2>4. WaitIsExact'
    BY <1>0 DEF WaitIsExact
  <2> QED
    BY <2>1, <2>2, <2>3, <2>4 DEF IInv
<1>8. CASE UNCHANGED vars
  BY <1>0, <1>8 DEF vars, IInv, TypeOK, Collected, Parts, Part, StillMeasuring, WaitIsExact
<1> QED
  BY <1>1, <1>2, <1>3, <1>4, <1>5, <1>6, <1>7, <1>8 DEF Next, Wait

LEMMA Invariant == Spec => []IInv
  BY InitInv, NextInv, PTL DEF Spec

(* Type correctness, for every registry.                                     *)
THEOREM TypeCorrect == Spec => []TypeOK
<1>1. IInv => TypeOK
  BY DEF IInv
<1> QED
  BY <1>1, Invariant, PTL

(* wait_for_reading returns the readings of exactly the sensors that were    *)
(* measuring when it was called, in the order of the registry.               *)
THEOREM WaitIsExactHolds == Spec => []WaitIsExact
<1>1. IInv => WaitIsExact
  BY DEF IInv
<1> QED
  BY <1>1, Invariant, PTL
=============================================================================
