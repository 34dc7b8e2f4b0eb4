--------------------------- MODULE ToolRouterProofs ---------------------------
(***************************************************************************)
(* What is proved of ToolRouter, of the operations of FileOps and of the   *)
(* normaliser: the state has its type, each tool keeps to its own files,   *)
(* the flags a call gives reach the tool, an edit replaces the one place   *)
(* it names, and a search reports what it found or says that it stopped.   *)
(***************************************************************************)
EXTENDS ToolRouter, DataLemmas, SequenceTheorems

-----------------------------------------------------------------------------
(***************************************************************************)
(* The normaliser.                                                         *)
(***************************************************************************)
IsObject(args) ==
    /\ Len(args) \in Nat
    /\ DOMAIN args = 1 .. Len(args)
    /\ Keys(args) \subseteq DOMAIN Kebab
    /\ \A i, j \in DOMAIN args : args[i][1] = args[j][1] => i = j

\* after holds the maps after each of the first n turns of the loop.
AreTurns(after, tool, args, n) == after =
    [i \in 0 .. n |->
        IF i = 0 THEN AsMap(args)
        ELSE NormalizeEntry(tool, after[i - 1], args[i][1], args[i][2])]

Turns(tool, args, n) == CHOOSE after : AreTurns(after, tool, args, n)

\* There is such a function: the turns so far and one more.
LEMMA TurnsExist ==
    ASSUME NEW tool, NEW args, NEW n \in Nat
    PROVE  \E after : AreTurns(after, tool, args, n)
<1> DEFINE T == {k \in Nat : \E after : AreTurns(after, tool, args, k)}
<1>1. 0 \in T
  <2>1. AreTurns([i \in 0 .. 0 |-> AsMap(args)], tool, args, 0)
    BY DEF AreTurns
  <2> QED
    BY <2>1
<1>2. ASSUME NEW k \in Nat, k \in T  PROVE k + 1 \in T
  <2>1. PICK before : AreTurns(before, tool, args, k)
    BY <1>2
  <2> DEFINE after == [i \in 0 .. k + 1 |->
                          IF i \in 0 .. k THEN before[i]
                          ELSE NormalizeEntry(tool, before[k], args[k + 1][1],
                                              args[k + 1][2])]
  <2>2. \A i \in 0 .. k + 1 : i # 0 => i - 1 \in 0 .. k /\ after[i - 1] = before[i - 1]
    OBVIOUS
  <2>3. ASSUME NEW i \in 0 .. k + 1
        PROVE  after[i] = IF i = 0 THEN AsMap(args)
                          ELSE NormalizeEntry(tool, after[i - 1], args[i][1], args[i][2])
    <3>1. CASE i \in 0 .. k
      BY <2>1, <2>2, <3>1 DEF AreTurns
    <3>2. CASE i = k + 1
      BY <2>2, <3>2
    <3> QED
      BY <3>1, <3>2
  <2>4. AreTurns(after, tool, args, k + 1)
    BY <2>3 DEF AreTurns
  <2> HIDE DEF after
  <2>5. k + 1 \in Nat
    OBVIOUS
  <2> QED
    BY <2>4, <2>5
<1>3. n \in T
  <2> HIDE DEF T
  <2> QED
    BY <1>1, <1>2, NaturalsFromZero
<1> QED
  BY <1>3

LEMMA TurnsSteps ==
    ASSUME NEW tool, NEW args, NEW n \in Nat
    PROVE  LET after == Turns(tool, args, n)
           IN  /\ after[0] = AsMap(args)
               /\ \A i \in 1 .. n : after[i] =
                      NormalizeEntry(tool, after[i - 1], args[i][1], args[i][2])
<1>1. AreTurns(Turns(tool, args, n), tool, args, n)
  BY TurnsExist DEF Turns
<1> QED
  BY <1>1 DEF AreTurns

LEMMA NormalizeTurns ==
    ASSUME NEW tool \in DOMAIN Registry, NEW args
    PROVE  normalize(tool, args) = Turns(tool, args, Len(args))[Len(args)]
  BY DEF normalize, Turns, AreTurns

-----------------------------------------------------------------------------
IsSwitch(tool, flag) ==
    flag \in DOMAIN Registry[tool] /\ Registry[tool][flag] \in {"bool", "switch"}

Target(args, i) == Kebab[args[i][1]]

\* The value is one the model gave under that name or with underscores, in
\* the form the tool takes.
Given(tool, args, flag, value) ==
    \E entry \in Range(args) :
        Kebab[entry[1]] = flag /\ value = Taken(tool, flag, entry[2])

\* One turn: the key makes way for its flag, and the flag takes the value.
TakesEntry(new, tool, map, key, value, flag) ==
    /\ DOMAIN new = (DOMAIN map \ {key}) \cup {flag}
    /\ \A k \in DOMAIN map \ {key, flag} : new[k] = map[k]
    /\ IsBoolText(tool, key, value) => new[flag] = BoolTexts[value]
    /\ ~IsBoolText(tool, key, value) =>
           new[flag] = IF flag = key THEN map[key] ELSE value

LEMMA EntryNormalized ==
    ASSUME NEW tool, NEW map, NEW key, key \in DOMAIN map, NEW value
    PROVE  TakesEntry(NormalizeEntry(tool, map, key, value), tool, map, key, value,
                      Kebab[key])
<1>1. CASE Kebab[key] = key
  BY <1>1 DEF NormalizeEntry, Rename, TakesEntry
<1>2. CASE Kebab[key] # key
  BY <1>2 DEF NormalizeEntry, Rename, TakesEntry
<1> QED
  BY <1>1, <1>2

LEMMA ObjectMap ==
    ASSUME NEW args, IsObject(args)
    PROVE  /\ DOMAIN AsMap(args) = {args[i][1] : i \in DOMAIN args}
           /\ \A i \in DOMAIN args : AsMap(args)[args[i][1]] = args[i][2]
<1>1. ASSUME NEW i \in DOMAIN args
      PROVE  (CHOOSE entry \in Range(args) : entry[1] = args[i][1]) = args[i]
  <2>1. args[i] \in Range(args) /\ args[i][1] = args[i][1]
    BY DEF Range
  <2>2. \A e \in Range(args) : e[1] = args[i][1] => e = args[i]
    BY DEF Range, IsObject
  <2> QED
    BY <2>1, <2>2
<1> QED
  BY <1>1 DEF AsMap, Keys

\* After n turns: every key names a flag that was given, no key of the n turns
\* is left under another name than its flag, the flags of the n turns have a
\* value that was given, in the form the tool takes, and the entries to come
\* are as they were, unless their flag has been set.
Turned(tool, args, map, n) ==
    /\ \A k \in DOMAIN map :
          /\ k \in DOMAIN Kebab
          /\ \E i \in DOMAIN args : Target(args, i) = Kebab[k]
          /\ Kebab[k] # k => k \in Keys(args) /\ \A i \in 1 .. n : k # args[i][1]
    /\ \A i \in 1 .. n :
          /\ Target(args, i) \in DOMAIN map
          /\ Target(args, i) \in DOMAIN Registry[tool] =>
                Given(tool, args, Target(args, i), map[Target(args, i)])
    /\ \A i \in n + 1 .. Len(args) :
          /\ args[i][1] \in DOMAIN map
          /\ (\A j \in 1 .. n : Target(args, j) # args[i][1]) => map[args[i][1]] = args[i][2]

LEMMA NoTurn ==
    ASSUME NEW tool, NEW args, IsObject(args)
    PROVE  Turned(tool, args, AsMap(args), 0)
<1>1. DOMAIN AsMap(args) = {args[i][1] : i \in DOMAIN args}
  BY ObjectMap
<1>2. \A i \in DOMAIN args : AsMap(args)[args[i][1]] = args[i][2]
  BY ObjectMap
<1> DEFINE map == AsMap(args)
<1> HIDE DEF map
<1>3. ASSUME NEW k \in DOMAIN map
      PROVE  /\ k \in DOMAIN Kebab /\ k \in Keys(args)
             /\ \E i \in DOMAIN args : Target(args, i) = Kebab[k]
  <2>1. PICK i \in DOMAIN args : k = args[i][1]
    BY <1>1 DEF map
  <2> QED
    BY <2>1 DEF IsObject, Keys, Target
<1>4. \A i \in 1 .. Len(args) : map[args[i][1]] = args[i][2] /\ args[i][1] \in DOMAIN map
  BY <1>1, <1>2 DEF IsObject, map
<1>5. Turned(tool, args, map, 0)
  BY <1>3, <1>4 DEF Turned, IsObject
<1> QED
  BY <1>5 DEF map

LEMMA TurnedOnce ==
    ASSUME NEW tool, NEW args, IsObject(args), NEW map, NEW n \in Nat, n < Len(args),
           Turned(tool, args, map, n)
    PROVE  Turned(tool, args,
                  NormalizeEntry(tool, map, args[n + 1][1], args[n + 1][2]), n + 1)
<1> DEFINE key   == args[n + 1][1]
           value == args[n + 1][2]
           flag  == Kebab[key]
           new   == NormalizeEntry(tool, map, key, value)
<1>1. /\ n + 1 \in DOMAIN args /\ n + 1 \in n + 1 .. Len(args) /\ n + 1 \in Nat
      /\ 1 .. n + 1 = 1 .. n \cup {n + 1} /\ Len(args) \in Nat
      /\ DOMAIN args = 1 .. Len(args)
  BY DEF IsObject
<1>2. /\ key \in DOMAIN map /\ flag \in DOMAIN Kebab
      /\ Kebab[flag] = flag /\ flag = Target(args, n + 1)
      /\ args[n + 1] \in Range(args)
  <2>1. key \in DOMAIN map
    BY <1>1 DEF Turned
  <2>2. key \in DOMAIN Kebab
    BY <2>1 DEF Turned
  <2>3. args[n + 1] \in Range(args)
    BY <1>1 DEF Range
  <2> QED
    BY <2>1, <2>2, <2>3, KebabAssumption DEF Target
<1>3. /\ DOMAIN new = (DOMAIN map \ {key}) \cup {flag}
      /\ \A k \in DOMAIN map \ {key, flag} : new[k] = map[k]
      /\ IsBoolText(tool, key, value) => new[flag] = BoolTexts[value]
      /\ ~IsBoolText(tool, key, value) => new[flag] = IF flag = key THEN map[key] ELSE value
  <2>1. TakesEntry(new, tool, map, key, value, flag)
    BY <1>2, EntryNormalized
  <2> HIDE DEF new, key, value, flag
  <2> QED
    BY <2>1 DEF TakesEntry
<1>4. flag \in DOMAIN Registry[tool] =>
          Given(tool, args, flag, IF IsBoolText(tool, key, value) THEN BoolTexts[value] ELSE value)
  BY <1>2 DEF Given, Taken, IsBoolText, key, value
<1>5. IsBoolText(tool, key, value) <=> IsSwitch(tool, flag) /\ value \in DOMAIN BoolTexts
  BY DEF IsBoolText, IsSwitch
<1> HIDE DEF new, key, value
<1>6. ASSUME NEW k \in DOMAIN new
      PROVE  /\ k \in DOMAIN Kebab
             /\ \E i \in DOMAIN args : Target(args, i) = Kebab[k]
             /\ Kebab[k] # k => k \in Keys(args) /\ \A i \in 1 .. n + 1 : k # args[i][1]
  <2>1. CASE k # flag
    <3>1. k \in DOMAIN map /\ k # key
      BY <1>3, <2>1
    <3> QED
      BY <3>1, <1>1 DEF Turned, key
  <2>2. CASE k = flag
    BY <1>1, <1>2, <2>2
  <2> QED
    BY <2>1, <2>2
<1>7. ASSUME NEW i \in 1 .. n + 1
      PROVE  /\ Target(args, i) \in DOMAIN new
             /\ Target(args, i) \in DOMAIN Registry[tool] =>
                   Given(tool, args, Target(args, i), new[Target(args, i)])
  <2>1. CASE Target(args, i) = flag
    <3>1. flag \in DOMAIN new
      BY <1>3
    <3>2. ASSUME flag \in DOMAIN Registry[tool]
          PROVE  Given(tool, args, flag, new[flag])
      <4>1. CASE IsBoolText(tool, key, value)
        BY <1>3, <1>4, <3>2, <4>1
      <4>2. CASE ~IsBoolText(tool, key, value) /\ flag # key
        BY <1>3, <1>4, <3>2, <4>2
      <4>3. CASE ~IsBoolText(tool, key, value) /\ flag = key
        <5>1. new[flag] = map[key]
          BY <1>3, <4>3
        <5>2. CASE \A j \in 1 .. n : Target(args, j) # key
          <6>1. map[key] = value
            BY <1>1, <5>2 DEF Turned, key, value
          <6> QED
            BY <1>4, <3>2, <4>3, <5>1, <6>1
        <5>3. CASE \E j \in 1 .. n : Target(args, j) = key
          BY <3>2, <4>3, <5>1, <5>3 DEF Turned
        <5> QED
          BY <5>2, <5>3
      <4> QED
        BY <4>1, <4>2, <4>3
    <3> QED
      BY <2>1, <3>1, <3>2
  <2>2. CASE Target(args, i) # flag
    <3>1. i \in 1 .. n
      BY <1>1, <1>2, <2>2
    <3>2. Target(args, i) \in DOMAIN map /\ Kebab[Target(args, i)] = Target(args, i)
      BY <1>1, <3>1, KebabAssumption DEF Turned, Target, IsObject, Keys
    <3>3. Target(args, i) # key
      BY <2>2, <3>2
    <3>4. Target(args, i) \in DOMAIN new /\ new[Target(args, i)] = map[Target(args, i)]
      BY <1>3, <2>2, <3>2, <3>3
    <3> QED
      BY <3>1, <3>4 DEF Turned
  <2> QED
    BY <2>1, <2>2
<1>8. ASSUME NEW i \in n + 1 + 1 .. Len(args)
      PROVE  /\ args[i][1] \in DOMAIN new
             /\ (\A j \in 1 .. n + 1 : Target(args, j) # args[i][1]) =>
                    new[args[i][1]] = args[i][2]
  <2>1. i \in n + 1 .. Len(args) /\ i \in DOMAIN args /\ i # n + 1
    BY <1>1
  <2>2. args[i][1] # key /\ args[i][1] \in DOMAIN map
    BY <1>1, <2>1 DEF IsObject, Turned, key
  <2>3. ASSUME \A j \in 1 .. n + 1 : Target(args, j) # args[i][1]
        PROVE  new[args[i][1]] = args[i][2]
    <3>1. args[i][1] # flag
      BY <1>1, <1>2, <2>3
    <3>2. map[args[i][1]] = args[i][2]
      BY <1>1, <2>1, <2>3 DEF Turned
    <3> QED
      BY <1>3, <2>2, <3>1, <3>2
  <2> QED
    BY <1>3, <2>2, <2>3
<1> QED
  BY <1>6, <1>7, <1>8 DEF Turned, new, key, value

LEMMA TurnedToTheEnd ==
    ASSUME NEW tool \in DOMAIN Registry, NEW args, IsObject(args)
    PROVE  Turned(tool, args, normalize(tool, args), Len(args))
<1> DEFINE after == Turns(tool, args, Len(args))
           T == {k \in Nat : k <= Len(args) => Turned(tool, args, after[k], k)}
<1>1. Len(args) \in Nat
  BY DEF IsObject
<1>2. /\ after[0] = AsMap(args)
      /\ \A i \in 1 .. Len(args) : after[i] =
             NormalizeEntry(tool, after[i - 1], args[i][1], args[i][2])
  BY <1>1, TurnsSteps
<1> HIDE DEF after
<1>3. 0 \in T
  BY <1>2, NoTurn
<1>4. ASSUME NEW k \in Nat, k \in T  PROVE k + 1 \in T
  <2>1. ASSUME k + 1 <= Len(args)
        PROVE  Turned(tool, args, after[k + 1], k + 1)
    <3>1. k < Len(args) /\ k + 1 \in 1 .. Len(args) /\ k + 1 - 1 = k
      BY <1>1, <2>1
    <3>2. after[k + 1] = NormalizeEntry(tool, after[k], args[k + 1][1], args[k + 1][2])
      BY <1>2, <3>1
    <3>3. Turned(tool, args, after[k], k)
      BY <1>4, <3>1
    <3> QED
      BY <3>1, <3>2, <3>3, TurnedOnce
  <2> QED
    BY <2>1
<1>5. Nat \subseteq T
  <2> HIDE DEF T
  <2> QED
    BY <1>3, <1>4, NaturalsFromZero
<1>6. Turned(tool, args, after[Len(args)], Len(args))
  BY <1>1, <1>5
<1> QED
  BY <1>6, NormalizeTurns DEF after

\* What normalize makes of an object: each key is a flag, and each value was
\* given for it, in the form the tool takes.
LEMMA Normalized ==
    ASSUME NEW tool \in DOMAIN Registry, NEW args, IsObject(args)
    PROVE  LET map == normalize(tool, args)
           IN  \A k \in DOMAIN map :
                  /\ Kebab[k] = k
                  /\ k \in DOMAIN Registry[tool] => Given(tool, args, k, map[k])
<1> DEFINE map == normalize(tool, args)
<1>1. Turned(tool, args, map, Len(args))
  BY TurnedToTheEnd
<1> HIDE DEF map
<1>2. ASSUME NEW k \in DOMAIN map
      PROVE  /\ Kebab[k] = k
             /\ k \in DOMAIN Registry[tool] => Given(tool, args, k, map[k])
  <2>1. Kebab[k] = k
    <3>1. k \in Keys(args) => \E i \in 1 .. Len(args) : k = args[i][1]
      BY DEF Keys, IsObject
    <3> QED
      BY <1>1, <3>1 DEF Turned
  <2>2. PICK i \in 1 .. Len(args) : Target(args, i) = k
    BY <1>1, <2>1 DEF Turned, IsObject
  <2> QED
    BY <1>1, <2>1, <2>2 DEF Turned
<1> QED
  BY <1>2 DEF map

-----------------------------------------------------------------------------
(***************************************************************************)
(* The count of matches.                                                   *)
(***************************************************************************)
\* The count from each place of a text of length n on, when the pattern stands
\* at the places S.
Counted(count, first, n, stride, S) ==
    count = [i \in first .. n + stride + 1 |->
                IF i > n + 1 THEN 0
                ELSE IF i \in S THEN 1 + count[i + stride]
                ELSE count[i + 1]]

LEMMA CountExists ==
    ASSUME NEW n \in Nat, NEW stride \in Nat \ {0}, NEW S \in SUBSET (1 .. n + 1)
    PROVE  \E count : Counted(count, 1, n, stride, S)
<1> DEFINE N == n + stride + 1
           T == {k \in Nat : k < N => \E count : Counted(count, N - k, n, stride, S)}
<1>1. 0 \in T
  <2>1. Counted([i \in N .. N |-> 0], N, n, stride, S)
    BY DEF Counted
  <2>2. N - 0 = N
    OBVIOUS
  <2> HIDE DEF N
  <2> QED
    BY <2>1, <2>2
<1>2. ASSUME NEW k \in Nat, k \in T  PROVE k + 1 \in T
  <2>1. ASSUME k + 1 < N
        PROVE  \E count : Counted(count, N - (k + 1), n, stride, S)
    <3> DEFINE j == N - (k + 1)
    <3>1. j \in Nat \ {0} /\ N - k = j + 1 /\ k < N /\ N \in Nat /\ j < N
      BY <2>1
    <3>2. PICK old : Counted(old, j + 1, n, stride, S)
      BY <1>2, <3>1
    <3> HIDE DEF j
    <3> DEFINE new == [i \in j .. N |->
                          IF i > j THEN old[i]
                          ELSE IF i > n + 1 THEN 0
                          ELSE IF i \in S THEN 1 + old[i + stride]
                          ELSE old[i + 1]]
    <3>3. \A i \in j + 1 .. N : i \in j .. N /\ i > j
      BY <3>1
    <3>4. \A i \in j + 1 .. N : new[i] = old[i]
      BY <3>3
    <3>5. ASSUME NEW i \in j .. N
          PROVE  new[i] = IF i > n + 1 THEN 0
                          ELSE IF i \in S THEN 1 + new[i + stride]
                          ELSE new[i + 1]
      <4>1. i <= n + 1 => i + stride \in j + 1 .. N /\ i + 1 \in j + 1 .. N
        BY <3>1
      <4>2. i <= n + 1 => new[i + stride] = old[i + stride] /\ new[i + 1] = old[i + 1]
        BY <3>4, <4>1
      <4>3. CASE i > j
        <5>1. i \in j + 1 .. N
          BY <3>1, <4>3
        <5>2. old[i] = IF i > n + 1 THEN 0
                       ELSE IF i \in S THEN 1 + old[i + stride]
                       ELSE old[i + 1]
          BY <3>2, <5>1 DEF Counted
        <5> HIDE DEF new
        <5> QED
          BY <3>1, <3>4, <4>2, <5>1, <5>2
      <4>4. CASE ~(i > j)
        <5>1. new[i] = IF i > n + 1 THEN 0
                       ELSE IF i \in S THEN 1 + old[i + stride]
                       ELSE old[i + 1]
          BY <4>4
        <5> HIDE DEF new
        <5> QED
          BY <3>1, <4>2, <5>1
      <4> QED
        BY <4>3, <4>4
    <3>6. Counted(new, j, n, stride, S)
      BY <3>5 DEF Counted
    <3> HIDE DEF new
    <3> QED
      BY <3>6 DEF j
  <2>2. k + 1 \in Nat
    OBVIOUS
  <2> HIDE DEF N
  <2> QED
    BY <2>1, <2>2
<1>3. Nat \subseteq T
  <2> HIDE DEF T
  <2> QED
    BY <1>1, <1>2, NaturalsFromZero
<1>4. n + stride \in Nat /\ n + stride < N /\ N - (n + stride) = 1
  OBVIOUS
<1> QED
  BY <1>3, <1>4

\* A count of one is of a place that all others overlap.
LEMMA CountOfOne ==
    ASSUME NEW n \in Nat, NEW stride \in Nat \ {0}, NEW S \in SUBSET (1 .. n + 1),
           NEW count, Counted(count, 1, n, stride, S), count[1] = 1
    PROVE  \E p \in S : \A q \in S : p <= q /\ q < p + stride
<1> DEFINE N == n + stride + 1
           Tells(i) ==
             /\ count[i] \in Nat
             /\ count[i] = 0 => \A q \in S : q < i
             /\ count[i] = 1 => \E p \in S : /\ i <= p
                                             /\ \A q \in S : i <= q => p <= q /\ q < p + stride
           T == {k \in Nat : k < N => \A i \in N - k .. N : Tells(i)}
<1>0. /\ \A i \in 1 .. N : count[i] = IF i > n + 1 THEN 0
                                      ELSE IF i \in S THEN 1 + count[i + stride]
                                      ELSE count[i + 1]
      /\ \A q \in S : q \in Nat /\ q <= n + 1 /\ q >= 1
      /\ N \in Nat
  BY DEF Counted
<1>1. 0 \in T
  <2>1. count[N] = 0
    BY <1>0
  <2>2. Tells(N)
    BY <1>0, <2>1
  <2>3. N - 0 .. N = {N}
    OBVIOUS
  <2> HIDE DEF N, Tells
  <2> QED
    BY <2>2, <2>3
<1>2. ASSUME NEW k \in Nat, k \in T  PROVE k + 1 \in T
  <2>1. ASSUME k + 1 < N  PROVE \A i \in N - (k + 1) .. N : Tells(i)
    <3>1. PICK j \in Nat : j = N - (k + 1)
      BY <2>1
    <3>2. j >= 1 /\ j < N /\ N - k = j + 1 /\ k < N
      BY <2>1, <3>1
    <3>3. \A i \in j + 1 .. N : Tells(i)
      BY <1>2, <3>2
    <3> HIDE DEF Tells
    <3>4. Tells(j)
      <4>0. count[j] = IF j > n + 1 THEN 0
                       ELSE IF j \in S THEN 1 + count[j + stride]
                       ELSE count[j + 1]
        BY <1>0, <3>2
      <4>1. CASE j > n + 1
        BY <1>0, <4>0, <4>1 DEF Tells
      <4>2. CASE j <= n + 1 /\ j \in S
        <5>1. j + stride \in j + 1 .. N
          BY <4>2
        <5>2. Tells(j + stride) /\ count[j] = 1 + count[j + stride]
          BY <3>3, <4>0, <4>2, <5>1
        <5>3. count[j] # 0 /\ count[j] \in Nat
              /\ (count[j] = 1 => \A q \in S : q < j + stride)
          BY <5>2 DEF Tells
        <5> QED
          BY <1>0, <4>2, <5>3 DEF Tells
      <4>3. CASE j <= n + 1 /\ j \notin S
        <5>1. j + 1 \in j + 1 .. N
          BY <4>3
        <5>2. Tells(j + 1) /\ count[j] = count[j + 1]
          BY <3>3, <4>0, <4>3, <5>1
        <5>3. \A q \in S : (q < j + 1 => q < j) /\ (j <= q <=> j + 1 <= q)
          BY <1>0, <4>3
        <5> QED
          BY <1>0, <5>2, <5>3 DEF Tells
      <4> QED
        BY <4>1, <4>2, <4>3
    <3>5. \A i \in j .. N : i = j \/ i \in j + 1 .. N
      OBVIOUS
    <3> QED
      BY <3>1, <3>3, <3>4, <3>5
  <2>2. k + 1 \in Nat
    OBVIOUS
  <2> HIDE DEF N, Tells
  <2> QED
    BY <2>1, <2>2
<1>3. Nat \subseteq T
  <2> HIDE DEF T
  <2> QED
    BY <1>1, <1>2, NaturalsFromZero
<1>4. n + stride \in Nat /\ n + stride < N /\ 1 \in N - (n + stride) .. N
  OBVIOUS
<1>5. Tells(1)
  <2> HIDE DEF N, Tells
  <2> QED
    BY <1>3, <1>4
<1> QED
  BY <1>0, <1>5

LEMMA OneMatch ==
    ASSUME NEW text \in Seq(Letters), NEW old \in Seq(Letters),
           MatchCount(text, old) = 1
    PROVE  \E p \in Occurrences(text, old) :
               /\ \A q \in Occurrences(text, old) : (p <= q /\ q < p + Len(old)) \/ q = p
<1> DEFINE n == Len(text)
           stride == IF old = <<>> THEN 1 ELSE Len(old)
           S == Occurrences(text, old)
           count == CHOOSE count : Counted(count, 1, n, stride, S)
<1>1. n \in Nat /\ Len(old) \in Nat /\ stride \in Nat \ {0}
      /\ (old = <<>> => Len(old) = 0) /\ (old # <<>> => stride = Len(old))
  OBVIOUS
<1>2. S \in SUBSET (1 .. n + 1)
  BY <1>1 DEF Occurrences
<1>3. MatchCount(text, old) = count[1]
  BY DEF MatchCount, Counted
<1>4. Counted(count, 1, n, stride, S)
  <2> HIDE DEF n, stride, S
  <2>1. \E c : Counted(c, 1, n, stride, S)
    BY <1>1, <1>2, CountExists
  <2> QED
    BY <2>1
<1> HIDE DEF count, n, stride, S
<1>5. PICK p \in S : \A q \in S : p <= q /\ q < p + stride
  BY <1>1, <1>2, <1>3, <1>4, CountOfOne
<1>6. \A q \in S : (p <= q /\ q < p + Len(old)) \/ q = p
  BY <1>1, <1>2, <1>5 DEF stride
<1> QED
  BY <1>5, <1>6 DEF S

-----------------------------------------------------------------------------
(***************************************************************************)
(* Files: each operation makes a file of a file.                           *)
(***************************************************************************)
Files == [kind : {"text", "missing", "binary"}, text : Seq(Letters)]

LEMMA StoredFile ==
    ASSUME NEW file \in Files, NEW text \in Seq(Letters), NEW end \in WriteEnds
    PROVE  /\ Stored(file, text, end).file \in Files
           /\ Stored(file, text, end).obs.kind \in {"FileWritten", "Error"}
           /\ Stored(file, text, end).obs.kind = "FileWritten" =>
                  Stored(file, text, end).file = Text(text)
<1>1. SubSeq(text, 1, Len(text) \div 2) \in Seq(Letters)
  <2>1. Len(text) \in Nat /\ Len(text) \div 2 \in Int /\ Len(text) \div 2 <= Len(text)
    OBVIOUS
  <2>2. \A i \in 1 .. Len(text) \div 2 : text[i] \in Letters
    BY <2>1
  <2> QED
    BY <2>1, <2>2, SubSeqProperties
<1>2. CASE end = "written"
  BY <1>2 DEF Stored, Files, Text, Observed
<1>3. CASE end = "unopened"
  BY <1>3 DEF Stored, Failed, Observed
<1>4. CASE end = "cut"
  BY <1>1, <1>4 DEF Stored, Files, Text, Failed, Observed
<1> QED
  BY <1>2, <1>3, <1>4 DEF WriteEnds

LEMMA ReplacedText ==
    ASSUME NEW text \in Seq(Letters), NEW old \in Seq(Letters), NEW new \in Seq(Letters),
           NEW p \in Occurrences(text, old)
    PROVE  SubSeq(text, 1, p - 1) \o new \o SubSeq(text, p + Len(old), Len(text))
               \in Seq(Letters)
<1>1. /\ Len(text) \in Nat /\ Len(old) \in Nat /\ p \in 1 .. Len(text) - Len(old) + 1
  BY DEF Occurrences
<1>2. p - 1 \in Int /\ p + Len(old) \in Int /\ Len(text) \in Int /\ 1 \in Int
  BY <1>1
<1>3. \A i \in 1 .. p - 1 : text[i] \in Letters
  BY <1>1
<1>4. \A i \in p + Len(old) .. Len(text) : text[i] \in Letters
  BY <1>1
<1>5. SubSeq(text, 1, p - 1) \in Seq(Letters)
  BY <1>2, <1>3, SubSeqProperties
<1>6. SubSeq(text, p + Len(old), Len(text)) \in Seq(Letters)
  BY <1>2, <1>4, SubSeqProperties
<1> QED
  BY <1>5, <1>6

\* The edit has changed the one place it can have meant.
Unambiguous(was, now, call) ==
    LET places == Occurrences(was.text, call.old)
    IN  /\ \A p, q \in places : p < q => q < p + Len(call.old)
        /\ \E p \in places :
              now = Text(SubSeq(was.text, 1, p - 1) \o call.new \o
                         SubSeq(was.text, p + Len(call.old), Len(was.text)))

LEMMA EditedFile ==
    ASSUME NEW file \in Files, NEW call, call.old \in Seq(Letters), call.new \in Seq(Letters),
           NEW end \in WriteEnds
    PROVE  LET result == edit_file(file, call.old, call.new, end)
           IN  /\ result.file \in Files
               /\ result.obs.kind \in {"FileWritten", "Error"}
               /\ result.obs.kind = "FileWritten" => Unambiguous(file, result.file, call)
<1> DEFINE old == call.old
           new == call.new
           text == file.text
           result == edit_file(file, old, new, end)
<1>1. file.text \in Seq(Letters)
  BY DEF Files
<1>2. CASE ~(file.kind = "text" /\ MatchCount(text, old) = 1)
  <2>1. result = [file |-> file, obs |-> Failed(NoCode)]
    BY <1>2 DEF edit_file
  <2> QED
    BY <2>1 DEF Failed, Observed
<1>3. CASE file.kind = "text" /\ MatchCount(text, old) = 1
  <2>1. result = Stored(file, ReplaceFirst(text, old, new), end)
    BY <1>3 DEF edit_file
  <2>2. PICK p \in Occurrences(text, old) :
           \A q \in Occurrences(text, old) : (p <= q /\ q < p + Len(old)) \/ q = p
    BY <1>1, <1>3, OneMatch
  <2>3. \A q \in Occurrences(text, old) : q \in Nat
    BY <1>1 DEF Occurrences
  <2> DEFINE least == CHOOSE i \in Occurrences(text, old) :
                          \A j \in Occurrences(text, old) : i <= j
             made  == SubSeq(text, 1, least - 1) \o new \o
                      SubSeq(text, least + Len(old), Len(text))
  <2>4. least \in Occurrences(text, old)
    <3>1. \A j \in Occurrences(text, old) : p <= j
      BY <2>2, <2>3
    <3> QED
      BY <3>1
  <2>5. ReplaceFirst(text, old, new) = made
    BY DEF ReplaceFirst
  <2> HIDE DEF least
  <2>6. made \in Seq(Letters)
    BY <1>1, <2>4, ReplacedText
  <2>7. \A a, b \in Occurrences(text, old) : a < b => b < a + Len(old)
    <3>1. Len(old) \in Nat
      OBVIOUS
    <3> QED
      BY <2>2, <2>3, <3>1
  <2>8. Unambiguous(file, Text(made), call)
    BY <2>4, <2>7 DEF Unambiguous
  <2> HIDE DEF made
  <2>9. /\ result.file \in Files
        /\ result.obs.kind \in {"FileWritten", "Error"}
        /\ result.obs.kind = "FileWritten" => result.file = Text(made)
    BY <2>1, <2>5, <2>6, StoredFile
  <2> QED
    BY <2>8, <2>9
<1> QED
  BY <1>2, <1>3

-----------------------------------------------------------------------------
(***************************************************************************)
(* Types.  Requests are numbered as they are made, and begun in order.     *)
(***************************************************************************)
ArgsOf(call) ==
    IF call.type = "nushell_tool" THEN normalize(call.tool, call.args) ELSE AsMap(<<>>)

Request(id, call) == [id |-> id, call |-> call, args |-> ArgsOf(call)]

Requests == {Request(id, call) : id \in Nat \ {0}, call \in Calls}

BeginsSession(request) ==
    /\ request \in Requests
    /\ request.call.type \in {"shell", "nushell_tool"}
    /\ request.call.type = "nushell_tool" => KnownFlags(request)

InService == IF serving = NoRequest THEN 0 ELSE 1

Numbered ==
    /\ \A i \in DOMAIN answered : answered[i].id = i /\ answered[i].call \in Calls
    /\ serving # NoRequest => serving.id = Len(answered) + 1
    /\ \A i \in DOMAIN mailbox : mailbox[i].id = Len(answered) + InService + i

Queued ==
    /\ mailbox \in Seq(Requests)
    /\ serving = NoRequest \/ BeginsSession(serving)
    /\ IsSequence(answered) /\ Len(answered) \in Nat /\ DOMAIN answered = 1 .. Len(answered)
    /\ Numbered
    /\ sent <= MaxCalls
    /\ waiting \in 0 .. sent

Typed ==
    /\ Queued
    /\ IsSequence(trace)
    /\ reply.kind \in {"none", "Structured", "Error", "Err"}
    /\ thread \in {"ready", "hung", "gone"}
    /\ session \in [defs : {session.defs}, exit : Codes \cup {NoCode}]
    /\ cwd \in Dirs
    /\ files \in [Dirs -> Files]

LEMMA TypedIsTypeOK == Typed => RouterTypeOK
<1> SUFFICES ASSUME Typed PROVE RouterTypeOK
  OBVIOUS
<1>1. Len(mailbox) \in Nat /\ Len(answered) \in Nat /\ MaxCalls \in Nat
  BY CallsAssumption DEF Typed
<1>2. Len(mailbox) <= MaxCalls /\ waiting \in 0 .. MaxCalls
  BY <1>1 DEF Typed, Queued, sent
<1>3. serving # NoRequest => serving.call.type \in {"shell", "nushell_tool"}
  BY DEF Typed, Queued, BeginsSession
<1>4. session.exit \in Codes \cup {NoCode}
  BY DEF Typed
<1> QED
  BY <1>2, <1>3, <1>4 DEF Typed, Queued, RouterTypeOK, Numbered

LEMMA InitTyped == RouterInit => Typed
<1> SUFFICES ASSUME RouterInit PROVE Typed
  OBVIOUS
<1>1. /\ mailbox = <<>> /\ answered = <<>> /\ trace = <<>> /\ serving = NoRequest
      /\ waiting = 0 /\ reply.kind = "none" /\ thread = "ready" /\ cwd = "launch"
  BY DEF RouterInit, NoReply, Observed
<1>2. mailbox \in Seq(Requests) /\ IsSequence(answered) /\ IsSequence(trace)
  BY <1>1 DEF IsSequence
<1>3. Len(answered) = 0 /\ Len(mailbox) = 0 /\ DOMAIN answered = {} /\ DOMAIN mailbox = {}
  BY <1>1
<1>4. Numbered
  BY <1>1, <1>3 DEF Numbered
<1>5. sent = 0 /\ MaxCalls \in Nat
  BY <1>1, <1>3, CallsAssumption DEF sent
<1>6. session \in [defs : {session.defs}, exit : Codes \cup {NoCode}]
  BY DEF RouterInit, NewSession
<1>7. files \in [Dirs -> Files]
  BY FilesAssumption DEF RouterInit, Files
<1> QED
  BY <1>1, <1>2, <1>3, <1>4, <1>5, <1>6, <1>7 DEF Typed, Queued, Dirs

-----------------------------------------------------------------------------
LEMMA RequestFields ==
    ASSUME NEW id \in Nat \ {0}, NEW call \in Calls
    PROVE  /\ Request(id, call) \in Requests
           /\ Request(id, call).id = id
           /\ Request(id, call).call = call
           /\ Request(id, call).args = ArgsOf(call)
           /\ Request(id, call) # NoRequest
<1>1. Request(id, call).id # NoRequest.id
  BY DEF Request, NoRequest
<1>2. Request(id, call).id = id /\ Request(id, call).call = call
      /\ Request(id, call).args = ArgsOf(call)
  BY DEF Request
<1> QED
  BY <1>1, <1>2 DEF Requests

LEMMA RequestIs ==
    ASSUME NEW request \in Requests
    PROVE  /\ request.id \in Nat \ {0} /\ request.call \in Calls
           /\ request.args = ArgsOf(request.call) /\ request # NoRequest
<1>1. PICK id \in Nat \ {0}, call \in Calls : request = Request(id, call)
  BY DEF Requests
<1> QED
  BY <1>1, RequestFields

LEMMA HeadIsNext ==
    ASSUME Queued, mailbox # <<>>
    PROVE  /\ Head(mailbox) \in Requests
           /\ Head(mailbox).id = Len(answered) + InService + 1
           /\ Tail(mailbox) \in Seq(Requests)
           /\ Len(Tail(mailbox)) = Len(mailbox) - 1
           /\ Len(mailbox) \in Nat \ {0}
           /\ \A i \in DOMAIN Tail(mailbox) :
                 Tail(mailbox)[i].id = Len(answered) + InService + 1 + i
<1>1. /\ Head(mailbox) = mailbox[1] /\ Head(mailbox) \in Requests
      /\ Tail(mailbox) \in Seq(Requests)
      /\ Len(Tail(mailbox)) = Len(mailbox) - 1
      /\ Len(mailbox) \in Nat \ {0} /\ 1 \in DOMAIN mailbox
      /\ \A i \in DOMAIN Tail(mailbox) :
            Tail(mailbox)[i] = mailbox[i + 1] /\ i + 1 \in DOMAIN mailbox /\ i \in Nat
  BY DEF Queued
<1>2. InService \in Nat /\ Len(answered) \in Nat
  BY DEF Queued, InService
<1> QED
  BY <1>1, <1>2 DEF Queued, Numbered

\* A request taken from the mailbox and answered at once.
LEMMA AnsweredAtOnce ==
    ASSUME Queued, serving = NoRequest, mailbox # <<>>, mailbox' = Tail(mailbox),
           serving' = serving, NEW obs, NEW was, NEW now,
           Answer(Head(mailbox), obs, was, now)
    PROVE  Queued'
<1>1. PICK n \in Nat : n = Len(answered)
  BY DEF Queued
<1> DEFINE a == [id |-> Head(mailbox).id, call |-> Head(mailbox).call, obs |-> obs,
                 was |-> was, now |-> now]
<1>2. answered' = Append(answered, a)
  BY DEF Answer
<1>3. Head(mailbox).id = n + 1 /\ Head(mailbox).call \in Calls
  BY <1>1, HeadIsNext, RequestIs DEF InService
<1>4. a.id = n + 1 /\ a.call \in Calls
  BY <1>3
<1> HIDE DEF a
<1>5. /\ IsSequence(answered') /\ DOMAIN answered' = 1 .. n + 1 /\ DOMAIN answered = 1 .. n
      /\ \A i \in DOMAIN answered : answered'[i] = answered[i]
      /\ answered'[n + 1] = a
  BY <1>1, <1>2, SequenceAppended DEF Queued
<1>6. Len(answered') = n + 1
  BY <1>5 DEF IsSequence
<1>7. \A i \in DOMAIN answered' : answered'[i].id = i /\ answered'[i].call \in Calls
  <2> TAKE i \in DOMAIN answered'
  <2>1. CASE i \in 1 .. n
    BY <1>5, <2>1 DEF Queued, Numbered
  <2>2. CASE i = n + 1
    BY <1>4, <1>5, <2>2
  <2> QED
    BY <1>5, <2>1, <2>2
<1>8. \A i \in DOMAIN mailbox' : mailbox'[i].id = n + 1 + i
  BY <1>1, HeadIsNext DEF InService
<1>9. Numbered'
  BY <1>6, <1>7, <1>8 DEF Numbered, InService
<1>10. sent' = sent /\ sent \in Nat
  BY <1>1, <1>6, HeadIsNext DEF sent
<1>11. waiting' \in 0 .. sent
  BY <1>10 DEF Answer, Queued
<1> QED
  BY <1>5, <1>6, <1>9, <1>10, <1>11, HeadIsNext DEF Queued

\* A request taken from the mailbox and asked for.
LEMMA AskedFor ==
    ASSUME Queued, serving = NoRequest, mailbox # <<>>, mailbox' = Tail(mailbox),
           serving' = Head(mailbox), BeginsSession(Head(mailbox)),
           UNCHANGED <<waiting, answered>>
    PROVE  Queued'
<1>1. PICK n \in Nat : n = Len(answered)
  BY DEF Queued
<1>2. Head(mailbox).id = n + 1 /\ Head(mailbox) # NoRequest
  BY <1>1, HeadIsNext, RequestIs DEF InService
<1>3. InService = 0 /\ InService' = 1
  BY <1>2 DEF InService
<1>4. \A i \in DOMAIN mailbox' : mailbox'[i].id = n + 1 + i
  BY <1>1, <1>3, HeadIsNext
<1>5. Numbered'
  BY <1>1, <1>2, <1>3, <1>4 DEF Queued, Numbered
<1>6. sent' = sent
  BY <1>1, <1>2, HeadIsNext DEF sent
<1> QED
  BY <1>1, <1>5, <1>6, HeadIsNext DEF Queued, BeginsSession, KnownFlags

\* The request served is answered.
LEMMA ServedAnswered ==
    ASSUME Queued, serving # NoRequest, serving' = NoRequest, mailbox' = mailbox,
           NEW obs, NEW was, NEW now, Answer(serving, obs, was, now)
    PROVE  Queued'
<1>1. PICK n \in Nat : n = Len(answered)
  BY DEF Queued
<1> DEFINE a == [id |-> serving.id, call |-> serving.call, obs |-> obs,
                 was |-> was, now |-> now]
<1>2. answered' = Append(answered, a)
  BY DEF Answer
<1>3. serving.id = n + 1 /\ serving.call \in Calls
  BY <1>1, RequestIs DEF Queued, Numbered, BeginsSession
<1>4. a.id = n + 1 /\ a.call \in Calls
  BY <1>3
<1> HIDE DEF a
<1>5. /\ IsSequence(answered') /\ DOMAIN answered' = 1 .. n + 1 /\ DOMAIN answered = 1 .. n
      /\ \A i \in DOMAIN answered : answered'[i] = answered[i]
      /\ answered'[n + 1] = a
  BY <1>1, <1>2, SequenceAppended DEF Queued
<1>6. Len(answered') = n + 1
  BY <1>5 DEF IsSequence
<1>7. \A i \in DOMAIN answered' : answered'[i].id = i /\ answered'[i].call \in Calls
  <2> TAKE i \in DOMAIN answered'
  <2>1. CASE i \in 1 .. n
    BY <1>5, <2>1 DEF Queued, Numbered
  <2>2. CASE i = n + 1
    BY <1>4, <1>5, <2>2
  <2> QED
    BY <1>5, <2>1, <2>2
<1>8. \A i \in DOMAIN mailbox' : mailbox'[i].id = n + 1 + i
  BY <1>1 DEF Queued, Numbered, InService
<1>9. Numbered'
  BY <1>6, <1>7, <1>8 DEF Numbered, InService
<1>10. sent' = sent /\ sent \in Nat
  <2>1. Len(mailbox) \in Nat
    BY DEF Queued
  <2> QED
    BY <1>1, <1>6, <2>1 DEF sent
<1>11. waiting' \in 0 .. sent
  BY <1>10 DEF Answer, Queued
<1> QED
  BY <1>5, <1>6, <1>9, <1>10, <1>11 DEF Queued

LEMMA SendQueued ==
    ASSUME Queued, NEW call \in Calls, Send(call)
    PROVE  Queued'
<1>1. PICK n \in Nat : n = Len(answered)
  BY DEF Queued
<1>2. PICK m \in Nat : m = Len(mailbox)
  BY DEF Queued
<1>3. InService \in {0, 1} /\ sent = n + m + InService /\ sent \in Nat
  BY <1>1, <1>2 DEF InService, sent
<1>4. mailbox' = Append(mailbox, Request(sent + 1, call))
  BY DEF Send, Request, ArgsOf
<1>5. Request(sent + 1, call) \in Requests /\ Request(sent + 1, call).id = sent + 1
  BY <1>3, RequestFields
<1>6. UNCHANGED <<serving, answered>> /\ waiting' = sent + 1 /\ sent < MaxCalls
      /\ MaxCalls \in Nat
  BY CallsAssumption DEF Send
<1>7. /\ mailbox' \in Seq(Requests) /\ Len(mailbox') = m + 1
      /\ DOMAIN mailbox' = 1 .. m + 1 /\ DOMAIN mailbox = 1 .. m
      /\ mailbox'[m + 1] = Request(sent + 1, call)
      /\ \A i \in 1 .. m : mailbox'[i] = mailbox[i]
  BY <1>2, <1>4, <1>5 DEF Queued
<1>8. InService' = InService /\ sent' = sent + 1
  BY <1>1, <1>2, <1>3, <1>6, <1>7 DEF InService, sent
<1>9. ASSUME NEW i \in DOMAIN mailbox'
      PROVE  mailbox'[i].id = n + InService + i
  <2>1. CASE i \in 1 .. m
    BY <1>1, <1>7, <2>1 DEF Queued, Numbered
  <2>2. CASE i = m + 1
    BY <1>3, <1>5, <1>7, <2>2
  <2> QED
    BY <1>7, <2>1, <2>2
<1>10. Numbered'
  BY <1>1, <1>6, <1>8, <1>9 DEF Queued, Numbered
<1> QED
  BY <1>3, <1>6, <1>7, <1>8, <1>10 DEF Queued, BeginsSession, KnownFlags

-----------------------------------------------------------------------------
LEMMA FileCallMakes ==
    ASSUME NEW call \in Calls, call.type \in DOMAIN FileEvent, NEW file \in Files,
           NEW result \in FileCall(file, call)
    PROVE  /\ result.file \in Files
           /\ result.obs.kind \in {"FileContent", "FileWritten", "Error"}
           /\ call.type = "edit" /\ result.obs.kind = "FileWritten" =>
                  Unambiguous(file, result.file, call)
<1>1. call.type \in {"read", "write", "edit"}
  BY DEF FileEvent
<1>2. CASE call.type = "read"
  <2>1. result = [file |-> file, obs |-> read_file(file)]
    BY <1>2 DEF FileCall
  <2> QED
    BY <1>2, <2>1 DEF read_file, Observed, Failed
<1>3. CASE call.type = "write"
  <2>1. PICK end \in WriteEnds : result = write_file(file, call.content, end)
    BY <1>3 DEF FileCall
  <2>2. call.content \in Seq(Letters)
    BY <1>3, CallsAssumption
  <2>3. CASE file.text = call.content
    BY <1>3, <2>1, <2>3 DEF write_file, Failed, Observed
  <2>4. CASE file.text # call.content
    <3>1. result = Stored(file, call.content, end)
      BY <2>1, <2>4 DEF write_file
    <3> QED
      BY <1>3, <2>2, <3>1, StoredFile
  <2> QED
    BY <2>3, <2>4
<1>4. CASE call.type = "edit"
  <2>1. PICK end \in WriteEnds : result = edit_file(file, call.old, call.new, end)
    BY <1>4 DEF FileCall
  <2>2. call.old \in Seq(Letters) /\ call.new \in Seq(Letters)
    BY <1>4, CallsAssumption
  <2> QED
    BY <2>1, <2>2, EditedFile
<1> QED
  BY <1>1, <1>2, <1>3, <1>4

SessionTyped(s) == s \in [defs : {s.defs}, exit : Codes \cup {NoCode}]

LEMMA EvaluatedSession ==
    ASSUME NEW s, SessionTyped(s), NEW eval \in Evaluations(Codes)
    PROVE  /\ SessionTyped(Evaluated(s, eval))
           /\ Evaluated(s, eval).defs = s.defs
           /\ Evaluated(s, eval).exit =
                 IF eval.end = "parse error" \/ eval.exit = NoCode THEN s.exit ELSE eval.exit
  BY DEF Evaluated, Evaluations, SessionTyped

\* What running leaves: an exit code that was set or none, the definitions of
\* a command and of no tool, and of a tool the exit code of its own run.
Leaves(run, call, eval) ==
    /\ SessionTyped(run.session)
    /\ run.obs.kind \in {"Structured", "Error"}
    /\ run.session.defs \subseteq
           session.defs \cup (IF call.type = "shell" THEN call.command.defines ELSE {})
    /\ call.type = "nushell_tool" /\ run.obs.kind = "Structured" =>
           run.obs.code = IF eval.exit = NoCode THEN 0 ELSE eval.exit

LEMMA RunLeaves ==
    ASSUME Typed, NEW call, call.type \in {"shell", "nushell_tool"},
           NEW eval \in Evaluations(Codes)
    PROVE  Leaves(RunOf(call, eval), call, eval)
<1> DEFINE run == RunOf(call, eval)
<1>0. SessionTyped(session)
  BY DEF Typed, SessionTyped
<1>1. CASE call.type = "shell"
  <2> DEFINE merged == IF eval.end = "parse error" THEN session
                       ELSE [session EXCEPT !.defs = @ \cup call.command.defines]
             after  == Evaluated(merged, eval)
  <2>1. run = [session |-> IF eval.end = "value" THEN after ELSE reset_stack(after),
               obs |-> value_to_observation(after, eval)]
    BY <1>1 DEF RunOf, run_command
  <2>2. SessionTyped(merged) /\ merged.defs \subseteq session.defs \cup call.command.defines
    BY <1>0 DEF SessionTyped
  <2> HIDE DEF merged
  <2>3. SessionTyped(after) /\ after.defs = merged.defs
    BY <2>2, EvaluatedSession
  <2> HIDE DEF after
  <2>4. SessionTyped(reset_stack(after)) /\ reset_stack(after).defs = after.defs
    BY <2>3 DEF SessionTyped, reset_stack
  <2>5. value_to_observation(after, eval).kind \in {"Structured", "Error"}
    BY DEF value_to_observation, Observed, Failed
  <2> QED
    BY <1>1, <2>1, <2>2, <2>3, <2>4, <2>5 DEF Leaves
<1>2. CASE call.type = "nushell_tool" /\ call.tool \in Readable
  <2> DEFINE fresh == [session EXCEPT !.exit = NoCode]
             after == Evaluated(fresh, eval)
  <2>1. run = [session |-> after, obs |-> value_to_observation(after, eval)]
    BY <1>2 DEF RunOf, run_tool
  <2>2. SessionTyped(fresh) /\ fresh.defs = session.defs /\ fresh.exit = NoCode
    BY <1>0 DEF SessionTyped
  <2> HIDE DEF fresh
  <2>3. /\ SessionTyped(after) /\ after.defs = fresh.defs
        /\ after.exit = IF eval.end = "parse error" \/ eval.exit = NoCode THEN NoCode
                        ELSE eval.exit
    BY <2>2, EvaluatedSession
  <2> HIDE DEF after
  <2>4. /\ value_to_observation(after, eval).kind \in {"Structured", "Error"}
        /\ value_to_observation(after, eval).kind = "Structured" =>
              /\ eval.end = "value"
              /\ value_to_observation(after, eval).code =
                    IF after.exit = NoCode THEN 0 ELSE after.exit
    BY DEF value_to_observation, Observed, Failed
  <2>5. value_to_observation(after, eval).kind = "Structured" =>
            value_to_observation(after, eval).code =
                IF eval.exit = NoCode THEN 0 ELSE eval.exit
    BY <2>3, <2>4
  <2>6. /\ run.session = after
        /\ run.obs = value_to_observation(after, eval)
        /\ call.type # "shell"
    BY <1>2, <2>1
  <2> HIDE DEF run
  <2> QED
    BY <2>2, <2>3, <2>4, <2>5, <2>6 DEF Leaves, run
<1>3. CASE call.type = "nushell_tool" /\ call.tool \notin Readable
  <2>1. run = [session |-> session, obs |-> Failed(1)]
    BY <1>3 DEF RunOf
  <2> QED
    BY <1>0, <1>3, <2>1 DEF Failed, Observed, Leaves
<1> QED
  BY <1>1, <1>2, <1>3

LEMMA TraceAppended ==
    ASSUME IsSequence(trace), NEW e, trace' = Append(trace, e)
    PROVE  IsSequence(trace')
  BY SequenceAppended

LEMMA NextTyped == Typed /\ [RouterNext]_routerVars => Typed'
<1> SUFFICES ASSUME Typed, [RouterNext]_routerVars PROVE Typed'
  OBVIOUS
<1>1. CASE UNCHANGED routerVars
  BY <1>1
  DEF routerVars, Typed, Queued, Numbered, InService, sent, BeginsSession,
      KnownFlags
<1>2. ASSUME NEW call \in Calls, Send(call)  PROVE Typed'
  <2>1. Queued'
    BY <1>2, SendQueued DEF Typed
  <2> QED
    BY <1>2, <2>1 DEF Send, Typed
<1>3. CASE GiveUp
  <2>1. UNCHANGED <<mailbox, serving, answered>> /\ waiting' = 0
    BY <1>3 DEF GiveUp
  <2>2. sent \in Nat
    BY DEF Typed, Queued, sent
  <2>3. Queued'
    BY <2>1, <2>2
    DEF Typed, Queued, Numbered, InService, sent, BeginsSession, KnownFlags
  <2> QED
    BY <1>3, <2>3 DEF GiveUp, Typed
<1>4. CASE DispatchFile
  <2> DEFINE request == Head(mailbox)
             call == request.call
             was == files[Dir(call)]
  <2>1. /\ serving = NoRequest /\ mailbox # <<>> /\ mailbox' = Tail(mailbox)
        /\ call.type \in DOMAIN FileEvent
        /\ UNCHANGED <<serving, reply, thread, session, cwd, ran>>
    BY <1>4 DEF DispatchFile
  <2>2. PICK result \in FileCall(was, call) :
           /\ files' = [files EXCEPT ![Dir(call)] = result.file]
           /\ trace' = IF result.obs.kind = "Error" THEN trace
                       ELSE Append(trace, Event(FileEvent[call.type], request, NoCode))
           /\ Answer(request, result.obs, was, result.file)
    BY <1>4 DEF DispatchFile
  <2>3. Queued'
    BY <2>1, <2>2, AnsweredAtOnce DEF Typed
  <2>4. Dir(call) \in Dirs
    BY DEF Dir, Dirs, Typed
  <2>5. call \in Calls /\ was \in Files
    BY <2>1, <2>4, HeadIsNext, RequestIs DEF Typed
  <2>6. result.file \in Files
    BY <2>1, <2>2, <2>5, FileCallMakes
  <2>7. files' \in [Dirs -> Files]
    BY <2>2, <2>4, <2>6 DEF Typed
  <2>8. IsSequence(trace')
    BY <2>2, TraceAppended DEF Typed
  <2> QED
    BY <2>1, <2>3, <2>7, <2>8 DEF Typed
<1>5. CASE DispatchSearch
  <2>1. /\ serving = NoRequest /\ mailbox # <<>> /\ mailbox' = Tail(mailbox)
        /\ UNCHANGED <<serving, reply, thread, session, cwd, files, trace, ran>>
    BY <1>5 DEF DispatchSearch
  <2>2. \E obs : Answer(Head(mailbox), obs, Missing, Missing)
    BY <1>5 DEF DispatchSearch
  <2>3. Queued'
    BY <2>1, <2>2, AnsweredAtOnce DEF Typed
  <2> QED
    BY <2>1, <2>3 DEF Typed
<1>6. ASSUME DispatchShell \/ DispatchTool  PROVE Typed'
  <2> DEFINE request == Head(mailbox)
  <2>1. /\ serving = NoRequest /\ mailbox # <<>> /\ mailbox' = Tail(mailbox)
        /\ UNCHANGED <<thread, session, cwd, files, ran>>
    BY <1>6 DEF DispatchShell, DispatchTool
  <2>2. request \in Requests
    BY <2>1, HeadIsNext DEF Typed
  <2>3. trace' = trace \/ trace' = Append(trace, Event("Started", request, NoCode))
    BY <1>6 DEF DispatchShell, DispatchTool
  <2>4. IsSequence(trace')
    BY <2>3, TraceAppended DEF Typed
  <2>5. \/ /\ \E obs : Answer(request, obs, Missing, Missing)
           /\ UNCHANGED <<serving, reply>>
        \/ /\ Ask(request)
           /\ BeginsSession(request)
           /\ UNCHANGED <<waiting, answered>>
    BY <1>6, <2>2 DEF DispatchShell, DispatchTool, BeginsSession
  <2>6. CASE /\ \E obs : Answer(request, obs, Missing, Missing)
             /\ UNCHANGED <<serving, reply>>
    <3>1. Queued'
      BY <2>1, <2>6, AnsweredAtOnce DEF Typed
    <3> QED
      BY <2>1, <2>4, <2>6, <3>1 DEF Typed
  <2>7. CASE /\ Ask(request)
             /\ BeginsSession(request)
             /\ UNCHANGED <<waiting, answered>>
    <3>1. Queued'
      BY <2>1, <2>7, AskedFor DEF Typed, Ask
    <3>2. reply'.kind \in {"none", "Structured", "Error", "Err"}
      BY <2>7 DEF Ask, NoReply, Observed
    <3> QED
      BY <2>1, <2>4, <3>1, <3>2 DEF Typed
  <2> QED
    BY <2>5, <2>6, <2>7
<1>7. ASSUME NEW eval \in Evaluations(Codes), Serve(eval)  PROVE Typed'
  <2>1. serving # NoRequest /\ UNCHANGED <<mailbox, serving, thread, files, trace, waiting, answered>>
    BY <1>7 DEF Serve, Asked
  <2>2. Queued'
    BY <2>1
    DEF Typed, Queued, Numbered, InService, sent, BeginsSession, KnownFlags
  <2>3. serving.call.type \in {"shell", "nushell_tool"}
    BY <2>1 DEF Typed, Queued, BeginsSession
  <2>4. /\ SessionTyped(session') /\ reply'.kind \in {"Structured", "Error"}
    BY <1>7, <2>3, RunLeaves DEF Serve, Leaves
  <2>5. cwd' \in Dirs
    BY <1>7 DEF Serve, CwdAfter, Typed, Dirs
  <2> QED
    BY <2>1, <2>2, <2>4, <2>5 DEF Typed, SessionTyped
<1>8. CASE Hang \/ Die
  <2>1. UNCHANGED <<mailbox, serving, session, cwd, files, trace, waiting, answered, ran>>
        /\ thread' \in {"ready", "hung", "gone"}
    BY <1>8 DEF Hang, Die
  <2>2. Queued'
    BY <2>1
    DEF Typed, Queued, Numbered, InService, sent, BeginsSession, KnownFlags
  <2>3. reply'.kind \in {"none", "Structured", "Error", "Err"}
    BY <1>8 DEF Hang, Die, Observed, Typed
  <2> QED
    BY <2>1, <2>2, <2>3 DEF Typed
<1>9. CASE Finish
  <2>1. /\ serving # NoRequest /\ serving' = NoRequest /\ reply' = NoReply
        /\ UNCHANGED <<mailbox, thread, session, cwd, files, ran>>
        /\ \E obs : Answer(serving, obs, Missing, Missing)
    BY <1>9 DEF Finish
  <2>2. Queued'
    BY <2>1, ServedAnswered DEF Typed
  <2>3. trace' = trace \/ \E e : trace' = Append(trace, e)
    BY <1>9 DEF Finish
  <2>4. IsSequence(trace')
    BY <2>3, TraceAppended DEF Typed
  <2> QED
    BY <2>1, <2>2, <2>4 DEF Typed, NoReply, Observed
<1> QED
  BY <1>1, <1>2, <1>3, <1>4, <1>5, <1>6, <1>7, <1>8, <1>9
  DEF RouterNext, Dispatch

LEMMA AlwaysTyped == RouterSpec => []Typed
  BY InitTyped, NextTyped, PTL DEF RouterSpec

\* The router, the session and the files keep their types, and the calls are
\* answered in the order of their numbers, whatever is given up on and however
\* the session's thread ends.
THEOREM RouterTyped == RouterSpec => []RouterTypeOK
  BY AlwaysTyped, TypedIsTypeOK, PTL

-----------------------------------------------------------------------------
(***************************************************************************)
(* The history: what each answer and each event says.                      *)
(***************************************************************************)
EditFine(a) ==
    a.call.type = "edit" /\ a.obs.kind = "FileWritten" => Unambiguous(a.was, a.now, a.call)

SearchFine(a) ==
    LET hits    == a.obs.text[1]
        matches == a.obs.text[2]
    IN  a.obs.kind = "SearchResults" =>
            /\ \A match \in matches : \E hit \in hits :
                  rg_line(match, TRUE) = rg_line(hit, a.call.in_directory)
            /\ a.call.in_directory =>
                  \A hit \in hits : Len(hit.path) = 1 => hit \in matches
            /\ a.call.in_directory /\ (\A hit \in hits : Len(hit.path) = 1) =>
                  matches \subseteq hits

AnswersFine == \A i \in DOMAIN answered : EditFine(answered[i]) /\ SearchFine(answered[i])

FlagsFine(call, flags) ==
    \A f \in flags :
        /\ f[1] \in DOMAIN Registry[call.tool]
        /\ \A other \in flags : other[1] = f[1] => other[2] = f[2]
        /\ \E entry \in Range(call.args) :
              Kebab[entry[1]] = f[1] /\ f[2] = Taken(call.tool, f[1], entry[2])

\* An event is of a call that has begun, with flags that are fine for it.
EventFine(e) == \E b \in Begun : b.id = e.id /\ FlagsFine(b.call, e.flags)

EventsFine == \A i \in DOMAIN trace : EventFine(trace[i])

LEMMA NoFlags == args_to_flags(AsMap(<<>>)) = {}
<1>1. DOMAIN AsMap(<<>>) = {}
  BY DEF AsMap, Keys
<1> HIDE DEF AsMap
<1> QED
  BY <1>1 DEF args_to_flags

LEMMA RequestFlags ==
    ASSUME NEW request \in Requests,
           request.call.type = "nushell_tool" => KnownFlags(request)
    PROVE  FlagsFine(request.call, args_to_flags(request.args))
<1> DEFINE call == request.call
           map == request.args
           flags == args_to_flags(map)
<1>1. call \in Calls /\ map = ArgsOf(call)
  BY RequestIs
<1>2. CASE call.type # "nushell_tool"
  BY <1>1, <1>2, NoFlags DEF ArgsOf, FlagsFine
<1>3. CASE call.type = "nushell_tool"
  <2>1. call.tool \in DOMAIN Registry /\ \A key \in DOMAIN map : Kebab[key] \in DOMAIN Registry[call.tool]
    BY <1>3 DEF KnownFlags
  <2>2. map = normalize(call.tool, call.args) /\ IsObject(call.args)
    BY <1>1, <1>3, CallsAssumption DEF ArgsOf, IsObject
  <2> HIDE DEF call, map
  <2>3. \A k \in DOMAIN map : /\ Kebab[k] = k
                              /\ k \in DOMAIN Registry[call.tool] =>
                                     Given(call.tool, call.args, k, map[k])
    BY <2>1, <2>2, Normalized
  <2>4. \A f \in flags : f[1] \in DOMAIN map /\ f[2] = map[f[1]]
    BY <2>3 DEF args_to_flags
  <2> HIDE DEF flags
  <2>5. ASSUME NEW f \in flags
        PROVE  /\ f[1] \in DOMAIN Registry[call.tool]
               /\ \A other \in flags : other[1] = f[1] => other[2] = f[2]
               /\ Given(call.tool, call.args, f[1], f[2])
    BY <2>1, <2>3, <2>4
  <2>6. FlagsFine(call, flags)
    BY <2>5 DEF FlagsFine, Given
  <2> QED
    BY <2>6 DEF flags, call, map
<1> QED
  BY <1>2, <1>3

-----------------------------------------------------------------------------
(***************************************************************************)
(* The calls begun only become more, and have numbers of their own.        *)
(***************************************************************************)
Item(request) == [id |-> request.id, call |-> request.call]

LEMMA BegunIs ==
    Begun = {Item(answered[i]) : i \in DOMAIN answered} \cup
            {Item(serving) : r \in {serving} \ {NoRequest}}
  BY DEF Begun, Item

LEMMA BegunOnce ==
    ASSUME Typed, NEW b \in Begun, NEW c \in Begun, b.id = c.id
    PROVE  b = c
<1>1. PICK n \in Nat : n = Len(answered) /\ DOMAIN answered = 1 .. n
  BY DEF Typed, Queued
<1>2. ASSUME NEW x \in Begun
      PROVE  \/ \E i \in 1 .. n : x = Item(answered[i]) /\ x.id = i
             \/ serving # NoRequest /\ x = Item(serving) /\ x.id = n + 1
  BY <1>1 DEF Begun, Item, Typed, Queued, Numbered
<1> QED
  BY <1>1, <1>2

LEMMA BegunAppended ==
    ASSUME Typed, NEW request, NEW obs, NEW was, NEW now, Answer(request, obs, was, now)
    PROVE  /\ {Item(answered[i]) : i \in DOMAIN answered} \cup {Item(request)} \subseteq Begun'
           /\ DOMAIN answered \subseteq DOMAIN answered'
           /\ \A i \in DOMAIN answered' :
                 \/ i \in DOMAIN answered /\ answered'[i] = answered[i]
                 \/ answered'[i] = [id |-> request.id, call |-> request.call, obs |-> obs,
                                    was |-> was, now |-> now]
<1> DEFINE a == [id |-> request.id, call |-> request.call, obs |-> obs,
                 was |-> was, now |-> now]
<1>1. PICK n \in Nat : n = Len(answered) /\ DOMAIN answered = 1 .. n
  BY DEF Typed, Queued
<1>2. answered' = Append(answered, a) /\ Item(a) = Item(request)
  BY DEF Answer, Item
<1> HIDE DEF a
<1>3. /\ DOMAIN answered' = 1 .. n + 1
      /\ \A i \in DOMAIN answered : answered'[i] = answered[i]
      /\ answered'[n + 1] = a
  BY <1>1, <1>2, SequenceAppended DEF Typed, Queued
<1>4. \A i \in DOMAIN answered' : Item(answered'[i]) \in Begun'
  BY DEF Begun, Item
<1>5. ASSUME NEW x \in {Item(answered[i]) : i \in DOMAIN answered} \cup {Item(request)}
      PROVE  x \in Begun'
  <2>1. CASE x = Item(request)
    BY <1>2, <1>3, <1>4, <2>1
  <2>2. CASE x \in {Item(answered[i]) : i \in DOMAIN answered}
    <3>1. PICK i \in DOMAIN answered : x = Item(answered[i])
      BY <2>2
    <3> QED
      BY <1>1, <1>3, <1>4, <3>1
  <2> QED
    BY <2>1, <2>2
<1> QED
  BY <1>1, <1>3, <1>5 DEF a

LEMMA AnsweredFine ==
    ASSUME Typed, AnswersFine, NEW request, NEW obs, NEW was, NEW now,
           Answer(request, obs, was, now),
           request.call.type = "edit" /\ obs.kind = "FileWritten" =>
               Unambiguous(was, now, request.call),
           SearchFine([id |-> request.id, call |-> request.call, obs |-> obs,
                       was |-> was, now |-> now])
    PROVE  AnswersFine'
<1> DEFINE a == [id |-> request.id, call |-> request.call, obs |-> obs,
                 was |-> was, now |-> now]
<1>1. EditFine(a) /\ SearchFine(a)
  BY DEF EditFine
<1>2. \A i \in DOMAIN answered' :
         (i \in DOMAIN answered /\ answered'[i] = answered[i]) \/ answered'[i] = a
  BY BegunAppended
<1> HIDE DEF a
<1>3. ASSUME NEW i \in DOMAIN answered'
      PROVE  EditFine(answered'[i]) /\ SearchFine(answered'[i])
  BY <1>1, <1>2 DEF AnswersFine
<1> QED
  BY <1>3 DEF AnswersFine, EditFine, SearchFine, Unambiguous

\* The three parts a line begins with, and the rest.
LEMMA LineOfParts ==
    ASSUME NEW a \in Parts, NEW b \in Parts, NEW c \in Parts, NEW content \in Seq(Parts)
    PROVE  LET line == <<a>> \o <<b, c>> \o content
           IN  /\ line \in Seq(Parts) /\ Len(line) = 3 + Len(content)
               /\ line[1] = a /\ line[2] = b /\ line[3] = c
               /\ \A i \in 1 .. Len(content) : line[3 + i] = content[i]
<1> DEFINE one  == <<a>>
           two  == <<b, c>>
           head == one \o two
           line == head \o content
<1>1. /\ one \in Seq(Parts) /\ Len(one) = 1 /\ one[1] = a
      /\ two \in Seq(Parts) /\ Len(two) = 2 /\ two[1] = b /\ two[2] = c
  OBVIOUS
<1> HIDE DEF one, two
<1>2. head \in Seq(Parts)
  BY <1>1, ConcatProperties
<1>3. /\ Len(head) = Len(one) + Len(two)
      /\ \A i \in 1 .. Len(one) + Len(two) :
            head[i] = IF i <= Len(one) THEN one[i] ELSE two[i - Len(one)]
  BY <1>1, ConcatProperties
<1> HIDE DEF head
<1>4. line \in Seq(Parts)
  BY <1>2, ConcatProperties
<1>5. /\ Len(line) = Len(head) + Len(content)
      /\ \A i \in 1 .. Len(head) + Len(content) :
            line[i] = IF i <= Len(head) THEN head[i] ELSE content[i - Len(head)]
  BY <1>2, ConcatProperties
<1> HIDE DEF line
<1>6. Len(head) = 3 /\ head[1] = a /\ head[2] = b /\ head[3] = c
  BY <1>1, <1>3
<1>7. Len(content) \in Nat
  OBVIOUS
<1>8. /\ line \in Seq(Parts) /\ Len(line) = 3 + Len(content)
      /\ line[1] = a /\ line[2] = b /\ line[3] = c
      /\ \A i \in 1 .. Len(content) : line[3 + i] = content[i]
  BY <1>4, <1>5, <1>6, <1>7
<1> QED
  BY <1>8 DEF line, head, one, two

\* From the fourth part on.
LEMMA RestOfLine ==
    ASSUME NEW line \in Seq(Parts), Len(line) >= 4
    PROVE  /\ SubSeq(line, 4, Len(line)) \in Seq(Parts)
           /\ Len(SubSeq(line, 4, Len(line))) = Len(line) - 3
           /\ \A i \in 1 .. Len(line) - 3 : SubSeq(line, 4, Len(line))[i] = line[3 + i]
<1>1. Len(line) \in Int /\ 4 \in Int /\ \A i \in 4 .. Len(line) : line[i] \in Parts
  OBVIOUS
<1>2. /\ SubSeq(line, 4, Len(line)) \in Seq(Parts)
      /\ Len(SubSeq(line, 4, Len(line))) =
            IF 4 <= Len(line) THEN Len(line) - 4 + 1 ELSE 0
      /\ \A i \in 1 .. Len(line) - 4 + 1 :
            SubSeq(line, 4, Len(line))[i] = line[4 + i - 1]
  BY <1>1, SubSeqProperties
<1>3. Len(line) - 4 + 1 = Len(line) - 3 /\ \A i \in Int : 4 + i - 1 = 3 + i
  BY <1>1
<1> QED
  BY <1>2, <1>3

\* A line that is read as a match is what its match reads, with its path in
\* front.
LEMMA MatchIsItsLine ==
    ASSUME NEW line \in Seq(Parts), NEW match \in parse_rg_line(line)
    PROVE  rg_line(match, TRUE) = line
<1> DEFINE rest == SubSeq(line, 4, Len(line))
           made == <<line[1]>> \o <<line[2], line[3]>> \o rest
<1>1. Len(line) >= 4
  BY DEF parse_rg_line
<1>2. match = [path |-> <<line[1]>>, line |-> line[2], column |-> line[3], content |-> rest]
  BY DEF parse_rg_line
<1>3. rg_line(match, TRUE) = made
  BY <1>2 DEF rg_line
<1>4. line[1] \in Parts /\ line[2] \in Parts /\ line[3] \in Parts /\ Len(line) \in Nat
  BY <1>1
<1>5. /\ rest \in Seq(Parts) /\ Len(rest) = Len(line) - 3
      /\ \A i \in 1 .. Len(line) - 3 : rest[i] = line[3 + i]
  BY <1>1, RestOfLine
<1> HIDE DEF rest
<1>6. /\ made \in Seq(Parts) /\ Len(made) = 3 + Len(rest)
      /\ made[1] = line[1] /\ made[2] = line[2] /\ made[3] = line[3]
      /\ \A i \in 1 .. Len(rest) : made[3 + i] = rest[i]
  BY <1>4, <1>5, LineOfParts
<1> HIDE DEF made
<1>7. ASSUME NEW i \in 1 .. Len(line)  PROVE made[i] = line[i]
  <2>1. CASE i > 3
    <3>1. i - 3 \in 1 .. Len(line) - 3 /\ 3 + (i - 3) = i
      BY <1>4, <2>1
    <3>2. made[3 + (i - 3)] = rest[i - 3] /\ rest[i - 3] = line[3 + (i - 3)]
      BY <1>5, <1>6, <3>1
    <3> QED
      BY <3>1, <3>2
  <2>2. CASE i \in {1, 2, 3}
    BY <1>6, <2>2
  <2> QED
    BY <1>4, <2>1, <2>2
<1>8. Len(made) = Len(line)
  BY <1>4, <1>5, <1>6
<1>9. made = line
  BY <1>6, <1>7, <1>8, SeqEqual
<1> QED
  BY <1>3, <1>9

Hits == [path : Seq(Parts) \ {<<>>}, line : Numbers, column : Numbers,
         content : Seq(Parts) \ {<<>>}]

LEMMA LineOfHit ==
    ASSUME NEW hit \in Hits, NEW in_directory \in BOOLEAN
    PROVE  rg_line(hit, in_directory) \in Seq(Parts)
<1>1. /\ hit.path \in Seq(Parts) /\ hit.content \in Seq(Parts) /\ <<>> \in Seq(Parts)
      /\ hit.line \in Parts /\ hit.column \in Parts
  BY FindingsAssumption DEF Hits
<1>2. <<hit.line, hit.column>> \in Seq(Parts)
  BY <1>1
<1> QED
  BY <1>1, <1>2, ConcatProperties DEF rg_line

\* The line of a hit whose path has no colon is read as that hit.
LEMMA HitIsParsed ==
    ASSUME NEW hit \in Hits, Len(hit.path) = 1
    PROVE  parse_rg_line(rg_line(hit, TRUE)) = {hit}
<1> DEFINE name == hit.path[1]
           line == <<name>> \o <<hit.line, hit.column>> \o hit.content
<1>1. /\ hit.path \in Seq(Parts) /\ hit.content \in Seq(Parts) /\ hit.content # <<>>
      /\ hit.line \in Numbers /\ hit.column \in Numbers
      /\ hit.line \in Parts /\ hit.column \in Parts
      /\ hit = [path |-> hit.path, line |-> hit.line, column |-> hit.column,
                content |-> hit.content]
  BY FindingsAssumption DEF Hits
<1>2. name \in Parts /\ hit.path = <<name>>
  BY <1>1
<1>3. rg_line(hit, TRUE) = line
  BY <1>2 DEF rg_line
<1> HIDE DEF name
<1>4. /\ line \in Seq(Parts) /\ Len(line) = 3 + Len(hit.content)
      /\ line[1] = name /\ line[2] = hit.line /\ line[3] = hit.column
      /\ \A i \in 1 .. Len(hit.content) : line[3 + i] = hit.content[i]
  BY <1>1, <1>2, LineOfParts
<1> HIDE DEF line
<1>5. Len(hit.content) \in Nat \ {0}
  BY <1>1, EmptySeq
<1>6. Len(line) >= 4 /\ Len(line) - 3 = Len(hit.content)
  BY <1>4, <1>5
<1>7. /\ SubSeq(line, 4, Len(line)) \in Seq(Parts)
      /\ Len(SubSeq(line, 4, Len(line))) = Len(line) - 3
      /\ \A i \in 1 .. Len(line) - 3 : SubSeq(line, 4, Len(line))[i] = line[3 + i]
  BY <1>4, <1>6, RestOfLine
<1>8. SubSeq(line, 4, Len(line)) = hit.content
  BY <1>1, <1>4, <1>6, <1>7, SeqEqual
<1>9. parse_rg_line(line) = {[path |-> <<name>>, line |-> hit.line, column |-> hit.column,
                              content |-> hit.content]}
  BY <1>1, <1>4, <1>6, <1>8 DEF parse_rg_line
<1> QED
  BY <1>1, <1>2, <1>3, <1>9

LEMMA SearchIsFine ==
    ASSUME NEW request, NEW hits \in Findings, NEW obs,
           request.call.in_directory \in BOOLEAN,
           obs = Observed("SearchResults", NoCode,
                          <<hits, search(hits, request.call.in_directory)>>)
    PROVE  SearchFine([id |-> request.id, call |-> request.call, obs |-> obs,
                       was |-> Missing, now |-> Missing])
<1> DEFINE dir     == request.call.in_directory
           matches == search(hits, dir)
<1>1. obs.text[1] = hits /\ obs.text[2] = matches
  BY DEF Observed
<1>2. hits \subseteq Hits
  BY FindingsAssumption DEF Hits
<1>3. matches = UNION {parse_rg_line(rg_line(hit, dir)) : hit \in hits}
  BY DEF search
<1> HIDE DEF matches
<1>4. ASSUME NEW match \in matches
      PROVE  \E hit \in hits : /\ match \in parse_rg_line(rg_line(hit, dir))
                              /\ rg_line(match, TRUE) = rg_line(hit, dir)
  <2>1. PICK hit \in hits : match \in parse_rg_line(rg_line(hit, dir))
    BY <1>3
  <2>2. rg_line(hit, dir) \in Seq(Parts)
    BY <1>2, LineOfHit
  <2>3. rg_line(match, TRUE) = rg_line(hit, dir)
    BY <2>1, <2>2, MatchIsItsLine
  <2> QED
    BY <2>1, <2>3
<1>5. ASSUME dir, NEW hit \in hits, Len(hit.path) = 1
      PROVE  parse_rg_line(rg_line(hit, dir)) = {hit}
  <2>1. dir = TRUE
    BY <1>5
  <2> QED
    BY <1>2, <1>5, <2>1, HitIsParsed
<1>6. ASSUME dir, NEW hit \in hits, Len(hit.path) = 1
      PROVE  hit \in matches
  BY <1>3, <1>5, <1>6
<1>7. ASSUME dir, \A hit \in hits : Len(hit.path) = 1
      PROVE  matches \subseteq hits
  <2>1. ASSUME NEW match \in matches  PROVE match \in hits
    <3>1. PICK hit \in hits : match \in parse_rg_line(rg_line(hit, dir))
      BY <1>4
    <3>2. parse_rg_line(rg_line(hit, dir)) = {hit}
      BY <1>5, <1>7
    <3> QED
      BY <3>1, <3>2
  <2> QED
    BY <2>1
<1> QED
  BY <1>1, <1>4, <1>6, <1>7 DEF SearchFine

-----------------------------------------------------------------------------
(***************************************************************************)
(* The steps.                                                              *)
(***************************************************************************)
LEMMA EventsStay ==
    ASSUME EventsFine, Begun \subseteq Begun',
           IsSequence(trace),
           \/ trace' = trace
           \/ \E e : trace' = Append(trace, e) /\ EventFine(e)'
    PROVE  EventsFine'
<1>1. ASSUME NEW e, EventFine(e)  PROVE EventFine(e)'
  BY <1>1 DEF EventFine
<1>2. CASE trace' = trace
  BY <1>1, <1>2 DEF EventsFine
<1>3. ASSUME NEW e, trace' = Append(trace, e), EventFine(e)'
      PROVE  EventsFine'
  <2>1. \A i \in DOMAIN trace' :
           (i \in DOMAIN trace /\ trace'[i] = trace[i]) \/ trace'[i] = e
    BY <1>3, SequenceAppended
  <2> QED
    BY <1>1, <1>3, <2>1 DEF EventsFine
<1> QED
  BY <1>2, <1>3

LEMMA EventOfRequest ==
    ASSUME NEW request \in Requests,
           request.call.type = "nushell_tool" => KnownFlags(request),
           Item(request) \in Begun', NEW kind, NEW code,
           NEW e, e = Event(kind, request, code)
    PROVE  EventFine(e)'
<1>1. e.id = request.id /\ e.flags = args_to_flags(request.args)
  BY DEF Event
<1>2. Item(request).id = request.id /\ Item(request).call = request.call
  BY DEF Item
<1>3. FlagsFine(request.call, e.flags)
  BY <1>1, RequestFlags
<1>4. PICK b : b = Item(request)
  OBVIOUS
<1>5. b \in Begun' /\ b.id = e.id /\ FlagsFine(b.call, e.flags)
  BY <1>1, <1>2, <1>3, <1>4
<1> QED
  BY <1>5 DEF EventFine

LEMMA IsolationStays ==
    ASSUME ToolsAreIsolated, Begun \subseteq Begun', session' = session, ran' = ran,
           \/ serving' = serving /\ reply' = reply
           \/ serving' = NoRequest
           \/ reply'.kind # "Structured"
    PROVE  ToolsAreIsolated'
<1> DEFINE Shells(B) == {c \in B : c.call.type = "shell"}
           Defined(B) == UNION {b.call.command.defines : b \in Shells(B)}
<1>1. session.defs \subseteq Defined(Begun)
  BY DEF ToolsAreIsolated
<1>2. Defined(Begun) \subseteq Defined(Begun')
  OBVIOUS
<1>3. session'.defs \subseteq Defined(Begun')
  BY <1>1, <1>2
<1>4. serving' # NoRequest /\ serving'.call.type = "nushell_tool" /\ reply'.kind = "Structured" =>
         reply'.code = IF ran'.exit = NoCode THEN 0 ELSE ran'.exit
  BY DEF ToolsAreIsolated
<1> QED
  BY <1>3, <1>4 DEF ToolsAreIsolated

LEMMA BegunByAnswer ==
    ASSUME Typed, serving = NoRequest, NEW request, NEW obs, NEW was, NEW now,
           Answer(request, obs, was, now)
    PROVE  Begun \subseteq Begun' /\ Item(request) \in Begun'
<1>1. Begun = {Item(answered[i]) : i \in DOMAIN answered}
  BY BegunIs
<1> QED
  BY <1>1, BegunAppended

LEMMA BegunByAsking ==
    ASSUME serving = NoRequest, serving' # NoRequest, answered' = answered
    PROVE  Begun \subseteq Begun' /\ Item(serving') \in Begun'
  BY DEF Begun, Item

LEMMA BegunByFinish ==
    ASSUME Typed, serving # NoRequest, NEW obs, Answer(serving, obs, Missing, Missing)
    PROVE  Begun \subseteq Begun' /\ Item(serving) \in Begun'
<1>1. Begun = {Item(answered[i]) : i \in DOMAIN answered} \cup {Item(serving)}
  BY BegunIs
<1> QED
  BY <1>1, BegunAppended

\* What the property asks of the history and of the session.
RouterKeeps == AnswersFine /\ EventsFine /\ ToolsAreIsolated

LEMMA InitKeeps == RouterInit => RouterKeeps
<1> SUFFICES ASSUME RouterInit PROVE RouterKeeps
  OBVIOUS
<1>1. answered = <<>> /\ trace = <<>> /\ serving = NoRequest /\ session.defs = {}
  BY DEF RouterInit, NewSession
<1>2. DOMAIN answered = {} /\ DOMAIN trace = {}
  BY <1>1
<1> QED
  BY <1>1, <1>2 DEF RouterKeeps, AnswersFine, EventsFine, ToolsAreIsolated

LEMMA FileKeeps ==
    ASSUME Typed, RouterKeeps, DispatchFile
    PROVE  RouterKeeps'
<1>0. PICK request : request = Head(mailbox)
  OBVIOUS
<1>1. PICK call : call = request.call
  OBVIOUS
<1>2. PICK was : was = files[Dir(call)]
  OBVIOUS
<1>3. /\ serving = NoRequest /\ mailbox # <<>> /\ call.type \in DOMAIN FileEvent
      /\ UNCHANGED <<serving, reply, session, ran>>
  BY <1>0, <1>1 DEF DispatchFile
<1>4. PICK result \in FileCall(was, call) :
         /\ trace' = IF result.obs.kind = "Error" THEN trace
                     ELSE Append(trace, Event(FileEvent[call.type], request, NoCode))
         /\ Answer(request, result.obs, was, result.file)
  BY <1>0, <1>1, <1>2 DEF DispatchFile
<1>5. request \in Requests /\ call \in Calls /\ was \in Files
  <2>1. request \in Requests
    BY <1>0, <1>3, HeadIsNext DEF Typed
  <2>2. Dir(call) \in Dirs
    BY DEF Dir, Dirs, Typed
  <2> QED
    BY <1>1, <1>2, <2>1, <2>2, RequestIs DEF Typed
<1>6. /\ result.obs.kind \in {"FileContent", "FileWritten", "Error"}
      /\ call.type = "edit" /\ result.obs.kind = "FileWritten" =>
             Unambiguous(was, result.file, call)
  BY <1>3, <1>5, FileCallMakes
<1>7. Begun \subseteq Begun' /\ Item(request) \in Begun'
  BY <1>3, <1>4, BegunByAnswer
<1>8. AnswersFine'
  <2>1. SearchFine([id |-> request.id, call |-> request.call, obs |-> result.obs,
                    was |-> was, now |-> result.file])
    BY <1>6 DEF SearchFine
  <2> QED
    BY <1>1, <1>4, <1>6, <2>1, AnsweredFine DEF RouterKeeps
<1>9. EventsFine'
  <2>1. request.call.type # "nushell_tool"
    BY <1>1, <1>3 DEF FileEvent
  <2>2. PICK e : e = Event(FileEvent[call.type], request, NoCode)
    OBVIOUS
  <2>3. EventFine(e)'
    BY <1>5, <1>7, <2>1, <2>2, EventOfRequest
  <2>4. trace' = trace \/ trace' = Append(trace, e)
    BY <1>4, <2>2
  <2> QED
    BY <1>7, <2>3, <2>4, EventsStay DEF RouterKeeps, Typed
<1>10. ToolsAreIsolated'
  BY <1>3, <1>7, IsolationStays DEF RouterKeeps
<1> QED
  BY <1>8, <1>9, <1>10 DEF RouterKeeps

LEMMA SearchKeeps ==
    ASSUME Typed, RouterKeeps, DispatchSearch
    PROVE  RouterKeeps'
<1>0. PICK request : request = Head(mailbox)
  OBVIOUS
<1>1. /\ serving = NoRequest /\ mailbox # <<>> /\ request.call.type = "search"
      /\ UNCHANGED <<serving, reply, session, trace, ran>>
  BY <1>0 DEF DispatchSearch
<1>2. PICK obs :
         /\ Answer(request, obs, Missing, Missing)
         /\ \/ obs = Failed(NoCode)
            \/ \E hits \in Findings :
                  obs = Observed("SearchResults", NoCode,
                                 <<hits, search(hits, request.call.in_directory)>>)
  BY <1>0 DEF DispatchSearch
<1>3. Begun \subseteq Begun'
  BY <1>1, <1>2, BegunByAnswer
<1>4. SearchFine([id |-> request.id, call |-> request.call, obs |-> obs,
                  was |-> Missing, now |-> Missing])
  <2>1. CASE obs = Failed(NoCode)
    BY <2>1 DEF SearchFine, Failed, Observed
  <2>2. request.call.in_directory \in BOOLEAN
    BY <1>0, <1>1, HeadIsNext, RequestIs, CallsAssumption DEF Typed
  <2>3. ASSUME NEW hits \in Findings,
               obs = Observed("SearchResults", NoCode,
                              <<hits, search(hits, request.call.in_directory)>>)
        PROVE  SearchFine([id |-> request.id, call |-> request.call, obs |-> obs,
                           was |-> Missing, now |-> Missing])
    BY <2>2, <2>3, SearchIsFine
  <2> QED
    BY <1>2, <2>1, <2>3
<1>5. AnswersFine'
  BY <1>1, <1>2, <1>4, AnsweredFine DEF RouterKeeps
<1>6. EventsFine'
  BY <1>1, <1>3, EventsStay DEF RouterKeeps, Typed
<1>7. ToolsAreIsolated'
  BY <1>1, <1>3, IsolationStays DEF RouterKeeps
<1> QED
  BY <1>5, <1>6, <1>7 DEF RouterKeeps

LEMMA SessionCallKeeps ==
    ASSUME Typed, RouterKeeps, DispatchShell \/ DispatchTool
    PROVE  RouterKeeps'
<1>0. PICK request : request = Head(mailbox)
  OBVIOUS
<1>1. /\ serving = NoRequest /\ mailbox # <<>>
      /\ request.call.type \in {"shell", "nushell_tool"}
      /\ UNCHANGED <<session, ran>>
  BY <1>0 DEF DispatchShell, DispatchTool
<1>2. request \in Requests /\ request # NoRequest
  BY <1>0, <1>1, HeadIsNext, RequestIs DEF Typed
<1>3. \/ trace' = trace
      \/ /\ trace' = Append(trace, Event("Started", request, NoCode))
         /\ request.call.type = "nushell_tool" => KnownFlags(request)
  BY <1>0 DEF DispatchShell, DispatchTool
<1>4. \/ /\ \E code : Answer(request, Failed(code), Missing, Missing)
         /\ UNCHANGED <<serving, reply>>
      \/ Ask(request) /\ UNCHANGED answered
  BY <1>0 DEF DispatchShell, DispatchTool
<1>5. Begun \subseteq Begun' /\ Item(request) \in Begun'
  <2>1. CASE \E code : Answer(request, Failed(code), Missing, Missing)
    BY <1>1, <2>1, BegunByAnswer
  <2>2. CASE Ask(request) /\ UNCHANGED answered
    BY <1>1, <1>2, <2>2, BegunByAsking DEF Ask
  <2> QED
    BY <1>4, <2>1, <2>2
<1>6. AnswersFine'
  <2>1. ASSUME NEW code, Answer(request, Failed(code), Missing, Missing)
        PROVE  AnswersFine'
    <3>1. Failed(code).kind = "Error"
      BY DEF Failed, Observed
    <3>2. SearchFine([id |-> request.id, call |-> request.call, obs |-> Failed(code),
                      was |-> Missing, now |-> Missing])
      BY <3>1 DEF SearchFine
    <3> QED
      BY <2>1, <3>1, <3>2, AnsweredFine DEF RouterKeeps
  <2>2. CASE answered' = answered
    BY <2>2 DEF RouterKeeps, AnswersFine
  <2> QED
    BY <1>4, <2>1, <2>2
<1>7. EventsFine'
  <2>1. CASE trace' = trace
    BY <1>5, <2>1, EventsStay DEF RouterKeeps, Typed
  <2>2. CASE /\ trace' = Append(trace, Event("Started", request, NoCode))
             /\ request.call.type = "nushell_tool" => KnownFlags(request)
    <3>1. PICK e : e = Event("Started", request, NoCode)
      OBVIOUS
    <3>2. EventFine(e)'
      BY <1>2, <1>5, <2>2, <3>1, EventOfRequest
    <3> QED
      BY <1>5, <2>2, <3>1, <3>2, EventsStay DEF RouterKeeps, Typed
  <2> QED
    BY <1>3, <2>1, <2>2
<1>8. ToolsAreIsolated'
  <2>1. \/ serving' = serving /\ reply' = reply
        \/ reply'.kind # "Structured"
    BY <1>4 DEF Ask, NoReply, Observed
  <2> QED
    BY <1>1, <1>5, <2>1, IsolationStays DEF RouterKeeps
<1> QED
  BY <1>6, <1>7, <1>8 DEF RouterKeeps

LEMMA ServeKeeps ==
    ASSUME Typed, RouterKeeps, NEW eval \in Evaluations(Codes), Serve(eval)
    PROVE  RouterKeeps'
<1>1. /\ serving # NoRequest /\ UNCHANGED <<serving, trace, answered>>
      /\ session' = RunOf(serving.call, eval).session
      /\ reply' = RunOf(serving.call, eval).obs
      /\ ran' = eval
  BY DEF Serve, Asked
<1>2. Begun' = Begun
  BY <1>1 DEF Begun
<1>3. PICK call : call = serving.call
  OBVIOUS
<1>4. call.type \in {"shell", "nushell_tool"} /\ Item(serving) \in Begun /\ Item(serving).call = call
  BY <1>1, <1>3 DEF Typed, Queued, BeginsSession, Begun, Item
<1>5. Leaves(RunOf(call, eval), call, eval)
  BY <1>4, RunLeaves
<1>6. AnswersFine' /\ EventsFine'
  <2>1. EventsFine'
    BY <1>1, <1>2, EventsStay DEF RouterKeeps, Typed
  <2> QED
    BY <1>1, <2>1 DEF RouterKeeps, AnswersFine
<1>7. ToolsAreIsolated'
  <2> DEFINE Shells(B) == {c \in B : c.call.type = "shell"}
             Defined(B) == UNION {b.call.command.defines : b \in Shells(B)}
  <2>1. session.defs \subseteq Defined(Begun)
    BY DEF RouterKeeps, ToolsAreIsolated
  <2>2. (IF call.type = "shell" THEN call.command.defines ELSE {}) \subseteq Defined(Begun)
    BY <1>4
  <2> HIDE DEF Defined
  <2>3. session'.defs \subseteq Defined(Begun)
    BY <1>1, <1>3, <1>5, <2>1, <2>2 DEF Leaves
  <2>4. call.type = "nushell_tool" /\ reply'.kind = "Structured" =>
           reply'.code = IF ran'.exit = NoCode THEN 0 ELSE ran'.exit
    BY <1>1, <1>3, <1>5 DEF Leaves
  <2> QED
    BY <1>1, <1>2, <1>3, <2>3, <2>4 DEF ToolsAreIsolated, Defined
<1> QED
  BY <1>6, <1>7 DEF RouterKeeps

LEMMA FinishKeeps ==
    ASSUME Typed, RouterKeeps, Finish
    PROVE  RouterKeeps'
<1>0. PICK request : request = serving
  OBVIOUS
<1>1. /\ serving # NoRequest /\ serving' = NoRequest /\ UNCHANGED <<session, ran>>
  BY DEF Finish
<1>2. PICK obs : /\ Answer(request, obs, Missing, Missing)
                 /\ obs.kind \in {"none", "Structured", "Error"}
  <2>1. reply.kind = "Err" => Failed(1).kind = "Error"
    BY DEF Failed, Observed
  <2> QED
    BY <1>0, <2>1 DEF Finish, Typed
<1>3. \/ trace' = trace
      \/ \E kind, code : trace' = Append(trace, Event(kind, request, code))
  BY <1>0 DEF Finish
<1>4. BeginsSession(request)
  BY <1>0, <1>1 DEF Typed, Queued
<1>5. Begun \subseteq Begun' /\ Item(request) \in Begun'
  BY <1>0, <1>1, <1>2, BegunByFinish
<1>6. AnswersFine'
  <2>1. SearchFine([id |-> request.id, call |-> request.call, obs |-> obs,
                    was |-> Missing, now |-> Missing])
    BY <1>2 DEF SearchFine
  <2> QED
    BY <1>2, <2>1, AnsweredFine DEF RouterKeeps
<1>7. EventsFine'
  <2>1. CASE trace' = trace
    BY <1>5, <2>1, EventsStay DEF RouterKeeps, Typed
  <2>2. ASSUME NEW kind, NEW code, trace' = Append(trace, Event(kind, request, code))
        PROVE  EventsFine'
    <3>1. PICK e : e = Event(kind, request, code)
      OBVIOUS
    <3>2. EventFine(e)'
      BY <1>4, <1>5, <3>1, EventOfRequest DEF BeginsSession
    <3> QED
      BY <1>5, <2>2, <3>1, <3>2, EventsStay DEF RouterKeeps, Typed
  <2> QED
    BY <1>3, <2>1, <2>2
<1>8. ToolsAreIsolated'
  BY <1>1, <1>5, IsolationStays DEF RouterKeeps
<1> QED
  BY <1>6, <1>7, <1>8 DEF RouterKeeps

LEMMA NextKeeps == Typed /\ RouterKeeps /\ [RouterNext]_routerVars => RouterKeeps'
<1> SUFFICES ASSUME Typed, RouterKeeps, [RouterNext]_routerVars PROVE RouterKeeps'
  OBVIOUS
<1>1. ASSUME UNCHANGED <<serving, session, trace, answered, ran>>,
             reply' = reply \/ reply'.kind # "Structured"
      PROVE  RouterKeeps'
  <2>1. Begun' = Begun
    BY <1>1 DEF Begun
  <2>2. EventsFine'
    BY <1>1, <2>1, EventsStay DEF RouterKeeps, Typed
  <2>3. ToolsAreIsolated'
    BY <1>1, <2>1, IsolationStays DEF RouterKeeps
  <2>4. AnswersFine'
    BY <1>1 DEF RouterKeeps, AnswersFine
  <2> QED
    BY <2>2, <2>3, <2>4 DEF RouterKeeps
<1>2. CASE \E call \in Calls : Send(call)
  BY <1>1, <1>2 DEF Send
<1>3. CASE GiveUp
  BY <1>1, <1>3 DEF GiveUp
<1>4. CASE Hang
  BY <1>1, <1>4 DEF Hang
<1>5. CASE Die
  BY <1>1, <1>5 DEF Die, Observed
<1>6. CASE UNCHANGED routerVars
  BY <1>1, <1>6 DEF routerVars
<1> QED
  BY <1>2, <1>3, <1>4, <1>5, <1>6, FileKeeps, SearchKeeps, SessionCallKeeps, ServeKeeps,
     FinishKeeps
  DEF RouterNext, Dispatch

LEMMA AlwaysKeeps == RouterSpec => [](Typed /\ RouterKeeps)
<1>1. RouterInit => Typed /\ RouterKeeps
  BY InitTyped, InitKeeps
<1>2. Typed /\ RouterKeeps /\ [RouterNext]_routerVars => (Typed /\ RouterKeeps)'
  BY NextTyped, NextKeeps
<1> QED
  BY <1>1, <1>2, PTL DEF RouterSpec

\* Whatever a command or a tool does to the session, in whatever order the
\* calls are made, given up on and served, no tool's exit code is another's,
\* and no tool leaves a definition.
THEOREM ToolsStayIsolated == RouterSpec => []ToolsAreIsolated
<1>1. RouterKeeps => ToolsAreIsolated
  BY DEF RouterKeeps
<1> QED
  BY <1>1, AlwaysKeeps, PTL

\* Every tool is started with flags its script declares, once each, with a
\* value the model gave for it: as it stands, or the boolean of its text on a
\* switch; for every registry, every way to write the names and arguments of
\* any length.
THEOREM FlagsAlwaysReachTheTool == RouterSpec => []FlagsReachTheTool
<1>1. Typed /\ RouterKeeps => FlagsReachTheTool
  <2> SUFFICES ASSUME Typed, EventsFine, NEW i \in DOMAIN trace
               PROVE  FlagsFine(CallOf(trace[i].id), trace[i].flags)
    BY DEF RouterKeeps, FlagsReachTheTool, FlagsFine
  <2>1. PICK b \in Begun : b.id = trace[i].id /\ FlagsFine(b.call, trace[i].flags)
    BY DEF EventsFine, EventFine
  <2>2. (CHOOSE c \in Begun : c.id = trace[i].id) = b
    BY <2>1, BegunOnce
  <2> QED
    BY <2>1, <2>2 DEF CallOf
<1> QED
  BY <1>1, AlwaysKeeps, PTL

\* An edit that is answered with success has replaced the one place its old
\* text has, or one all others overlap, whatever the text and the pattern.
THEOREM EditsAreUnambiguous == RouterSpec => []EditIsUnambiguous
<1>1. RouterKeeps => EditIsUnambiguous
  BY DEF RouterKeeps, AnswersFine, EditFine, EditIsUnambiguous, Unambiguous
<1> QED
  BY <1>1, AlwaysKeeps, PTL

\* No match of a search is made up or cut, and a search of a directory gives
\* every hit of a path without a colon as it was found, and nothing else if all
\* paths are such, for all hits.
THEOREM SearchesLoseNothing == RouterSpec => []SearchLosesNothing
<1>1. RouterKeeps => SearchLosesNothing
  BY DEF RouterKeeps, AnswersFine, SearchFine, SearchLosesNothing
<1> QED
  BY <1>1, AlwaysKeeps, PTL

=============================================================================
