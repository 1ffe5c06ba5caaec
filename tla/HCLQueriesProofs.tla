--------------------------- MODULE HCLQueriesProofs ---------------------------
(***************************************************************************)
(* Proofs about HCLQueries, for every configuration the loader makes: that *)
(* its state is well formed, that the provider which prices a resource is  *)
(* the one handed down to its module, that the queries are those of the    *)
(* instances of its resources, each made once, and that they have the      *)
(* values of their own module and of the resources they refer to.          *)
(*                                                                         *)
(* The first three follow from IInv: the stack is the path to the module   *)
(* at hand (StackIsPath), its frames have what the calls on the way give   *)
(* them (FrameIsCalled), the instances entered are those of the resources  *)
(* gone through (EnteredSoFar), and the queries made are those of the      *)
(* modules that do not wait to be called (EachOnce, QueriedSoFar).         *)
(*                                                                         *)
(* The values follow from VInv beside it: a module has its variables until *)
(* it makes a call whose arguments cross (VariablesAreOwn), and what the   *)
(* resources gone through have is their own, with references as they were  *)
(* evaluated or replaced by what they name (ExpandedSoFar).                *)
(***************************************************************************)
EXTENDS HCLQueries, FiniteSetTheorems, SequenceTheorems, WellFoundedInduction, TLAPS

-----------------------------------------------------------------------------
(* Paths of calls. *)

(* Every path of a module has its calls on the way, and is a sequence.     *)
LEMMA PathsAreClosed ==
    ASSUME NEW cf \in Configs, NEW path \in DOMAIN cf.modules
    PROVE  /\ path \in Seq(Range(path))
           /\ \A c \in DOMAIN cf.modules[path].calls : Append(path, c) \in DOMAIN cf.modules
           /\ \A k \in 1..Len(path) :
                 /\ SubSeq(path, 1, k - 1) \in DOMAIN cf.modules
                 /\ path[k] \in DOMAIN cf.modules[SubSeq(path, 1, k - 1)].calls
  BY ConfigsAssumption

(* What a longer path shares with the one it prolongs.                     *)
LEMMA Prolonged ==
    ASSUME NEW S, NEW path \in Seq(S), NEW c
    PROVE  /\ Len(path) \in Nat
           /\ Len(Append(path, c)) = Len(path) + 1
           /\ \A k \in 1..Len(path) : Append(path, c)[k] = path[k]
           /\ Append(path, c)[Len(path) + 1] = c
           /\ SubSeq(path, 1, Len(path)) = path
           /\ \A k \in 0..Len(path) : SubSeq(Append(path, c), 1, k) = SubSeq(path, 1, k)
  <1> DEFINE T == S \cup {c}
             longer == Append(path, c)
  <1>1. path \in Seq(T) /\ c \in T
    BY SeqDef
  <1>2. /\ Len(path) \in Nat /\ longer \in Seq(T) /\ Len(longer) = Len(path) + 1
        /\ \A k \in 1..Len(path) : longer[k] = path[k]
        /\ longer[Len(path) + 1] = c
    BY <1>1, AppendProperties, LenProperties
  <1>3. \A k \in 1..Len(path) : path[k] \in T
    BY <1>1, ElementOfSeq
  <1>4. ASSUME NEW k \in 0..Len(path)
        PROVE  /\ SubSeq(longer, 1, k) \in Seq(T) /\ Len(SubSeq(longer, 1, k)) = k
               /\ SubSeq(path, 1, k) \in Seq(T) /\ Len(SubSeq(path, 1, k)) = k
               /\ \A i \in 1..k : /\ SubSeq(longer, 1, k)[i] = path[i]
                                  /\ SubSeq(path, 1, k)[i] = path[i]
    <2>1. k \in Int /\ 1 \in Int /\ Len(path) \in Nat
      BY <1>2
    <2>2. \A i \in 1..k : path[i] \in T /\ longer[i] \in T /\ longer[i] = path[i]
      BY <1>2, <1>3
    <2>3. /\ SubSeq(path, 1, k) \in Seq(T)
          /\ Len(SubSeq(path, 1, k)) = IF 1 <= k THEN k - 1 + 1 ELSE 0
          /\ \A i \in 1..(k - 1 + 1) : SubSeq(path, 1, k)[i] = path[1 + i - 1]
      BY <2>1, <2>2, SubSeqProperties
    <2>4. /\ SubSeq(longer, 1, k) \in Seq(T)
          /\ Len(SubSeq(longer, 1, k)) = IF 1 <= k THEN k - 1 + 1 ELSE 0
          /\ \A i \in 1..(k - 1 + 1) : SubSeq(longer, 1, k)[i] = longer[1 + i - 1]
      <3> HIDE DEF longer
      <3> QED BY <2>1, <2>2, SubSeqProperties
    <2> HIDE DEF longer
    <2> QED BY <2>1, <2>2, <2>3, <2>4
  <1>5. \A k \in 0..Len(path) : SubSeq(longer, 1, k) = SubSeq(path, 1, k)
    BY <1>4, SeqEqual
  <1>6. SubSeq(path, 1, Len(path)) = path
    <2>1. Len(path) \in 0..Len(path)
      BY <1>2
    <2> QED BY <1>1, <1>4, <2>1, SeqEqual
  <1> QED BY <1>2, <1>5, <1>6

(* A prefix of a prefix is a prefix.                                       *)
LEMMA Shortened ==
    ASSUME NEW S, NEW path \in Seq(S), NEW n \in 0..Len(path)
    PROVE  /\ SubSeq(path, 1, n) \in Seq(S) /\ Len(SubSeq(path, 1, n)) = n
           /\ \A k \in 1..n : SubSeq(path, 1, n)[k] = path[k]
           /\ \A k \in 0..n : SubSeq(SubSeq(path, 1, n), 1, k) = SubSeq(path, 1, k)
           /\ n < Len(path) => Append(SubSeq(path, 1, n), path[n + 1]) = SubSeq(path, 1, n + 1)
  <1>1. Len(path) \in Nat /\ \A k \in 1..Len(path) : path[k] \in S
    BY ElementOfSeq, LenProperties
  <1>2. ASSUME NEW k \in 0..Len(path)
        PROVE  /\ SubSeq(path, 1, k) \in Seq(S) /\ Len(SubSeq(path, 1, k)) = k
               /\ \A i \in 1..k : SubSeq(path, 1, k)[i] = path[i]
    <2>1. k \in Int /\ 1 \in Int /\ \A i \in 1..k : path[i] \in S
      BY <1>1
    <2>2. /\ SubSeq(path, 1, k) \in Seq(S)
          /\ Len(SubSeq(path, 1, k)) = IF 1 <= k THEN k - 1 + 1 ELSE 0
          /\ \A i \in 1..(k - 1 + 1) : SubSeq(path, 1, k)[i] = path[1 + i - 1]
      BY <2>1, SubSeqProperties
    <2> QED BY <2>1, <2>2
  <1> DEFINE short == SubSeq(path, 1, n)
  <1>3. /\ short \in Seq(S) /\ Len(short) = n /\ n \in Nat
        /\ \A k \in 1..n : short[k] = path[k] /\ short[k] \in S
    BY <1>1, <1>2
  <1>4. ASSUME NEW k \in 0..n PROVE SubSeq(short, 1, k) = SubSeq(path, 1, k)
    <2>1. k \in Int /\ 1 \in Int /\ k \in 0..Len(path)
      BY <1>1, <1>3
    <2>2. /\ SubSeq(short, 1, k) \in Seq(S)
          /\ Len(SubSeq(short, 1, k)) = IF 1 <= k THEN k - 1 + 1 ELSE 0
          /\ \A i \in 1..(k - 1 + 1) : SubSeq(short, 1, k)[i] = short[1 + i - 1]
      <3>1. \A i \in 1..k : short[i] \in S
        BY <1>3, <2>1
      <3> HIDE DEF short
      <3> QED BY <2>1, <3>1, SubSeqProperties
    <2>3. /\ Len(SubSeq(short, 1, k)) = k
          /\ \A i \in 1..k : SubSeq(short, 1, k)[i] = path[i]
      <3> HIDE DEF short
      <3> QED BY <1>3, <2>1, <2>2
    <2>4. /\ SubSeq(path, 1, k) \in Seq(S) /\ Len(SubSeq(path, 1, k)) = k
          /\ \A i \in 1..k : SubSeq(path, 1, k)[i] = path[i]
      BY <1>2, <2>1
    <2> HIDE DEF short
    <2> QED BY <2>2, <2>3, <2>4, SeqEqual
  <1>5. ASSUME n < Len(path)
        PROVE  Append(short, path[n + 1]) = SubSeq(path, 1, n + 1)
    <2>1. n + 1 \in 0..Len(path) /\ path[n + 1] \in S
      BY <1>1, <1>3, <1>5
    <2>2. /\ SubSeq(path, 1, n + 1) \in Seq(S) /\ Len(SubSeq(path, 1, n + 1)) = n + 1
          /\ \A i \in 1..(n + 1) : SubSeq(path, 1, n + 1)[i] = path[i]
      BY <1>2, <2>1
    <2> HIDE DEF short
    <2>3. /\ Append(short, path[n + 1]) \in Seq(S) /\ Len(Append(short, path[n + 1])) = n + 1
          /\ \A i \in 1..n : Append(short, path[n + 1])[i] = short[i]
          /\ Append(short, path[n + 1])[n + 1] = path[n + 1]
      BY <1>3, <2>1, AppendProperties
    <2>4. \A i \in 1..(n + 1) : Append(short, path[n + 1])[i] = SubSeq(path, 1, n + 1)[i]
      BY <1>3, <2>2, <2>3
    <2> QED BY <2>2, <2>3, <2>4, SeqEqual
  <1> QED BY <1>3, <1>4, <1>5

-----------------------------------------------------------------------------
(* Providers, counts and instances. *)

LEMMA SameConfig ==
    ASSUME config' = config, NEW path, NEW key, NEW name
    PROVE  /\ HandedDown(path, key, name)' <=> HandedDown(path, key, name)
           /\ ConstantCount(path)' <=> ConstantCount(path)
           /\ CountOf(path)' = CountOf(path)
           /\ ProviderNames' = ProviderNames
           /\ Instances(path)' = Instances(path)
  <1>1. ProviderNames' = ProviderNames
    BY DEF ProviderNames
  <1>2. \A p, k : CallOn(p, k)' = CallOn(p, k)
    BY DEF CallOn
  <1>3. \A k, n : HandedDown(path, k, n)' <=> HandedDown(path, k, n)
    BY <1>1, <1>2 DEF HandedDown
  <1>4. (ConstantCount(path)' <=> ConstantCount(path)) /\ CountOf(path)' = CountOf(path)
    BY <1>2 DEF ConstantCount, CountOf, CountGiven
  <1>5. \A r : InstancesOf(path, r)' = InstancesOf(path, r)
    BY <1>4 DEF InstancesOf
  <1>6. \A k : Provided(path, k)' <=> Provided(path, k)
    BY <1>3 DEF Provided
  <1>7. Instances(path)' = Instances(path)
    BY <1>5, <1>6 DEF Instances
  <1> QED BY <1>1, <1>3, <1>4, <1>7

(* The calls on the way to a child are those to its caller, and its own.   *)
LEMMA CallsOnTheWay ==
    ASSUME config \in Configs, NEW path \in DOMAIN config.modules,
           NEW c \in DOMAIN config.modules[path].calls
    PROVE  /\ \A k \in 1..Len(path) : CallOn(Append(path, c), k) = CallOn(path, k)
           /\ CallOn(Append(path, c), Len(path) + 1) = config.modules[path].calls[c]
  <1>1. path \in Seq(Range(path))
    BY PathsAreClosed
  <1>2. /\ Len(path) \in Nat
        /\ \A k \in 1..Len(path) : Append(path, c)[k] = path[k]
        /\ Append(path, c)[Len(path) + 1] = c
        /\ SubSeq(path, 1, Len(path)) = path
        /\ \A k \in 0..Len(path) : SubSeq(Append(path, c), 1, k) = SubSeq(path, 1, k)
    BY <1>1, Prolonged
  <1>3. /\ \A k \in 1..Len(path) : k - 1 \in 0..Len(path)
        /\ Len(path) + 1 - 1 = Len(path) /\ Len(path) \in 0..Len(path)
    BY <1>2
  <1>4. ASSUME NEW k \in 1..Len(path) PROVE CallOn(Append(path, c), k) = CallOn(path, k)
    <2>1. SubSeq(Append(path, c), 1, k - 1) = SubSeq(path, 1, k - 1) /\ Append(path, c)[k] = path[k]
      BY <1>2, <1>3
    <2> QED BY <2>1 DEF CallOn
  <1>5. CallOn(Append(path, c), Len(path) + 1) = config.modules[path].calls[c]
    <2>1. PICK child, n : child = Append(path, c) /\ n = Len(path) + 1
      OBVIOUS
    <2>2. SubSeq(child, 1, n - 1) = path /\ child[n] = c
      <3>1. n - 1 = Len(path) /\ Len(path) \in 0..Len(path)
        BY <1>2, <2>1
      <3> QED BY <1>2, <2>1, <3>1
    <2>3. CallOn(child, n) = config.modules[path].calls[c]
      BY <2>2 DEF CallOn
    <2> QED BY <2>1, <2>3
  <1> QED BY <1>4, <1>5

(* The names a `providers` block is about. *)
LEMMA PassedNames ==
    ASSUME NEW path \in DOMAIN config.modules, NEW c \in DOMAIN config.modules[path].calls,
           NEW key \in DOMAIN config.modules[path].calls[c].providers
    PROVE  /\ key \in ProviderNames
           /\ config.modules[path].calls[c].providers[key] \in ProviderNames
  <1> DEFINE m == config.modules[path]
             call == m.calls[c]
  <1>1. m \in Range(config.modules)
    BY DEF Range
  <1>2. call \in Range(m.calls)
    BY DEF Range
  <1>3. key \in DOMAIN call.providers /\ call.providers[key] \in Range(call.providers)
    BY DEF Range
  <1>4. PICK names : names = UNION {DOMAIN d.providers \cup Range(d.providers) : d \in Range(m.calls)}
    OBVIOUS
  <1>5. key \in names /\ call.providers[key] \in names
    BY <1>2, <1>3, <1>4
  <1>6. names \subseteq ProviderNames
    BY <1>1, <1>4 DEF ProviderNames
  <1> QED BY <1>5, <1>6

(* The keys of a child stand for those of its caller which its call hands  *)
(* down.                                                                   *)
LEMMA HandedDownNext ==
    ASSUME config \in Configs, NEW path \in DOMAIN config.modules,
           NEW c \in DOMAIN config.modules[path].calls, NEW key, NEW name,
           NEW passed, passed = config.modules[path].calls[c].providers
    PROVE  HandedDown(Append(path, c), key, name) <=>
             IF DOMAIN passed = {} THEN HandedDown(path, key, name)
             ELSE key \in DOMAIN passed /\ HandedDown(path, passed[key], name)
  <1> DEFINE child == Append(path, c)
  <1>1. path \in Seq(Range(path))
    BY PathsAreClosed
  <1>2. PICK n : n = Len(path)
    OBVIOUS
  <1>3. n \in Nat /\ Len(child) = n + 1
    BY <1>1, <1>2, Prolonged
  <1>4. (\A k \in 1..n : CallOn(child, k) = CallOn(path, k)) /\ CallOn(child, n + 1).providers = passed
    BY <1>2, CallsOnTheWay
  <1> HIDE DEF child
  <1>5. ASSUME HandedDown(child, key, name)
        PROVE  IF DOMAIN passed = {} THEN HandedDown(path, key, name)
               ELSE key \in DOMAIN passed /\ HandedDown(path, passed[key], name)
    <2>1. PICK names \in [0..(n + 1) -> ProviderNames] :
              /\ names[0] = name /\ names[n + 1] = key
              /\ \A k \in 1..(n + 1) :
                    IF DOMAIN CallOn(child, k).providers = {} THEN names[k - 1] = names[k]
                    ELSE /\ names[k] \in DOMAIN CallOn(child, k).providers
                         /\ names[k - 1] = CallOn(child, k).providers[names[k]]
      BY <1>3, <1>5 DEF HandedDown
    <2>2. PICK shorter : shorter = [k \in 0..n |-> names[k]]
      OBVIOUS
    <2>3. /\ shorter \in [0..n -> ProviderNames] /\ shorter[0] = name
          /\ \A k \in 0..n : shorter[k] = names[k]
      BY <1>3, <2>1, <2>2
    <2>4. \A k \in 1..n :
              IF DOMAIN CallOn(path, k).providers = {} THEN shorter[k - 1] = shorter[k]
              ELSE /\ shorter[k] \in DOMAIN CallOn(path, k).providers
                   /\ shorter[k - 1] = CallOn(path, k).providers[shorter[k]]
      <3>1. \A k \in 1..n : k \in 1..(n + 1) /\ k \in 0..n /\ k - 1 \in 0..n
        BY <1>3
      <3> QED BY <1>4, <2>1, <2>3, <3>1
    <2>5. IF DOMAIN passed = {} THEN names[n] = key
          ELSE key \in DOMAIN passed /\ names[n] = passed[key]
      <3>1. PICK m : m = n + 1
        OBVIOUS
      <3>2. m \in 1..(n + 1) /\ m - 1 = n
        BY <1>3, <3>1
      <3>3. IF DOMAIN CallOn(child, m).providers = {} THEN names[m - 1] = names[m]
            ELSE /\ names[m] \in DOMAIN CallOn(child, m).providers
                 /\ names[m - 1] = CallOn(child, m).providers[names[m]]
        BY <2>1, <3>2
      <3>4. CallOn(child, m).providers = passed /\ names[m] = key
        BY <1>4, <2>1, <3>1
      <3> QED BY <3>2, <3>3, <3>4
    <2>6. shorter[n] = names[n] /\ shorter[Len(path)] = names[n]
      BY <1>2, <1>3, <2>3
    <2> QED BY <1>2, <2>3, <2>4, <2>5, <2>6 DEF HandedDown
  <1>6. ASSUME IF DOMAIN passed = {} THEN HandedDown(path, key, name)
               ELSE key \in DOMAIN passed /\ HandedDown(path, passed[key], name)
        PROVE  HandedDown(child, key, name)
    <2>1. PICK last : last = IF DOMAIN passed = {} THEN key ELSE passed[key]
      OBVIOUS
    <2>2. HandedDown(path, last, name)
      BY <1>6, <2>1
    <2>3. PICK names \in [0..n -> ProviderNames] :
              /\ names[0] = name /\ names[n] = last
              /\ \A k \in 1..n :
                    IF DOMAIN CallOn(path, k).providers = {} THEN names[k - 1] = names[k]
                    ELSE /\ names[k] \in DOMAIN CallOn(path, k).providers
                         /\ names[k - 1] = CallOn(path, k).providers[names[k]]
      BY <1>2, <2>2 DEF HandedDown
    <2>4. key \in ProviderNames
      <3>1. CASE DOMAIN passed = {}
        BY <1>3, <2>1, <2>3, <3>1
      <3>2. CASE DOMAIN passed # {}
        BY <1>6, <3>2, PassedNames
      <3> QED BY <3>1, <3>2
    <2>5. PICK longer : longer = [k \in 0..(n + 1) |-> IF k = n + 1 THEN key ELSE names[k]]
      OBVIOUS
    <2>6. /\ longer \in [0..(n + 1) -> ProviderNames]
          /\ longer[n + 1] = key /\ \A k \in 0..n : longer[k] = names[k]
      <3>1. \A k \in 0..(n + 1) : k = n + 1 \/ k \in 0..n
        BY <1>3
      <3>2. \A k \in 0..n : k # n + 1 /\ k \in 0..(n + 1)
        BY <1>3
      <3>3. n + 1 \in 0..(n + 1)
        BY <1>3
      <3> QED BY <2>3, <2>4, <2>5, <3>1, <3>2, <3>3
    <2>7. longer[0] = name
      BY <1>3, <2>3, <2>6
    <2>8. ASSUME NEW k \in 1..(n + 1)
          PROVE  IF DOMAIN CallOn(child, k).providers = {} THEN longer[k - 1] = longer[k]
                 ELSE /\ longer[k] \in DOMAIN CallOn(child, k).providers
                      /\ longer[k - 1] = CallOn(child, k).providers[longer[k]]
      <3>1. CASE k = n + 1
        <4>1. k - 1 = n /\ n \in 0..n
          BY <1>3, <3>1
        <4> QED BY <1>4, <1>6, <2>1, <2>3, <2>6, <3>1, <4>1
      <3>2. CASE k \in 1..n
        <4>1. k - 1 \in 0..n /\ k \in 0..n
          BY <1>3, <3>2
        <4> QED BY <1>4, <2>3, <2>6, <3>2, <4>1
      <3> QED BY <1>3, <3>1, <3>2
    <2> QED BY <1>3, <2>6, <2>7, <2>8 DEF HandedDown
  <1> QED BY <1>5, <1>6 DEF child

(* An order of a finite set has all its elements, and no other.            *)
LEMMA OrderOfElements ==
    ASSUME NEW S, NEW order \in SetToSeqs(S), IsFiniteSet(S)
    PROVE  /\ Len(order) \in Nat /\ DOMAIN order = 1..Len(order)
           /\ \A k \in 1..Len(order) : order[k] \in S
           /\ \A x \in S : \E k \in 1..Len(order) : order[k] = x
  <1> DEFINE D == 1..Cardinality(S)
  <1>1. Cardinality(S) \in Nat
    BY FS_CardinalityType
  <1>2. order \in Injection(D, S)
    BY DEF SetToSeqs, Injection, IsInjective
  <1>3. order \in [D -> S]
    BY <1>2 DEF Injection
  <1>4. order \in Seq(S) /\ Len(order) = Cardinality(S)
    <2>1. order \in Seq(S)
      BY <1>1, <1>3, SeqDef
    <2>2. DOMAIN order = 1..Len(order) /\ Len(order) \in Nat
      BY <2>1, LenProperties
    <2> QED BY <1>1, <1>3, <2>1, <2>2
  <1>5. IsFiniteSet(D) /\ Cardinality(D) = Cardinality(S)
    <2>1. PICK n : n = Cardinality(S)
      OBVIOUS
    <2>2. n \in Int /\ 1 \in Int /\ n \in Nat
      BY <1>1, <2>1
    <2>3. IsFiniteSet(1..n) /\ Cardinality(1..n) = IF 1 > n THEN 0 ELSE n - 1 + 1
      BY <2>2, FS_Interval
    <2> QED BY <2>1, <2>2, <2>3
  <1>6. order \in Surjection(D, S)
    BY <1>2, <1>5, FS_Injection
  <1> QED BY <1>1, <1>3, <1>4, <1>6 DEF Surjection

(* each.value is a map, or nothing.                                        *)
LEMMA EachIsPlain ==
    ASSUME NEW key, NEW v, EachOf(key, v) # Null
    PROVE  Plain(EachOf(key, v))
  BY DEF EachOf, MapOf, Plain

LEMMA ElementsFinite ==
    ASSUME config \in Configs, NEW path \in DOMAIN config.modules,
           NEW r \in config.modules[path].resources
    PROVE  /\ IsFiniteSet(DOMAIN Elements(r))
           /\ Convertible(r) \subseteq DOMAIN Elements(r)
           /\ ~IsForEach(r) => Convertible(r) = {""}
           /\ \A key \in DOMAIN Elements(r) : IsForEach(r) => Elements(r)[key] = r.forEach[key]
  <1>1. CASE IsForEach(r)
    <2>1. Elements(r) = r.forEach
      BY <1>1 DEF Elements
    <2>2. IsFiniteSet(DOMAIN r.forEach)
      <3>1. r.forEach # Null
        BY <1>1 DEF IsForEach
      <3>2. \A s \in config.modules[path].resources : s.forEach # Null =>
               IsFiniteSet(DOMAIN s.forEach)
        BY ConfigsAssumption
      <3> QED BY <3>1, <3>2
    <2> QED BY <1>1, <2>1, <2>2 DEF Convertible
  <1>2. CASE ~IsForEach(r)
    <2>1. DOMAIN Elements(r) = {""} /\ Elements(r)[""] = Null
      BY <1>2 DEF Elements
    <2>2. Convertible(r) = {""}
      BY <2>1 DEF Convertible
    <2> QED BY <1>2, <2>1, <2>2, FS_Singleton
  <1> QED BY <1>1, <1>2

(* The address of an instance tells its resource and its element.          *)
LEMMA InstanceOf ==
    ASSUME config \in Configs, NEW path \in DOMAIN config.modules,
           NEW r \in config.modules[path].resources, NEW f, f.path = path,
           NEW a \in AddressesOf(r, f)
    PROVE  /\ a.path = path /\ a.name = r.name /\ KeyOf(r, a) \in Convertible(r)
           /\ a = [path |-> path, call |-> a.call, name |-> r.name, index |-> a.index]
           /\ a.call \in CallIndexes(f.mcount)
           /\ \E key \in Convertible(r) : a.index \in Indexes(r, key)
  <1>1. PICK c \in CallIndexes(f.mcount), i \in UNION {Indexes(r, key) : key \in Convertible(r)} :
            a = [path |-> path, call |-> c, name |-> r.name, index |-> i]
    BY DEF AddressesOf
  <1>2. PICK key \in Convertible(r) : i \in Indexes(r, key)
    BY <1>1
  <1>3. KeyOf(r, a) \in Convertible(r)
    <2>1. CASE IsForEach(r)
      <3>1. Convertible(r) \subseteq DOMAIN r.forEach
        BY <2>1 DEF Elements, Convertible
      <3>2. "" \notin DOMAIN r.forEach
        BY <2>1, ConfigsAssumption DEF IsForEach
      <3>3. Indexes(r, key) = {key}
        BY <1>2, <3>1, <3>2 DEF Indexes
      <3> QED BY <1>1, <1>2, <2>1, <3>3 DEF KeyOf
    <2>2. CASE ~IsForEach(r)
      BY <2>2, ElementsFinite DEF KeyOf
    <2> QED BY <2>1, <2>2
  <1> QED BY <1>1, <1>2, <1>3

(* The name of a resource is its own. *)
LEMMA NamedOnce ==
    ASSUME config \in Configs, NEW path \in DOMAIN config.modules,
           NEW r \in config.modules[path].resources
    PROVE  /\ \A s \in config.modules[path].resources : s.name = r.name => s = r
           /\ \A a : (a.path = path /\ a.name = r.name) => Resource(a) = r
  <1>1. \A s \in config.modules[path].resources : s.name = r.name => s = r
    <2>1. \A s, t \in config.modules[path].resources : s.name = t.name => s = t
      BY ConfigsAssumption
    <2> QED BY <2>1
  <1> QED BY <1>1 DEF Resource

(* What extractHCLModule enters for a resource are its instances.          *)
LEMMA AddressesAreInstances ==
    ASSUME config \in Configs, NEW path \in DOMAIN config.modules,
           NEW r \in config.modules[path].resources, NEW f,
           f.path = path, f.mcount = CountOf(path)
    PROVE  AddressesOf(r, f) = InstancesOf(path, r)
  <1>a. PICK calls : calls = IF CountOf(path) = 1 THEN {NoIndex} ELSE 0..(CountOf(path) - 1)
    OBVIOUS
  <1>b. PICK indexes : indexes = IF IsForEach(r) THEN Convertible(r)
                       ELSE IF r.count = Null \/ r.count = 1 THEN {NoIndex} ELSE 0..(r.count - 1)
    OBVIOUS
  <1>1. CallIndexes(f.mcount) = calls
    BY <1>a DEF CallIndexes
  <1>2. UNION {Indexes(r, key) : key \in Convertible(r)} = indexes
    <2>1. CASE IsForEach(r)
      <3>1. Convertible(r) \subseteq DOMAIN r.forEach
        BY <2>1 DEF Elements, Convertible
      <3>2. "" \notin DOMAIN r.forEach
        BY <2>1, ConfigsAssumption DEF IsForEach
      <3>3. \A key \in Convertible(r) : Indexes(r, key) = {key}
        BY <3>1, <3>2 DEF Indexes
      <3> QED BY <1>b, <2>1, <3>3
    <2>2. CASE ~IsForEach(r)
      BY <1>b, <2>2, ElementsFinite DEF Indexes
    <2> QED BY <2>1, <2>2
  <1>3. AddressesOf(r, f) = {[path |-> path, call |-> c, name |-> r.name, index |-> i] :
                               c \in calls, i \in indexes}
    BY <1>1, <1>2 DEF AddressesOf
  <1>4. InstancesOf(path, r) = {[path |-> path, call |-> c, name |-> r.name, index |-> i] :
                                  c \in calls, i \in indexes}
    BY <1>a, <1>b DEF InstancesOf
  <1> QED BY <1>3, <1>4

-----------------------------------------------------------------------------
(* The stack. *)

LEMMA StackIs ==
    ASSUME StackTypeOK, StackIsPath
    PROVE  /\ Len(stack) \in Nat /\ Len(stack) > 0 /\ DOMAIN stack = 1..Len(stack)
           /\ Len(stack) \in 1..Len(stack)
           /\ Frame.path \in DOMAIN config.modules
           /\ \A k \in 1..Len(stack) : stack[k] \in Range(stack)
           /\ Frame \in Range(stack)
           /\ Len(Frame.path) = Len(stack) - 1
           /\ ~Waits(Frame.path)
  <1>1. Len(stack) \in Nat /\ DOMAIN stack = 1..Len(stack) /\ stack # <<>>
    BY LenProperties DEF StackIsPath, StackTypeOK
  <1>2. Len(stack) > 0
    <2>1. CASE Len(stack) = 0
      BY <1>1, <2>1, EmptySeq DEF StackIsPath
    <2> QED BY <1>1, <2>1
  <1>3. Len(stack) \in 1..Len(stack)
    BY <1>1, <1>2
  <1>4. Frame.path \in DOMAIN config.modules
    BY <1>1, <1>3 DEF StackTypeOK, Frame
  <1>5. \A k \in 1..Len(stack) : stack[k] \in Range(stack)
    BY <1>1 DEF Range
  <1>6. Frame \in Range(stack)
    BY <1>3, <1>5 DEF Frame
  <1>7. Len(Frame.path) = Len(stack) - 1
    <2>1. PICK path : path = Frame.path
      OBVIOUS
    <2>2. Len(stack) = Len(path) + 1
      BY <2>1 DEF StackIsPath
    <2> QED BY <1>1, <2>1, <2>2
  <1>8. ~Waits(Frame.path)
    <2>1. SUFFICES ASSUME Waits(Frame.path) PROVE FALSE
      OBVIOUS
    <2>2. PICK k \in 1..Len(stack) : Len(Frame.path) >= k /\ Frame.path[k] \in stack[k].toCall
      BY <2>1 DEF Waits
    <2>3. k \in 1..(Len(stack) - 1)
      <3>1. PICK n, m : n = Len(stack) /\ m = Len(Frame.path)
        OBVIOUS
      <3>2. n \in Nat /\ m = n - 1 /\ m >= k /\ k \in 1..n
        BY <1>1, <1>7, <2>2, <3>1
      <3>3. k \in 1..(n - 1)
        BY <3>2
      <3> QED BY <3>1, <3>3
    <2> QED BY <2>2, <2>3 DEF StackIsPath
  <1> QED BY <1>1, <1>2, <1>3, <1>4, <1>5, <1>6, <1>7, <1>8

LEMMA CalledAlike ==
    ASSUME config' = config, NEW f, NEW g, FrameIsCalled(f),
           g.path = f.path, g.providers = f.providers, g.mcount = f.mcount
    PROVE  FrameIsCalled(g)'
  <1>1. /\ \A key, name : HandedDown(f.path, key, name)' <=> HandedDown(f.path, key, name)
        /\ ConstantCount(f.path)' <=> ConstantCount(f.path)
        /\ CountOf(f.path)' = CountOf(f.path)
        /\ ProviderNames' = ProviderNames
    BY SameConfig
  <1> QED BY <1>1 DEF FrameIsCalled

SameFrames ==
    /\ config' = config
    /\ stack' \in Seq(Range(stack')) /\ Len(stack') = Len(stack)
    /\ \A k \in 1..Len(stack) :
          /\ DOMAIN stack'[k] = DOMAIN stack[k]
          /\ stack'[k].path = stack[k].path /\ stack'[k].toCall = stack[k].toCall
          /\ stack'[k].providers = stack[k].providers /\ stack'[k].mcount = stack[k].mcount

LEMMA FramesKept ==
    ASSUME StackTypeOK, StackIsPath, FramesAreCalled, SameFrames
    PROVE  /\ StackTypeOK' /\ StackIsPath' /\ FramesAreCalled'
           /\ Frame'.path = Frame.path /\ Frame'.providers = Frame.providers
           /\ Frame'.mcount = Frame.mcount /\ Frame'.toCall = Frame.toCall
           /\ \A path : Waits(path)' <=> Waits(path)
  <1>1. /\ Len(stack) \in Nat /\ Len(stack) > 0 /\ DOMAIN stack = 1..Len(stack)
        /\ Len(stack) \in 1..Len(stack)
        /\ \A k \in 1..Len(stack) : stack[k] \in Range(stack)
    BY StackIs
  <1>2. DOMAIN stack' = DOMAIN stack /\ stack' # <<>>
    <2>1. PICK t : t = stack'
      OBVIOUS
    <2>2. t \in Seq(Range(t)) /\ Len(t) = Len(stack)
      BY <2>1 DEF SameFrames, Range
    <2>3. DOMAIN t = 1..Len(t)
      BY <2>2, LenProperties
    <2>4. t # <<>>
      BY <1>1, <2>2, EmptySeq
    <2> QED BY <1>1, <2>1, <2>2, <2>3, <2>4
  <1>3. /\ Frame'.path = Frame.path /\ Frame'.providers = Frame.providers
        /\ Frame'.mcount = Frame.mcount /\ Frame'.toCall = Frame.toCall
    BY <1>1 DEF SameFrames, Frame
  <1>4. StackTypeOK'
    <2>1. ASSUME NEW k \in DOMAIN stack
          PROVE  /\ DOMAIN stack'[k] = {"path", "providers", "mcount", "var", "each", "toCall"}
                 /\ stack'[k].path \in DOMAIN config.modules
                 /\ Range(stack'[k].providers) \subseteq config.providers
                 /\ stack'[k].toCall \subseteq DOMAIN config.modules[stack'[k].path].calls
                 /\ k > 1 => stack'[k].path = Append(stack'[k - 1].path, Last(stack'[k].path))
      <3>1. k > 1 => k - 1 \in 1..Len(stack)
        BY <1>1
      <3> QED BY <1>1, <3>1 DEF SameFrames, StackTypeOK
    <2> QED BY <1>2, <2>1 DEF StackTypeOK, SameFrames
  <1>5. StackIsPath'
    <2>1. \A k \in 1..(Len(stack) - 1) : k \in 1..Len(stack)
      BY <1>1
    <2> QED BY <1>3, <2>1 DEF StackIsPath, SameFrames
  <1>6. FramesAreCalled'
    <2>1. SUFFICES ASSUME NEW g \in Range(stack') PROVE FrameIsCalled(g)'
      BY DEF FramesAreCalled
    <2>2. PICK k \in 1..Len(stack) : g = stack'[k]
      BY <1>1, <1>2, <2>1 DEF Range
    <2>3. PICK f : f = stack[k]
      OBVIOUS
    <2>4. FrameIsCalled(f)
      BY <1>1, <2>3 DEF FramesAreCalled
    <2> QED BY <2>2, <2>3, <2>4, CalledAlike DEF SameFrames
  <1>7. \A path : Waits(path)' <=> Waits(path)
    BY DEF Waits, SameFrames
  <1> QED BY <1>3, <1>4, <1>5, <1>6, <1>7

(* No query is made, and no module starts to wait.                         *)
LEMMA QueriesKept ==
    ASSUME EachOnce, config' = config, queries' = queries,
           \A path \in DOMAIN config.modules : Waits(path)' => Waits(path)
    PROVE  EachOnce' /\ \A path : QueriedIn(path)' = QueriedIn(path)
  <1>1. \A path : QueriedIn(path)' = QueriedIn(path)
    BY DEF QueriedIn
  <1>2. \A q \in DOMAIN queries :
           HandedDown(q.address.path, q.type, q.provider)'
             <=> HandedDown(q.address.path, q.type, q.provider)
    BY SameConfig
  <1> QED BY <1>1, <1>2 DEF EachOnce

-----------------------------------------------------------------------------
(* IInv is inductive: one lemma for each action. *)

LEMMA InitIInv == Init => IInv
  <1>1. SUFFICES ASSUME Init PROVE IInv
    OBVIOUS
  <1>2. PICK f : f = [path |-> <<>>, providers |-> [k \in config.providers |-> k],
                      mcount |-> 1, var |-> config.modules[<<>>].variables, each |-> Null,
                      toCall |-> DOMAIN config.modules[<<>>].calls]
    OBVIOUS
  <1>3. /\ config \in Configs /\ stack = <<f>> /\ pc = "expand"
        /\ toExpand = config.modules[<<>>].resources
        /\ DOMAIN rss = {} /\ toResolve = {} /\ DOMAIN queries = {}
    BY <1>1, <1>2 DEF Init, EmptyFunction, EmptyBag, SetToBag
  <1>4. /\ DOMAIN f = {"path", "providers", "mcount", "var", "each", "toCall"}
        /\ f.path = <<>> /\ f.providers = [k \in config.providers |-> k]
        /\ f.mcount = 1 /\ f.toCall = DOMAIN config.modules[<<>>].calls
    BY <1>2
  <1>5. <<>> \in DOMAIN config.modules
    BY <1>3, ConfigsAssumption
  <1>6. /\ Len(stack) = 1 /\ DOMAIN stack = {1} /\ stack[1] = f /\ stack # <<>> /\ Frame = f
        /\ 1..Len(stack) = {1} /\ Range(stack) = {f} /\ stack \in Seq({f})
    BY <1>3 DEF Frame, Range
  <1>7. StackTypeOK
    BY <1>4, <1>5, <1>6 DEF StackTypeOK, Range
  <1>8. TypeOK
    BY <1>3, <1>4, <1>6, <1>7 DEF TypeOK, Module
  <1>9. StackIsPath
    <2>1. PICK root : root = Frame.path
      OBVIOUS
    <2>2. root = <<>> /\ stack[1].path = root
      BY <1>4, <1>6, <2>1
    <2>3. /\ SubSeq(root, 1, 1 - 1) = root /\ Len(root) = 0
          /\ \A k \in 1..Len(stack) : k = 1 /\ 1..(Len(stack) - 1) = {}
      BY <1>6, <2>2
    <2>4. /\ Len(stack) = Len(root) + 1
          /\ \A k \in 1..Len(stack) : stack[k].path = SubSeq(root, 1, k - 1)
          /\ \A k \in 1..(Len(stack) - 1) : root[k] \notin stack[k].toCall
      <3>1. Len(stack) = Len(root) + 1 /\ 1..(Len(stack) - 1) = {}
        BY <1>6, <2>3
      <3>2. ASSUME NEW k \in 1..Len(stack) PROVE stack[k].path = SubSeq(root, 1, k - 1)
        <4>1. k = 1
          BY <2>3
        <4> QED BY <2>2, <2>3, <4>1
      <3> QED BY <3>1, <3>2
    <2>5. stack \in Seq(Range(stack))
      BY <1>6
    <2> QED BY <2>1, <2>4, <2>5 DEF StackIsPath
  <1>10. FramesAreCalled
    <2>1. config.providers \subseteq ProviderNames
      BY DEF ProviderNames
    <2>2. ASSUME NEW key \in ProviderNames, NEW name
          PROVE  HandedDown(<<>>, key, name) <=> key = name
      <3>1. Len(<<>>) = 0 /\ 0..0 = {0} /\ 1..0 = {}
        OBVIOUS
      <3>2. ASSUME key = name PROVE HandedDown(<<>>, key, name)
        <4>1. PICK names : names = [k \in 0..0 |-> key]
          OBVIOUS
        <4>2. names \in [0..0 -> ProviderNames] /\ names[0] = key
          BY <3>1, <4>1
        <4> QED BY <3>1, <3>2, <4>2 DEF HandedDown
      <3> QED BY <3>1, <3>2 DEF HandedDown
    <2>3. CountOf(<<>>) = 1
      BY DEF CountOf, CountGiven
    <2>4. FrameIsCalled(f)
      BY <1>4, <2>1, <2>2, <2>3 DEF FrameIsCalled
    <2> QED BY <1>6, <2>4 DEF FramesAreCalled
  <1>11. EnteredSoFar
    <2>1. Module.resources \ toExpand = {}
      BY <1>3, <1>4, <1>6 DEF Module
    <2>2. Entered = {}
      BY <2>1 DEF Entered
    <2> QED BY <1>3, <2>2 DEF EnteredSoFar
  <1>12. EachOnce
    BY <1>3, FS_EmptySet DEF EachOnce
  <1>13. QueriedSoFar
    <2>1. QueriedIn(Frame.path) = {}
      BY <1>3 DEF QueriedIn
    <2>2. ASSUME NEW path \in DOMAIN config.modules, path # <<>>
          PROVE  Waits(path)
      <3>1. /\ path \in Seq(Range(path))
            /\ \A k \in 1..Len(path) : path[k] \in DOMAIN config.modules[SubSeq(path, 1, k - 1)].calls
        BY <1>3, PathsAreClosed
      <3>2. Len(path) \in Nat
        BY <3>1, LenProperties
      <3>3. Len(path) >= 1
        BY <2>2, <3>1, <3>2, EmptySeq
      <3>4. 1 \in 1..Len(path) /\ SubSeq(path, 1, 1 - 1) = <<>>
        BY <3>1, <3>2, <3>3
      <3>5. path[1] \in DOMAIN config.modules[<<>>].calls
        BY <3>1, <3>4
      <3> QED BY <1>4, <1>6, <3>3, <3>4, <3>5 DEF Waits
    <2>3. ASSUME NEW path \in DOMAIN config.modules
          PROVE  Waits(path) \/ AtHand(path)
      BY <1>3, <1>4, <1>6, <2>2 DEF AtHand
    <2> QED BY <1>3, <2>1, <2>3 DEF QueriedSoFar
  <1> QED BY <1>8, <1>9, <1>10, <1>11, <1>12, <1>13 DEF IInv

(* The context of an element is the frame, but for `each`.                 *)
LEMMA ContextIsFrame ==
    ASSUME NEW f, NEW r, NEW order, NEW n,
           DOMAIN f = {"path", "providers", "mcount", "var", "each", "toCall"},
           NEW g, g = ElementContext(f, r, order, n)
    PROVE  /\ DOMAIN g = DOMAIN f /\ g.path = f.path /\ g.toCall = f.toCall
           /\ g.providers = f.providers /\ g.mcount = f.mcount
  BY DEF ElementContext

LEMMA TopReplaced ==
    ASSUME StackTypeOK, StackIsPath, config' = config, NEW f,
           stack' = [stack EXCEPT ![Len(stack)] = f],
           /\ DOMAIN f = DOMAIN Frame /\ f.path = Frame.path /\ f.toCall = Frame.toCall
           /\ f.providers = Frame.providers /\ f.mcount = Frame.mcount
    PROVE  SameFrames
  <1>1. PICK S : S = Range(stack) \cup {f}
    OBVIOUS
  <1>2. stack \in Seq(S)
    BY <1>1, SeqDef DEF StackIsPath
  <1>3. Len(stack) \in 1..Len(stack) /\ DOMAIN stack = 1..Len(stack)
    BY StackIs
  <1>4. PICK t : t = [stack EXCEPT ![Len(stack)] = f]
    OBVIOUS
  <1>5. t \in Seq(S) /\ Len(t) = Len(stack)
    BY <1>1, <1>2, <1>3, <1>4, ExceptSeq
  <1>6. t \in Seq(Range(t))
    BY <1>5, SeqOfRange
  <1>7. stack' \in Seq(Range(stack'))
    BY <1>4, <1>6 DEF Range
  <1>8. \A k \in 1..Len(stack) : t[k] = IF k = Len(stack) THEN f ELSE stack[k]
    BY <1>3, <1>4
  <1> QED BY <1>4, <1>5, <1>7, <1>8 DEF SameFrames, Frame

LEMMA ExpandResourceIInv ==
    ASSUME IInv, ExpandResource
    PROVE  IInv'
  <1>1. PICK r \in toExpand : \E order \in SetToSeqs(DOMAIN Elements(r)) :
            /\ stack' = [stack EXCEPT ![Len(stack)] = ElementContext(Frame, r, order, Len(order))]
            /\ DOMAIN cfgs' = {<<r.name, key>> : key \in Convertible(r)} \cup DOMAIN cfgs
            /\ rss' = IF ~Known(r, Frame) THEN rss
                      ELSE Completed([a \in AddressesOf(r, Frame) |->
                                        [type |-> r.type, cfg |-> <<r.name, KeyOf(r, a)>>]], rss)
            /\ toExpand' = toExpand \ {r}
    BY DEF ExpandResource, Completed
  <1>2. PICK order \in SetToSeqs(DOMAIN Elements(r)) :
            /\ stack' = [stack EXCEPT ![Len(stack)] = ElementContext(Frame, r, order, Len(order))]
            /\ DOMAIN cfgs' = {<<r.name, key>> : key \in Convertible(r)} \cup DOMAIN cfgs
    BY <1>1
  <1>3. /\ config' = config /\ pc' = pc /\ toResolve' = toResolve /\ queries' = queries
        /\ pc = "expand"
    BY DEF ExpandResource
  <1>4. /\ StackTypeOK /\ StackIsPath /\ FramesAreCalled /\ EnteredSoFar /\ EachOnce /\ QueriedSoFar
        /\ TypeOK /\ config \in Configs
    BY DEF IInv, TypeOK
  <1>5. /\ Frame.path \in DOMAIN config.modules /\ Len(stack) \in DOMAIN stack
        /\ ~Waits(Frame.path)
    BY <1>4, StackIs
  <1>6. r \in config.modules[Frame.path].resources
    BY <1>4 DEF TypeOK, Module
  <1>7. SameFrames
    <2>1. PICK f, g : f = Frame /\ g = ElementContext(f, r, order, Len(order))
      OBVIOUS
    <2>2. DOMAIN f = {"path", "providers", "mcount", "var", "each", "toCall"}
      BY <1>4, <1>5, <2>1 DEF StackTypeOK, Frame
    <2>3. /\ DOMAIN g = DOMAIN f /\ g.path = f.path /\ g.toCall = f.toCall
          /\ g.providers = f.providers /\ g.mcount = f.mcount
      BY <2>1, <2>2, ContextIsFrame
    <2> QED BY <1>2, <1>3, <1>4, <2>1, <2>3, TopReplaced
  <1>8. /\ StackTypeOK' /\ StackIsPath' /\ FramesAreCalled'
        /\ Frame'.path = Frame.path /\ Frame'.providers = Frame.providers
        /\ Frame'.mcount = Frame.mcount /\ Frame'.toCall = Frame.toCall
        /\ \A path : Waits(path)' <=> Waits(path)
    BY <1>4, <1>7, FramesKept
  <1>9. DOMAIN cfgs \subseteq DOMAIN cfgs' /\ \A key \in Convertible(r) : <<r.name, key>> \in DOMAIN cfgs'
    BY <1>2
  <1>10. ASSUME NEW a \in AddressesOf(r, Frame)
         PROVE  KeyOf(r, a) \in Convertible(r) /\ a.path = Frame.path
    BY <1>4, <1>5, <1>6, InstanceOf
  <1>11. /\ DOMAIN rss' = DOMAIN rss \cup (IF Known(r, Frame) THEN AddressesOf(r, Frame) ELSE {})
         /\ \A a \in DOMAIN rss' : \/ a \in AddressesOf(r, Frame) /\ rss'[a].cfg = <<r.name, KeyOf(r, a)>>
                                   \/ a \in DOMAIN rss /\ rss'[a] = rss[a]
    <2>1. CASE Known(r, Frame)
      <3>1. PICK new : new = [a \in AddressesOf(r, Frame) |->
                                [type |-> r.type, cfg |-> <<r.name, KeyOf(r, a)>>]]
        OBVIOUS
      <3>2. DOMAIN new = AddressesOf(r, Frame) /\ \A a \in DOMAIN new : new[a].cfg = <<r.name, KeyOf(r, a)>>
        BY <3>1
      <3>3. rss' = Completed(new, rss)
        BY <1>1, <2>1, <3>1
      <3> QED BY <2>1, <3>2, <3>3 DEF Completed
    <2>2. CASE ~Known(r, Frame)
      BY <1>1, <2>2
    <2> QED BY <2>1, <2>2
  <1>12. TypeOK'
    <2>1. toExpand' \subseteq Module'.resources
      BY <1>1, <1>3, <1>4, <1>8 DEF TypeOK, Module
    <2>2. ASSUME NEW a \in DOMAIN rss'
          PROVE  rss'[a].cfg \in DOMAIN cfgs' /\ a.path = Frame'.path
      BY <1>3, <1>4, <1>8, <1>9, <1>10, <1>11 DEF TypeOK
    <2>3. toResolve' \subseteq DOMAIN rss'
      BY <1>3, <1>4, <1>11 DEF TypeOK
    <2> QED BY <1>3, <1>4, <1>8, <2>1, <2>2, <2>3 DEF TypeOK
  <1>13. EnteredSoFar'
    <2>1. /\ \A s : AddressesOf(s, Frame)' = AddressesOf(s, Frame)
          /\ \A s : Known(s, Frame)' <=> Known(s, Frame)
      BY <1>8 DEF AddressesOf, Known
    <2>2. Module'.resources \ toExpand' = (Module.resources \ toExpand) \cup {r}
      BY <1>1, <1>3, <1>6, <1>8 DEF Module
    <2>3. Entered' = Entered \cup (IF Known(r, Frame) THEN AddressesOf(r, Frame) ELSE {})
      BY <2>1, <2>2 DEF Entered
    <2> QED BY <1>3, <1>4, <1>11, <2>3 DEF EnteredSoFar
  <1>14. EachOnce' /\ \A path : QueriedIn(path)' = QueriedIn(path)
    BY <1>3, <1>4, <1>8, QueriesKept
  <1>15. QueriedSoFar'
    <2>1. QueriedIn(Frame.path)' = QueriedIn(Frame.path)
      BY <1>3, <1>8 DEF QueriedIn
    <2>2. \A path : /\ Instances(path)' = Instances(path)
                    /\ ConstantCount(path)' <=> ConstantCount(path)
                    /\ AtHand(path)' <=> AtHand(path)
      BY <1>3, <1>8, SameConfig DEF AtHand
    <2> QED BY <1>3, <1>4, <1>8, <1>14, <2>1, <2>2 DEF QueriedSoFar
  <1> QED BY <1>8, <1>12, <1>13, <1>14, <1>15 DEF IInv

LEMMA ExpandedIInv ==
    ASSUME IInv, Expanded
    PROVE  IInv'
  <1>1. /\ pc = "expand" /\ toExpand = {} /\ pc' = "resolve" /\ toResolve' = DOMAIN rss
        /\ config' = config /\ stack' = stack /\ toExpand' = toExpand
        /\ cfgs' = cfgs /\ rss' = rss /\ queries' = queries
    BY DEF Expanded
  <1>2. /\ StackTypeOK /\ StackIsPath /\ FramesAreCalled /\ EnteredSoFar /\ EachOnce /\ QueriedSoFar /\ TypeOK
    BY DEF IInv, TypeOK
  <1>3. SameFrames
    BY <1>1, <1>2 DEF SameFrames, StackIsPath
  <1>4. /\ StackTypeOK' /\ StackIsPath' /\ FramesAreCalled'
        /\ \A path : Waits(path)' <=> Waits(path)
    BY <1>2, <1>3, FramesKept
  <1>5. TypeOK'
    BY <1>1, <1>2, <1>4 DEF TypeOK, Frame, Module
  <1>6. EnteredSoFar'
    <2>1. Entered' = Entered
      BY <1>1 DEF Entered, AddressesOf, Known, Frame, Module
    <2> QED BY <1>1, <1>2, <2>1 DEF EnteredSoFar
  <1>7. EachOnce' /\ \A path : QueriedIn(path)' = QueriedIn(path)
    BY <1>1, <1>2, <1>4, QueriesKept
  <1>8. QueriedSoFar'
    <2>1. QueriedIn(Frame.path)' = QueriedIn(Frame.path)
      BY <1>1 DEF QueriedIn, Frame
    <2>2. \A path : /\ Instances(path)' = Instances(path)
                    /\ ConstantCount(path)' <=> ConstantCount(path)
                    /\ AtHand(path)' <=> AtHand(path)
      BY <1>1, SameConfig DEF AtHand, Frame
    <2> QED BY <1>1, <1>2, <1>4, <1>7, <2>1, <2>2 DEF QueriedSoFar
  <1> QED BY <1>4, <1>5, <1>6, <1>7, <1>8 DEF IInv

LEMMA QueryResourceIInv ==
    ASSUME IInv, QueryResource
    PROVE  IInv'
  <1>1. /\ pc = "resolve" /\ pc' = pc /\ config' = config /\ stack' = stack
        /\ toExpand' = toExpand /\ rss' = rss
    BY DEF QueryResource
  <1>2. PICK a \in toResolve :
            /\ rss[a].type \in DOMAIN Frame.providers
            /\ \E own : /\ cfgs' = [cfgs EXCEPT ![rss[a].cfg] = own]
                        /\ queries' = queries (+) SetToBag(
                             {[address |-> a, type |-> rss[a].type, values |-> own,
                               provider |-> Frame.providers[rss[a].type]]})
            /\ toResolve' = toResolve \ {a}
    BY DEF QueryResource
  <1>3. PICK own : /\ cfgs' = [cfgs EXCEPT ![rss[a].cfg] = own]
                   /\ queries' = queries (+) SetToBag(
                        {[address |-> a, type |-> rss[a].type, values |-> own,
                          provider |-> Frame.providers[rss[a].type]]})
    BY <1>2
  <1>4. PICK new : new = [address |-> a, type |-> rss[a].type, values |-> own,
                          provider |-> Frame.providers[rss[a].type]]
    OBVIOUS
  <1>5. /\ StackTypeOK /\ StackIsPath /\ FramesAreCalled /\ EnteredSoFar /\ EachOnce /\ QueriedSoFar
        /\ TypeOK /\ config \in Configs
    BY DEF IInv, TypeOK
  <1>6. /\ Frame.path \in DOMAIN config.modules /\ Frame \in Range(stack) /\ Len(stack) \in DOMAIN stack
        /\ ~Waits(Frame.path)
    BY <1>5, StackIs
  <1>7. SameFrames
    BY <1>1, <1>5 DEF SameFrames, StackIsPath
  <1>8. /\ StackTypeOK' /\ StackIsPath' /\ FramesAreCalled'
        /\ \A path : Waits(path)' <=> Waits(path)
    BY <1>5, <1>7, FramesKept
  <1>9. a \in DOMAIN rss /\ a.path = Frame.path
    BY <1>1, <1>2, <1>5 DEF TypeOK
  <1>10. a \notin QueriedIn(Frame.path)
    BY <1>1, <1>2, <1>5 DEF QueriedSoFar
  <1>11. new.address = a /\ new.type = rss[a].type /\ new.provider = Frame.providers[rss[a].type]
    BY <1>4
  <1>12. /\ new \notin DOMAIN queries
         /\ \A q \in DOMAIN queries : q.address # a
    BY <1>9, <1>10, <1>11 DEF QueriedIn
  <1>13. /\ DOMAIN queries' = DOMAIN queries \cup {new} /\ queries'[new] = 1
         /\ \A q \in DOMAIN queries : queries'[q] = 1
    <2>1. queries' = queries (+) SetToBag({new})
      BY <1>3, <1>4
    <2>2. \A q \in DOMAIN queries : queries[q] = 1
      BY <1>5 DEF EachOnce
    <2> QED BY <1>12, <2>1, <2>2 DEF (+), SetToBag
  <1>14. TypeOK'
    <2>1. DOMAIN cfgs' = DOMAIN cfgs
      BY <1>3
    <2> QED BY <1>1, <1>2, <1>5, <1>8, <2>1 DEF TypeOK, Frame, Module
  <1>15. EnteredSoFar'
    <2>1. Entered' = Entered
      BY <1>1 DEF Entered, AddressesOf, Known, Frame, Module
    <2> QED BY <1>1, <1>5, <2>1 DEF EnteredSoFar
  <1>16. new.provider \in config.providers /\ HandedDown(new.address.path, new.type, new.provider)
    <2>1. PICK f : f = Frame
      OBVIOUS
    <2>2. FrameIsCalled(f) /\ new.type \in DOMAIN f.providers /\ new.provider = f.providers[new.type]
      BY <1>2, <1>5, <1>6, <1>11, <2>1 DEF FramesAreCalled
    <2>3. new.provider \in config.providers
      BY <1>5, <1>6, <2>1, <2>2 DEF StackTypeOK, Frame, Range
    <2>4. new.type \in ProviderNames /\ new.provider \in ProviderNames
      BY <2>2, <2>3 DEF FrameIsCalled, ProviderNames
    <2> QED BY <1>9, <1>11, <2>1, <2>2, <2>4 DEF FrameIsCalled
  <1>17. EachOnce'
    <2>1. IsFiniteSet(DOMAIN queries')
      BY <1>5, <1>13, FS_AddElement DEF EachOnce
    <2>2. ASSUME NEW q \in DOMAIN queries'
          PROVE  /\ queries'[q] = 1
                 /\ q.address.path \in DOMAIN config'.modules /\ ~Waits(q.address.path)'
                 /\ q.provider \in config'.providers /\ HandedDown(q.address.path, q.type, q.provider)'
      <3>1. HandedDown(q.address.path, q.type, q.provider)'
              <=> HandedDown(q.address.path, q.type, q.provider)
        BY <1>1, SameConfig
      <3>2. CASE q \in DOMAIN queries
        BY <1>1, <1>5, <1>8, <1>13, <3>1, <3>2 DEF EachOnce
      <3>3. CASE q = new
        <4>1. PICK path : path = Frame.path
          OBVIOUS
        <4>2. q.address.path = path /\ path \in DOMAIN config.modules /\ ~Waits(path)
          BY <1>6, <1>9, <1>11, <3>3, <4>1 DEF Waits
        <4>3. ~Waits(path)'
          BY <1>8, <4>2
        <4> QED BY <1>1, <1>13, <1>16, <3>1, <3>3, <4>2, <4>3
      <3> QED BY <1>13, <3>2, <3>3
    <2>3. ASSUME NEW q \in DOMAIN queries', NEW s \in DOMAIN queries', q.address = s.address
          PROVE  q = s
      BY <1>5, <1>11, <1>12, <1>13, <2>3 DEF EachOnce
    <2> QED BY <2>1, <2>2, <2>3 DEF EachOnce
  <1>18. \A path : QueriedIn(path)' = IF path = Frame.path THEN QueriedIn(path) \cup {a} ELSE QueriedIn(path)
    BY <1>9, <1>11, <1>13 DEF QueriedIn
  <1>19. QueriedSoFar'
    <2>1. PICK path : path = Frame.path
      OBVIOUS
    <2>2. Frame' = Frame
      BY <1>1 DEF Frame
    <2>3. QueriedIn(path)' = DOMAIN rss' \ toResolve'
      <3>1. QueriedIn(path) = DOMAIN rss \ toResolve
        BY <1>1, <1>5, <2>1 DEF QueriedSoFar, QueriedIn
      <3>2. QueriedIn(path)' = QueriedIn(path) \cup {a}
        BY <1>18, <2>1
      <3> QED BY <1>1, <1>2, <1>9, <3>1, <3>2
    <2>4. QueriedIn(Frame.path)' = DOMAIN rss' \ toResolve'
      BY <2>1, <2>2, <2>3 DEF QueriedIn
    <2>5. \A p : /\ Instances(p)' = Instances(p)
                 /\ ConstantCount(p)' <=> ConstantCount(p)
                 /\ AtHand(p)' <=> AtHand(p)
      BY <1>1, SameConfig DEF AtHand, Frame
    <2>6. ASSUME NEW p \in DOMAIN config'.modules, ConstantCount(p)', ~Waits(p)', ~AtHand(p)'
          PROVE  QueriedIn(p)' = Instances(p)'
      <3>1. p # Frame.path
        BY <1>1, <2>5, <2>6 DEF AtHand
      <3>2. QueriedIn(p) = Instances(p)
        BY <1>1, <1>5, <1>8, <2>5, <2>6 DEF QueriedSoFar
      <3> QED BY <1>18, <2>5, <3>1, <3>2
    <2> QED BY <1>1, <2>4, <2>6 DEF QueriedSoFar
  <1> QED BY <1>8, <1>14, <1>15, <1>17, <1>19 DEF IInv

(* Of the actions that change nothing but pc.                              *)
LEMMA OnlyPc ==
    ASSUME IInv, UNCHANGED <<config, stack, toExpand, cfgs, rss, toResolve, queries>>,
           \/ pc' = pc
           \/ /\ pc # "expand" /\ pc' \in {"children", "done", "failed", "panicked"}
              /\ pc' = "children" => toResolve = {}
    PROVE  /\ TypeOK' /\ StackIsPath' /\ FramesAreCalled' /\ EnteredSoFar' /\ EachOnce'
           /\ Frame' = Frame
           /\ \A path : /\ Waits(path)' <=> Waits(path)
                        /\ QueriedIn(path)' = QueriedIn(path)
                        /\ Instances(path)' = Instances(path)
                        /\ ConstantCount(path)' <=> ConstantCount(path)
  <1>1. /\ StackTypeOK /\ StackIsPath /\ FramesAreCalled /\ EnteredSoFar /\ EachOnce /\ TypeOK
    BY DEF IInv, TypeOK
  <1>2. SameFrames
    BY <1>1 DEF SameFrames, StackIsPath
  <1>3. /\ StackTypeOK' /\ StackIsPath' /\ FramesAreCalled'
        /\ \A path : Waits(path)' <=> Waits(path)
    BY <1>1, <1>2, FramesKept
  <1>4. TypeOK'
    BY <1>1, <1>3 DEF TypeOK, Frame, Module
  <1>5. EnteredSoFar'
    <2>1. Entered' = Entered
      BY DEF Entered, AddressesOf, Known, Frame, Module
    <2> QED BY <1>1, <2>1 DEF EnteredSoFar
  <1>6. EachOnce' /\ \A path : QueriedIn(path)' = QueriedIn(path)
    BY <1>1, <1>3, QueriesKept
  <1>7. \A path : /\ Instances(path)' = Instances(path)
                  /\ ConstantCount(path)' <=> ConstantCount(path)
    BY SameConfig
  <1>8. Frame' = Frame
    BY DEF Frame
  <1> QED BY <1>3, <1>4, <1>5, <1>6, <1>7, <1>8

LEMMA StutterIInv ==
    ASSUME IInv, UNCHANGED vars
    PROVE  IInv'
  <1>1. pc' = pc /\ rss' = rss /\ toResolve' = toResolve /\ config' = config
    BY DEF vars
  <1>2. /\ TypeOK' /\ StackIsPath' /\ FramesAreCalled' /\ EnteredSoFar' /\ EachOnce'
        /\ Frame' = Frame /\ Len(stack') = Len(stack)
        /\ \A path : /\ Waits(path)' <=> Waits(path)
                     /\ QueriedIn(path)' = QueriedIn(path)
                     /\ Instances(path)' = Instances(path)
                     /\ ConstantCount(path)' <=> ConstantCount(path)
    BY OnlyPc DEF vars
  <1>3. QueriedIn(Frame.path)' = QueriedIn(Frame.path)
    BY <1>2 DEF QueriedIn, vars
  <1>4. \A path : AtHand(path)' <=> AtHand(path)
    BY <1>1, <1>2 DEF AtHand
  <1> QED BY <1>1, <1>2, <1>3, <1>4 DEF IInv, QueriedSoFar

(* NilProvider, CallPanics, CallFails.                                     *)
LEMMA StopsIInv ==
    ASSUME IInv, UNCHANGED <<config, stack, toExpand, cfgs, rss, toResolve, queries>>,
           pc # "expand", pc' \in {"failed", "panicked"}
    PROVE  IInv'
  <1>1. TypeOK' /\ StackIsPath' /\ FramesAreCalled' /\ EnteredSoFar' /\ EachOnce'
    BY OnlyPc
  <1> QED BY <1>1 DEF IInv, QueriedSoFar

(* The resources with a provider are those whose key is handed down.       *)
LEMMA KnownIsProvided ==
    ASSUME TypeOK, StackIsPath, FramesAreCalled, NEW r
    PROVE  Known(r, Frame) <=> Provided(Frame.path, ProviderKey(r))
  <1>1. PICK f : f = Frame
    OBVIOUS
  <1>2. /\ DOMAIN f.providers \subseteq ProviderNames
        /\ \A key, name \in ProviderNames :
              (key \in DOMAIN f.providers /\ f.providers[key] = name) <=>
                 (name \in config.providers /\ HandedDown(f.path, key, name))
    BY <1>1, StackIs DEF FramesAreCalled, TypeOK, FrameIsCalled
  <1>3. Range(f.providers) \subseteq config.providers
    BY <1>1, StackIs DEF TypeOK, StackTypeOK, Frame
  <1>4. config.providers \subseteq ProviderNames
    BY DEF ProviderNames
  <1>5. PICK key : key = ProviderKey(r)
    OBVIOUS
  <1>6. ASSUME key \in DOMAIN f.providers PROVE Provided(f.path, key)
    <2>1. f.providers[key] \in config.providers
      BY <1>3, <1>6 DEF Range
    <2> QED BY <1>2, <1>4, <1>6, <2>1 DEF Provided
  <1>7. ASSUME Provided(f.path, key) PROVE key \in DOMAIN f.providers
    <2>1. PICK name \in config.providers : HandedDown(f.path, key, name)
      BY <1>7 DEF Provided
    <2>2. key \in ProviderNames
      <3>1. PICK n : n = Len(f.path)
        OBVIOUS
      <3>2. PICK names \in [0..n -> ProviderNames] : names[n] = key
        BY <2>1, <3>1 DEF HandedDown
      <3>3. Len(f.path) \in Nat
        <4>1. Len(f.path) = Len(stack) - 1 /\ Len(stack) \in Nat /\ Len(stack) > 0
          BY <1>1, StackIs DEF TypeOK
        <4> QED BY <4>1
      <3>4. n \in 0..n
        BY <3>1, <3>3
      <3> QED BY <3>2, <3>4
    <2> QED BY <1>2, <1>4, <2>1, <2>2
  <1>8. Known(r, f) <=> Provided(f.path, key)
    BY <1>5, <1>6, <1>7 DEF Known
  <1> QED BY <1>1, <1>5, <1>8 DEF Provided

LEMMA ModuleQueriedIInv ==
    ASSUME IInv, ModuleQueried
    PROVE  IInv'
  <1>1. /\ pc = "resolve" /\ toResolve = {} /\ pc' = "children"
        /\ UNCHANGED <<config, stack, toExpand, cfgs, rss, toResolve, queries>>
    BY DEF ModuleQueried
  <1>2. /\ TypeOK /\ StackTypeOK /\ StackIsPath /\ FramesAreCalled /\ EnteredSoFar /\ QueriedSoFar
        /\ config \in Configs
    BY DEF IInv, TypeOK
  <1>3. /\ TypeOK' /\ StackIsPath' /\ FramesAreCalled' /\ EnteredSoFar' /\ EachOnce'
        /\ \A path : /\ Waits(path)' <=> Waits(path)
                     /\ QueriedIn(path)' = QueriedIn(path)
                     /\ Instances(path)' = Instances(path)
                     /\ ConstantCount(path)' <=> ConstantCount(path)
    BY <1>1, OnlyPc
  <1>4. PICK path, f : path = Frame.path /\ f = Frame
    OBVIOUS
  <1>5. ASSUME ConstantCount(path) PROVE QueriedIn(path) = Instances(path)
    <2>1. path \in DOMAIN config.modules /\ FrameIsCalled(f) /\ f.path = path
      BY <1>2, <1>4, StackIs DEF FramesAreCalled
    <2>2. f.mcount = CountOf(path)
      BY <1>5, <2>1 DEF FrameIsCalled
    <2>3. \A r \in config.modules[path].resources : AddressesOf(r, f) = InstancesOf(path, r)
      BY <1>2, <2>1, <2>2, AddressesAreInstances
    <2>4. ASSUME NEW r PROVE Known(r, f) <=> Provided(path, ProviderKey(r))
      BY <1>2, <1>4, KnownIsProvided DEF Known, Provided
    <2>5. Module.resources \ toExpand = config.modules[path].resources
      BY <1>1, <1>2, <1>4 DEF EnteredSoFar, Module
    <2>6. Entered = UNION {AddressesOf(r, f) : r \in {r \in config.modules[path].resources : Known(r, f)}}
      BY <1>4, <2>5 DEF Entered
    <2>7. PICK rs : rs = {r \in config.modules[path].resources : Known(r, f)}
      OBVIOUS
    <2>8. Instances(path) = UNION {InstancesOf(path, r) : r \in rs}
      BY <2>4, <2>7 DEF Instances
    <2>9. Entered = Instances(path)
      BY <2>3, <2>6, <2>7, <2>8
    <2>10. QueriedIn(path) = DOMAIN rss
      BY <1>1, <1>2, <1>4 DEF QueriedSoFar, QueriedIn
    <2> QED BY <1>1, <1>2, <2>9, <2>10 DEF EnteredSoFar
  <1>6. QueriedSoFar'
    <2>1. ASSUME NEW p \in DOMAIN config.modules, ConstantCount(p), ~Waits(p)
          PROVE  QueriedIn(p) = Instances(p)
      <3>1. CASE p = path
        BY <1>5, <2>1, <3>1
      <3>2. CASE p # path
        BY <1>1, <1>2, <1>4, <2>1, <3>2 DEF QueriedSoFar, AtHand
      <3> QED BY <3>1, <3>2
    <2> QED BY <1>1, <1>3, <2>1 DEF QueriedSoFar
  <1> QED BY <1>3, <1>6 DEF IInv

LEMMA ModuleReturnsIInv ==
    ASSUME IInv, ModuleReturns
    PROVE  IInv'
  <1>1. /\ pc = "children" /\ Frame.toCall = {} /\ config' = config
        /\ UNCHANGED <<toExpand, cfgs, rss, toResolve, queries>>
    BY DEF ModuleReturns
  <1>2. /\ TypeOK /\ StackTypeOK /\ StackIsPath /\ FramesAreCalled /\ EnteredSoFar /\ QueriedSoFar
        /\ EachOnce /\ config \in Configs
    BY DEF IInv, TypeOK
  <1>3. /\ Len(stack) \in Nat /\ Len(stack) > 0 /\ DOMAIN stack = 1..Len(stack)
        /\ \A k \in 1..Len(stack) : stack[k] \in Range(stack)
        /\ Len(Frame.path) = Len(stack) - 1 /\ Frame.path \in DOMAIN config.modules
    BY <1>2, StackIs
  <1>4. CASE ~(Len(stack) > 1)
    <2>1. stack' = stack /\ pc' \in {"done", "failed"} /\ Len(stack) = 1
      <3>1. stack' = stack /\ pc' \in {"done", "failed"}
        BY <1>4 DEF ModuleReturns
      <3>2. PICK n : n = Len(stack)
        OBVIOUS
      <3>3. n \in Nat /\ n > 0 /\ ~(n > 1)
        BY <1>3, <1>4, <3>2
      <3> QED BY <3>1, <3>2, <3>3
    <2>2. /\ TypeOK' /\ StackIsPath' /\ FramesAreCalled' /\ EnteredSoFar' /\ EachOnce' /\ Frame' = Frame
          /\ \A path : /\ Waits(path)' <=> Waits(path)
                       /\ QueriedIn(path)' = QueriedIn(path)
                       /\ Instances(path)' = Instances(path)
                       /\ ConstantCount(path)' <=> ConstantCount(path)
      BY <1>1, <2>1, OnlyPc
    <2>3. \A path : ~AtHand(path)
      BY <1>1 DEF AtHand
    <2> QED BY <1>1, <1>2, <2>1, <2>2, <2>3 DEF IInv, QueriedSoFar
  <1>5. CASE Len(stack) > 1
    <2>1. stack' = Front(stack) /\ pc' = pc
      BY <1>5 DEF ModuleReturns
    <2>2. PICK n, s, t : n = Len(stack) - 1 /\ s = stack /\ t = SubSeq(s, 1, n)
      OBVIOUS
    <2>3. /\ n \in Nat /\ n \in 0..Len(s) /\ n \in 1..n /\ n < Len(s) /\ n \in 1..Len(s) /\ Len(s) = n + 1
          /\ 1..n \subseteq 1..Len(s) /\ 1..(n - 1) \subseteq 1..n
      <3>1. PICK m : m = Len(s)
        OBVIOUS
      <3>2. m \in Nat /\ m > 1 /\ n = m - 1
        BY <1>3, <1>5, <2>2, <3>1
      <3> QED BY <3>1, <3>2
    <2>4. t \in Seq(Range(s)) /\ Len(t) = n /\ \A k \in 1..n : t[k] = s[k]
      BY <1>2, <2>2, <2>3, Shortened DEF StackIsPath
    <2>5. t \in Seq(Range(t)) /\ DOMAIN t = 1..n
      BY <2>4, SeqOfRange, LenProperties
    <2>6. stack' = t
      BY <2>1, <2>2 DEF Front
    <2>7. /\ stack' \in Seq(Range(stack')) /\ Len(stack') = n /\ DOMAIN stack' = 1..n
          /\ \A k \in 1..n : stack'[k] = stack[k] /\ stack[k] \in Range(stack)
      <3>1. \A k \in 1..n : t[k] = stack[k] /\ stack[k] \in Range(stack)
        BY <1>3, <2>2, <2>3, <2>4
      <3>2. stack' \in Seq(Range(stack'))
        BY <2>5, <2>6 DEF Range
      <3> QED BY <2>4, <2>5, <2>6, <3>1, <3>2
    <2>8. Frame' = stack[n]
      BY <2>3, <2>7 DEF Frame
    <2>9. PICK path : path = Frame.path
      OBVIOUS
    <2>10. path \in DOMAIN config.modules /\ Len(path) = n /\ path \in Seq(Range(path))
      BY <1>2, <1>3, <2>2, <2>9, PathsAreClosed
    <2>11. /\ \A k \in 1..Len(stack) : stack[k].path = SubSeq(path, 1, k - 1)
           /\ \A k \in 1..(Len(stack) - 1) : path[k] \notin stack[k].toCall
      BY <1>2, <2>9 DEF StackIsPath
    <2>12. PICK parent : parent = SubSeq(path, 1, n - 1)
      OBVIOUS
    <2>13. Frame'.path = parent
      BY <2>3, <2>2, <2>8, <2>11, <2>12
    <2>14. /\ Len(parent) = n - 1
           /\ \A k \in 1..(n - 1) : parent[k] = path[k]
           /\ \A k \in 0..(n - 1) : SubSeq(parent, 1, k) = SubSeq(path, 1, k)
      BY <2>3, <2>10, <2>12, Shortened
    <2>15. StackIsPath'
      <3>1. Len(stack') = Len(parent) + 1
        BY <2>3, <2>7, <2>14
      <3>2. ASSUME NEW k \in 1..n PROVE stack'[k].path = SubSeq(parent, 1, k - 1)
        <4>1. k - 1 \in 0..(n - 1) /\ k \in 1..Len(stack)
          BY <2>2, <2>3
        <4> QED BY <2>7, <2>11, <2>14, <4>1
      <3>3. ASSUME NEW k \in 1..(n - 1) PROVE parent[k] \notin stack'[k].toCall
        <4>1. k \in 1..n /\ k \in 1..(Len(stack) - 1)
          BY <2>2, <2>3
        <4> QED BY <2>7, <2>11, <2>14, <4>1
      <3> QED BY <2>7, <2>13, <3>1, <3>2, <3>3 DEF StackIsPath
    <2>16. StackTypeOK'
      <3>1. \A k \in 1..n : k > 1 => k - 1 \in 1..n
        BY <2>3
      <3>2. stack' # <<>>
        BY <2>3, <2>7
      <3> QED BY <1>1, <1>2, <1>3, <2>2, <2>3, <2>7, <3>1, <3>2 DEF StackTypeOK
    <2>17. FramesAreCalled'
      <3>1. SUFFICES ASSUME NEW g \in Range(stack') PROVE FrameIsCalled(g)'
        BY DEF FramesAreCalled
      <3>2. FrameIsCalled(g)
        BY <1>2, <2>7, <3>1 DEF FramesAreCalled, Range
      <3> QED BY <1>1, <3>2, CalledAlike
    <2>18. ASSUME NEW p PROVE Waits(p)' <=> Waits(p)
      <3>1. \A k \in 1..Len(stack) : k \in 1..n \/ k = Len(stack)
        BY <2>2, <2>3
      <3>2. stack[Len(stack)].toCall = {}
        BY <1>1 DEF Frame
      <3>3. 1..n \subseteq 1..Len(stack)
        BY <2>2, <2>3
      <3> QED BY <2>7, <3>1, <3>2, <3>3 DEF Waits
    <2>19. TypeOK'
      BY <1>1, <1>2, <2>1, <2>16 DEF TypeOK, EnteredSoFar
    <2>20. EnteredSoFar'
      BY <1>1, <1>2, <2>1 DEF EnteredSoFar
    <2>21. EachOnce' /\ \A p : QueriedIn(p)' = QueriedIn(p)
      BY <1>1, <1>2, <2>18, QueriesKept
    <2>22. \A p : /\ Instances(p)' = Instances(p)
                  /\ ConstantCount(p)' <=> ConstantCount(p)
                  /\ ~AtHand(p)
      BY <1>1, SameConfig DEF AtHand
    <2>23. QueriedSoFar'
      BY <1>1, <1>2, <2>1, <2>18, <2>21, <2>22 DEF QueriedSoFar
    <2> QED BY <2>15, <2>17, <2>19, <2>20, <2>21, <2>23 DEF IInv
  <1> QED BY <1>4, <1>5

(* A call gives its child the frame the configuration says.                *)
LEMMA ChildIsCalled ==
    ASSUME config \in Configs, NEW f, FrameIsCalled(f), f.path \in DOMAIN config.modules,
           NEW c \in DOMAIN config.modules[f.path].calls, NEW var,
           NEW call, call = config.modules[f.path].calls[c],
           NEW g, g.path = Append(f.path, c), g.mcount = CallCount(call, var),
           g.providers = ChildProviders(call, f.providers)
    PROVE  FrameIsCalled(g) /\ Range(g.providers) \subseteq Range(f.providers)
  <1>1. PICK path, passed, inherited :
            path = f.path /\ passed = call.providers /\ inherited = f.providers
    OBVIOUS
  <1>2. /\ DOMAIN inherited \subseteq ProviderNames
        /\ \A key, name \in ProviderNames :
              (key \in DOMAIN inherited /\ inherited[key] = name) <=>
                 (name \in config.providers /\ HandedDown(path, key, name))
    BY <1>1 DEF FrameIsCalled
  <1>3. ASSUME NEW key, NEW name
        PROVE  HandedDown(g.path, key, name) <=>
                 IF DOMAIN passed = {} THEN HandedDown(path, key, name)
                 ELSE key \in DOMAIN passed /\ HandedDown(path, passed[key], name)
    <2>1. /\ path \in DOMAIN config.modules /\ c \in DOMAIN config.modules[path].calls
          /\ passed = config.modules[path].calls[c].providers /\ g.path = Append(path, c)
      BY <1>1
    <2>2. HandedDown(Append(path, c), key, name) <=>
            IF DOMAIN passed = {} THEN HandedDown(path, key, name)
            ELSE key \in DOMAIN passed /\ HandedDown(path, passed[key], name)
      BY <2>1, HandedDownNext
    <2> QED BY <2>1, <2>2
  <1>4. \A key \in DOMAIN passed : key \in ProviderNames /\ passed[key] \in ProviderNames
    BY <1>1, PassedNames
  <1>5. DOMAIN passed = {} => g.providers = inherited
    BY <1>1 DEF ChildProviders
  <1>6. DOMAIN passed # {} => g.providers = [k \in {k \in DOMAIN passed : passed[k] \in DOMAIN inherited} |->
                                          inherited[passed[k]]]
    BY <1>1 DEF ChildProviders
  <1>7. /\ DOMAIN g.providers \subseteq ProviderNames
        /\ \A key, name \in ProviderNames :
              (key \in DOMAIN g.providers /\ g.providers[key] = name) <=>
                 (name \in config.providers /\ HandedDown(g.path, key, name))
    <2>1. CASE DOMAIN passed = {}
      BY <1>2, <1>3, <1>5, <2>1
    <2>2. CASE DOMAIN passed # {}
      <3>1. PICK new : new = g.providers
        OBVIOUS
      <3>2. /\ DOMAIN new = {k \in DOMAIN passed : passed[k] \in DOMAIN inherited}
            /\ \A k \in DOMAIN new : new[k] = inherited[passed[k]]
        BY <1>6, <2>2, <3>1
      <3>3. ASSUME NEW key \in ProviderNames, NEW name \in ProviderNames
            PROVE  (key \in DOMAIN new /\ new[key] = name) <=>
                      (name \in config.providers /\ HandedDown(g.path, key, name))
        <4>1. HandedDown(g.path, key, name) <=>
                 key \in DOMAIN passed /\ HandedDown(path, passed[key], name)
          BY <1>3, <2>2
        <4>2. key \in DOMAIN passed =>
                 ((passed[key] \in DOMAIN inherited /\ inherited[passed[key]] = name) <=>
                     (name \in config.providers /\ HandedDown(path, passed[key], name)))
          BY <1>2, <1>4
        <4> QED BY ONLY <3>2, <4>1, <4>2
      <3>4. DOMAIN new \subseteq ProviderNames
        BY <1>4, <3>2
      <3> QED BY <3>1, <3>3, <3>4
    <2> QED BY <2>1, <2>2
  <1>8. Range(g.providers) \subseteq Range(f.providers)
    <2>1. CASE DOMAIN passed = {}
      BY <1>1, <1>5, <2>1
    <2>2. CASE DOMAIN passed # {}
      <3>1. ASSUME NEW k \in DOMAIN g.providers PROVE g.providers[k] \in Range(inherited)
        <4>1. g.providers[k] = inherited[passed[k]] /\ passed[k] \in DOMAIN inherited
          BY <1>6, <2>2, <3>1
        <4> QED BY <4>1 DEF Range
      <3> QED BY <1>1, <3>1 DEF Range
    <2> QED BY <2>1, <2>2
  <1>9. ASSUME ConstantCount(g.path) PROVE g.mcount = CountOf(g.path)
    <2>1. PICK n, child : n = Len(path) /\ child = Append(path, c)
      OBVIOUS
    <2>2. path \in Seq(Range(path))
      BY <1>1, PathsAreClosed
    <2>3. Len(child) = n + 1 /\ child # <<>>
      <3>1. Len(path) \in Nat /\ Len(Append(path, c)) = Len(path) + 1
        BY <2>2, Prolonged
      <3>2. n + 1 # 0
        BY <2>1, <3>1
      <3> QED BY <2>1, <3>1, <3>2, EmptySeq
    <2>4. CallOn(child, Len(child)) = call
      <3>1. CallOn(Append(path, c), Len(path) + 1) = call
        BY <1>1, CallsOnTheWay
      <3> QED BY <2>1, <2>3, <3>1
    <2>5. ConstantCount(child) /\ g.path = child
      BY <1>1, <1>9, <2>1
    <2>6. PICK e : e = Lookup(call.arguments, "count")
      OBVIOUS
    <2>7. CountGiven(child) = e
      BY <2>3, <2>4, <2>6 DEF CountGiven
    <2>8. e = Null \/ e.kind = "base"
      BY <2>5, <2>7 DEF ConstantCount
    <2>9. CountOf(child) = IF e \in {Null, Base(Null)} THEN 1 ELSE e.value
      BY <2>7 DEF CountOf
    <2>10. CallCount(call, var) = IF e \in {Null, Base(Null)} THEN 1 ELSE e.value
      <3>1. CASE e = Null
        BY <2>6, <3>1 DEF CallCount
      <3>2. CASE e # Null
        <4>1. e.kind = "base" /\ Given(e, var, Null) = e
          BY <2>8, <3>2 DEF Given
        <4> QED BY <2>6, <3>2, <4>1 DEF CallCount, NotNull
      <3> QED BY <3>1, <3>2
    <2> QED BY <2>5, <2>9, <2>10
  <1> QED BY <1>7, <1>8, <1>9 DEF FrameIsCalled

LEMMA CallChildIInv ==
    ASSUME IInv, CallChild
    PROVE  IInv'
  <1>1. /\ pc = "children" /\ pc' = "expand" /\ config' = config
        /\ DOMAIN rss' = {} /\ toResolve' = toResolve /\ queries' = queries
    BY DEF CallChild, EmptyFunction
  <1>2. PICK c \in Frame.toCall : \E var, args, each :
            /\ stack' = Append([stack EXCEPT ![Len(stack)] =
                                  [Frame EXCEPT !.var = args, !.each = each, !.toCall = @ \ {c}]],
                  [path |-> Append(Frame.path, c), mcount |-> CallCount(Module.calls[c], var),
                   providers |-> ChildProviders(Module.calls[c], Frame.providers),
                   var |-> var, each |-> Null,
                   toCall |-> DOMAIN config.modules[Append(Frame.path, c)].calls])
            /\ toExpand' = config.modules[Append(Frame.path, c)].resources
    BY DEF CallChild
  <1>3. PICK path, child : path = Frame.path /\ child = Append(path, c)
    OBVIOUS
  <1>4. PICK var, args, each :
            stack' = Append([stack EXCEPT ![Len(stack)] =
                               [Frame EXCEPT !.var = args, !.each = each, !.toCall = @ \ {c}]],
                  [path |-> child, mcount |-> CallCount(Module.calls[c], var),
                   providers |-> ChildProviders(Module.calls[c], Frame.providers),
                   var |-> var, each |-> Null, toCall |-> DOMAIN config.modules[child].calls])
    BY <1>2, <1>3
  <1>5. PICK top, new :
            /\ top = [Frame EXCEPT !.var = args, !.each = each, !.toCall = @ \ {c}]
            /\ new = [path |-> child, mcount |-> CallCount(Module.calls[c], var),
                      providers |-> ChildProviders(Module.calls[c], Frame.providers),
                      var |-> var, each |-> Null, toCall |-> DOMAIN config.modules[child].calls]
    OBVIOUS
  <1>6. /\ TypeOK /\ StackTypeOK /\ StackIsPath /\ FramesAreCalled /\ EnteredSoFar /\ QueriedSoFar
        /\ EachOnce /\ config \in Configs
    BY DEF IInv, TypeOK
  <1>7. PICK n : n = Len(stack)
    OBVIOUS
  <1>8. /\ n \in Nat /\ n > 0 /\ DOMAIN stack = 1..n /\ n \in 1..n
        /\ \A k \in 1..n : stack[k] \in Range(stack)
        /\ Len(path) = n - 1 /\ path \in DOMAIN config.modules
        /\ stack[n] = Frame /\ stack[n].path = path /\ Frame \in Range(stack)
    BY <1>3, <1>6, <1>7, StackIs DEF Frame
  <1>9. /\ DOMAIN top = {"path", "providers", "mcount", "var", "each", "toCall"}
        /\ top.path = path /\ top.toCall = stack[n].toCall \ {c}
        /\ top.providers = stack[n].providers /\ top.mcount = stack[n].mcount
    <2>1. DOMAIN Frame = {"path", "providers", "mcount", "var", "each", "toCall"}
      BY <1>6, <1>8 DEF StackTypeOK
    <2> QED BY <1>5, <1>8, <2>1
  <1>10. /\ DOMAIN new = {"path", "providers", "mcount", "var", "each", "toCall"}
         /\ new.path = child /\ new.toCall = DOMAIN config.modules[child].calls
         /\ new.providers = ChildProviders(Module.calls[c], Frame.providers)
         /\ new.mcount = CallCount(Module.calls[c], var)
    BY <1>5
  <1>11. /\ stack' \in Seq(Range(stack')) /\ Len(stack') = n + 1 /\ DOMAIN stack' = 1..(n + 1)
         /\ \A k \in 1..n : stack'[k] = IF k = n THEN top ELSE stack[k]
         /\ stack'[n + 1] = new /\ stack' # <<>>
    <2>1. PICK S : S = Range(stack) \cup {top, new}
      OBVIOUS
    <2>2. stack \in Seq(S)
      BY <1>6, <2>1, SeqDef DEF StackIsPath
    <2>3. PICK s, t : s = [stack EXCEPT ![n] = top] /\ t = Append(s, new)
      OBVIOUS
    <2>4. /\ s \in Seq(S) /\ Len(s) = n
          /\ \A k \in 1..n : s[k] = IF k = n THEN top ELSE stack[k]
      BY <1>7, <1>8, <2>1, <2>2, <2>3, ExceptSeq
    <2>5. /\ t \in Seq(S) /\ t # <<>> /\ Len(t) = n + 1
          /\ \A k \in 1..n : t[k] = s[k]
          /\ t[n + 1] = new
      BY <2>1, <2>3, <2>4, AppendProperties
    <2>6. t \in Seq(Range(t)) /\ DOMAIN t = 1..(n + 1)
      BY <2>5, SeqOfRange, LenProperties
    <2>7. stack' = t
      BY <1>4, <1>5, <1>7, <2>3
    <2> QED BY <2>4, <2>5, <2>6, <2>7 DEF Range
  <1>12. /\ c \in stack[n].toCall /\ c \in DOMAIN config.modules[path].calls
         /\ child \in DOMAIN config.modules
    <2>1. c \in stack[n].toCall /\ c \in DOMAIN config.modules[path].calls
      BY <1>2, <1>6, <1>8 DEF StackTypeOK
    <2> QED BY <1>3, <1>6, <1>8, <2>1, PathsAreClosed
  <1>13. /\ Len(child) = n
         /\ \A k \in 1..(n - 1) : child[k] = path[k]
         /\ child[n] = c
         /\ SubSeq(path, 1, n - 1) = path
         /\ \A k \in 0..(n - 1) : SubSeq(child, 1, k) = SubSeq(path, 1, k)
         /\ SubSeq(child, 1, n) = child
    <2>1. path \in Seq(Range(path)) /\ child \in Seq(Range(child))
      BY <1>6, <1>8, <1>12, PathsAreClosed
    <2>2. n - 1 + 1 = n
      BY <1>8
    <2>3. /\ Len(child) = n - 1 + 1
          /\ \A k \in 1..(n - 1) : child[k] = path[k]
          /\ child[n - 1 + 1] = c
          /\ SubSeq(path, 1, n - 1) = path
          /\ \A k \in 0..(n - 1) : SubSeq(child, 1, k) = SubSeq(path, 1, k)
      <3>1. /\ Len(Append(path, c)) = Len(path) + 1
            /\ \A k \in 1..Len(path) : Append(path, c)[k] = path[k]
            /\ Append(path, c)[Len(path) + 1] = c
            /\ SubSeq(path, 1, Len(path)) = path
            /\ \A k \in 0..Len(path) : SubSeq(Append(path, c), 1, k) = SubSeq(path, 1, k)
        BY <2>1, Prolonged
      <3> QED BY ONLY <1>3, <1>8, <3>1
    <2>4. SubSeq(child, 1, Len(child)) = child
      BY <2>1, Prolonged
    <2> QED BY <2>2, <2>3, <2>4
  <1>14. Frame' = new /\ Frame'.path = child /\ Module' = config.modules[child]
    BY <1>1, <1>10, <1>11 DEF Frame, Module
  <1>15. \A k \in 1..n : /\ stack[k].path = SubSeq(path, 1, k - 1)
                         /\ k # n => path[k] \notin stack[k].toCall
    <2>1. \A k \in 1..n : k # n => k \in 1..(n - 1)
      BY <1>8
    <2> QED BY <1>3, <1>6, <1>7, <2>1 DEF StackIsPath
  <1>16. StackIsPath'
    <2>1. Len(stack') = Len(child) + 1
      BY <1>11, <1>13
    <2>2. ASSUME NEW k \in 1..(n + 1) PROVE stack'[k].path = SubSeq(child, 1, k - 1)
      <3>1. CASE k = n + 1
        <4>1. k - 1 = n
          BY <1>8, <3>1
        <4> QED BY <1>10, <1>11, <1>13, <3>1, <4>1
      <3>2. CASE k \in 1..n
        <4>1. k - 1 \in 0..(n - 1)
          BY <1>8, <3>2
        <4>2. stack'[k].path = stack[k].path
          BY <1>8, <1>9, <1>11, <3>2
        <4> QED BY <1>13, <1>15, <3>2, <4>1, <4>2
      <3> QED BY <1>8, <3>1, <3>2
    <2>3. ASSUME NEW k \in 1..n PROVE child[k] \notin stack'[k].toCall
      <3>1. CASE k = n
        BY <1>9, <1>11, <1>13, <3>1
      <3>2. CASE k # n
        <4>1. k \in 1..(n - 1)
          BY <1>8, <3>2
        <4> QED BY <1>11, <1>13, <1>15, <3>2, <4>1
      <3> QED BY <3>1, <3>2
    <2>4. /\ Len(stack') = Len(Frame'.path) + 1
          /\ \A k \in 1..Len(stack') : stack'[k].path = SubSeq(Frame'.path, 1, k - 1)
      BY <1>11, <1>14, <2>1, <2>2
    <2>5. \A k \in 1..(Len(stack') - 1) : Frame'.path[k] \notin stack'[k].toCall
      <3>1. PICK m : m = Len(stack')
        OBVIOUS
      <3>2. m - 1 = n
        BY <1>8, <1>11, <3>1
      <3>3. \A k \in 1..(m - 1) : Frame'.path[k] \notin stack'[k].toCall
        BY <1>14, <2>3, <3>2
      <3> QED BY <3>1, <3>3
    <2> QED BY <1>11, <2>4, <2>5 DEF StackIsPath
  <1>17. FrameIsCalled(new) /\ Range(new.providers) \subseteq config.providers
    <2>1. PICK f, call : f = Frame /\ call = Module.calls[c]
      OBVIOUS
    <2>2. FrameIsCalled(f) /\ f.path = path /\ call = config.modules[f.path].calls[c]
      BY <1>6, <1>8, <2>1 DEF FramesAreCalled, Module
    <2>3. FrameIsCalled(new) /\ Range(new.providers) \subseteq Range(f.providers)
      <3>1. /\ f.path \in DOMAIN config.modules /\ c \in DOMAIN config.modules[f.path].calls
            /\ new.path = Append(f.path, c) /\ new.mcount = CallCount(call, var)
            /\ new.providers = ChildProviders(call, f.providers)
        BY <1>3, <1>8, <1>10, <1>12, <2>1, <2>2
      <3> QED BY <1>6, <2>2, <3>1, ChildIsCalled
    <2> QED BY <1>6, <1>8, <2>1, <2>3 DEF StackTypeOK
  <1>18. FramesAreCalled'
    <2>1. SUFFICES ASSUME NEW g \in Range(stack') PROVE FrameIsCalled(g)'
      BY DEF FramesAreCalled
    <2>2. PICK k \in 1..(n + 1) : g = stack'[k]
      BY <1>11, <2>1 DEF Range
    <2>3. CASE k = n + 1
      BY <1>1, <1>11, <1>17, <2>2, <2>3, CalledAlike
    <2>4. CASE k \in 1..n
      <3>1. PICK f : f = stack[k]
        OBVIOUS
      <3>2. /\ FrameIsCalled(f)
            /\ g.path = f.path /\ g.providers = f.providers /\ g.mcount = f.mcount
        BY <1>6, <1>8, <1>9, <1>11, <2>2, <2>4, <3>1 DEF FramesAreCalled
      <3> QED BY <1>1, <3>2, CalledAlike
    <2> QED BY <1>8, <2>2, <2>3, <2>4
  <1>19. StackTypeOK'
    <2>1. ASSUME NEW k \in 1..(n + 1)
          PROVE  /\ DOMAIN stack'[k] = {"path", "providers", "mcount", "var", "each", "toCall"}
                 /\ stack'[k].path \in DOMAIN config.modules
                 /\ Range(stack'[k].providers) \subseteq config.providers
                 /\ stack'[k].toCall \subseteq DOMAIN config.modules[stack'[k].path].calls
                 /\ k > 1 => stack'[k].path = Append(stack'[k - 1].path, Last(stack'[k].path))
      <3>1. CASE k = n + 1
        <4>1. k - 1 = n
          BY <1>8, <3>1
        <4>2. stack'[k] = new /\ stack'[k - 1].path = path
          BY <1>8, <1>9, <1>11, <3>1, <4>1
        <4>3. Last(child) = c
          BY <1>13 DEF Last
        <4> QED BY <1>3, <1>10, <1>12, <1>17, <4>2, <4>3
      <3>2. CASE k \in 1..n
        <4>1. /\ DOMAIN stack'[k] = DOMAIN stack[k] /\ stack'[k].path = stack[k].path
              /\ stack'[k].providers = stack[k].providers
              /\ stack'[k].toCall \subseteq stack[k].toCall
          BY <1>6, <1>8, <1>9, <1>11, <3>2 DEF StackTypeOK
        <4>2. k > 1 => k - 1 \in 1..n /\ k - 1 # n
          BY <1>8, <3>2
        <4>3. k > 1 => stack'[k - 1].path = stack[k - 1].path
          BY <1>11, <4>2
        <4> QED BY <1>6, <1>8, <3>2, <4>1, <4>3 DEF StackTypeOK
      <3> QED BY <1>8, <3>1, <3>2
    <2> QED BY <1>1, <1>11, <2>1 DEF StackTypeOK
  <1>20. TypeOK'
    <2>1. toResolve = {}
      BY <1>1, <1>6 DEF EnteredSoFar
    <2> QED BY <1>1, <1>2, <1>3, <1>6, <1>14, <1>19, <2>1 DEF TypeOK
  <1>21. EnteredSoFar'
    <2>1. Module'.resources \ toExpand' = {}
      BY <1>2, <1>3, <1>14
    <2>2. Entered' = {}
      BY <2>1 DEF Entered
    <2> QED BY <1>1, <2>2 DEF EnteredSoFar
  <1>22. ASSUME NEW p \in DOMAIN config.modules
         PROVE  Waits(p)' <=> Waits(p) /\ p # child
    <2>1. /\ p \in Seq(Range(p)) /\ Len(p) \in Nat
          /\ \A k \in 1..Len(p) : p[k] \in DOMAIN config.modules[SubSeq(p, 1, k - 1)].calls
      BY <1>6, PathsAreClosed, LenProperties
    <2>2. ASSUME Waits(p)' PROVE Waits(p) /\ p # child
      <3>1. PICK k \in 1..(n + 1) : /\ Len(p) >= k /\ SubSeq(p, 1, k - 1) = stack'[k].path
                                    /\ p[k] \in stack'[k].toCall
        BY <1>11, <2>2 DEF Waits
      <3>2. CASE k = n + 1
        <4>1. k - 1 = n /\ Len(p) >= n + 1
          BY <1>8, <3>1, <3>2
        <4>2. SubSeq(p, 1, n) = child
          BY <1>10, <1>11, <3>1, <3>2, <4>1
        <4>3. p # child
          BY <1>8, <1>13, <2>1, <4>1
        <4>4. n \in 0..Len(p) /\ n - 1 \in 0..n /\ n \in 1..n
          BY <1>8, <2>1, <4>1
        <4>5. child[n] = p[n] /\ SubSeq(child, 1, n - 1) = SubSeq(p, 1, n - 1)
          BY <2>1, <4>2, <4>4, Shortened
        <4>6. p[n] \in stack[n].toCall /\ SubSeq(p, 1, n - 1) = stack[n].path
          <5>1. n - 1 \in 0..(n - 1)
            BY <1>8
          <5> QED BY <1>8, <1>12, <1>13, <4>5, <5>1
        <4>7. Len(p) >= n
          BY <1>8, <2>1, <4>1
        <4> QED BY <1>7, <1>8, <4>3, <4>6, <4>7 DEF Waits
      <3>3. CASE k = n
        <4>1. p[k] \in stack[k].toCall /\ p[k] # c /\ SubSeq(p, 1, k - 1) = stack[k].path
          BY <1>8, <1>9, <1>11, <3>1, <3>3
        <4> QED BY <1>7, <1>8, <1>13, <3>1, <3>3, <4>1 DEF Waits
      <3>4. CASE k \in 1..n /\ k # n
        <4>1. p[k] \in stack[k].toCall /\ SubSeq(p, 1, k - 1) = stack[k].path
          BY <1>11, <3>1, <3>4
        <4>2. k \in 1..(n - 1)
          BY <1>8, <3>4
        <4>3. child[k] \notin stack[k].toCall
          BY <1>13, <1>15, <3>4, <4>2
        <4> QED BY <1>7, <3>1, <3>4, <4>1, <4>3 DEF Waits
      <3> QED BY <1>8, <3>1, <3>2, <3>3, <3>4
    <2>3. ASSUME Waits(p), p # child PROVE Waits(p)'
      <3>1. PICK k \in 1..n : /\ Len(p) >= k /\ SubSeq(p, 1, k - 1) = stack[k].path
                              /\ p[k] \in stack[k].toCall
        BY <1>7, <2>3 DEF Waits
      <3>2. k \in 1..Len(stack') /\ n + 1 \in 1..Len(stack')
        BY <1>8, <1>11, <3>1
      <3>3. CASE k # n
        BY <1>11, <3>1, <3>2, <3>3 DEF Waits
      <3>4. CASE k = n /\ p[n] # c
        <4>1. p[k] \in stack'[k].toCall /\ SubSeq(p, 1, k - 1) = stack'[k].path
          BY <1>8, <1>9, <1>11, <3>1, <3>4
        <4> QED BY <3>1, <3>2, <4>1 DEF Waits
      <3>5. CASE k = n /\ p[n] = c
        <4>1. n \in 0..Len(p) /\ n - 1 \in 0..Len(p) /\ n - 1 < Len(p) /\ n - 1 + 1 = n
          BY <1>8, <2>1, <3>1, <3>5
        <4>2. Append(SubSeq(p, 1, n - 1), p[n - 1 + 1]) = SubSeq(p, 1, n - 1 + 1)
          BY <2>1, <4>1, Shortened
        <4>3. SubSeq(p, 1, n) = child
          BY <1>3, <1>8, <3>1, <3>5, <4>1, <4>2
        <4>4. SubSeq(p, 1, Len(p)) = p
          BY <2>1, Prolonged
        <4>5. Len(p) # n
          BY <2>3, <4>3, <4>4
        <4>6. Len(p) >= n + 1 /\ n + 1 \in 1..Len(p) /\ n + 1 - 1 = n
          BY <1>8, <2>1, <4>1, <4>5
        <4>7. PICK m : m = n + 1
          OBVIOUS
        <4>8. /\ m \in 1..Len(p) /\ Len(p) >= m /\ m - 1 = n /\ m \in 1..Len(stack')
              /\ stack'[m] = new
          <5>1. m \in 1..Len(p) /\ m - 1 = n /\ m \in 1..Len(stack') /\ stack'[m] = new
            <6>1. stack'[m] = new
              BY <1>11, <4>7
            <6>2. m \in 1..Len(p) /\ m \in 1..Len(stack')
              BY <3>2, <4>6, <4>7
            <6>3. m - 1 = n
              BY <1>8, <4>7
            <6> QED BY <6>1, <6>2, <6>3
          <5>2. Len(p) >= m
            BY <4>6, <4>7
          <5> QED BY <5>1, <5>2
        <4>9. p[m] \in DOMAIN config.modules[SubSeq(p, 1, m - 1)].calls
          BY <2>1, <4>8
        <4>10. SubSeq(p, 1, m - 1) = stack'[m].path /\ p[m] \in stack'[m].toCall
          BY <1>10, <4>3, <4>8, <4>9
        <4> QED BY <4>8, <4>10 DEF Waits
      <3> QED BY <3>3, <3>4, <3>5
    <2> QED BY <2>2, <2>3
  <1>23. EachOnce' /\ \A p : QueriedIn(p)' = QueriedIn(p)
    BY <1>1, <1>6, <1>22, QueriesKept
  <1>24. QueriedSoFar'
    <2>1. Waits(child)
      <3>1. Len(child) >= n /\ SubSeq(child, 1, n - 1) = path
        <4>1. n - 1 \in 0..(n - 1)
          BY <1>8
        <4> QED BY <1>8, <1>13, <4>1
      <3> QED BY <1>7, <1>8, <1>12, <1>13, <3>1 DEF Waits
    <2>2. QueriedIn(child) = {}
      BY <1>6, <2>1 DEF EachOnce, QueriedIn
    <2>3. QueriedIn(Frame.path)' = {}
      <3>1. QueriedIn(child)' = {}
        BY <1>23, <2>2
      <3> QED BY <1>14, <3>1 DEF QueriedIn
    <2>4. ASSUME NEW p \in DOMAIN config.modules, ConstantCount(p)', ~Waits(p)', ~AtHand(p)'
          PROVE  QueriedIn(p)' = Instances(p)'
      <3>1. p # child /\ ~Waits(p)
        BY <1>1, <1>14, <1>22, <2>4 DEF AtHand
      <3>2. Instances(p)' = Instances(p) /\ (ConstantCount(p)' <=> ConstantCount(p))
        BY <1>1, SameConfig
      <3>3. QueriedIn(p) = Instances(p)
        BY <1>1, <1>6, <2>4, <3>1, <3>2 DEF QueriedSoFar, AtHand
      <3> QED BY <1>23, <3>2, <3>3
    <2> QED BY <1>1, <2>3, <2>4 DEF QueriedSoFar
  <1> QED BY <1>16, <1>18, <1>20, <1>21, <1>23, <1>24 DEF IInv

LEMMA NextIInv ==
    ASSUME IInv, [Next]_vars
    PROVE  IInv'
  <1>1. CASE ExpandResource
    BY <1>1, ExpandResourceIInv
  <1>2. CASE Expanded
    BY <1>2, ExpandedIInv
  <1>3. CASE QueryResource
    BY <1>3, QueryResourceIInv
  <1>4. CASE NilProvider
    BY <1>4, StopsIInv DEF NilProvider
  <1>5. CASE ModuleQueried
    BY <1>5, ModuleQueriedIInv
  <1>6. CASE CallChild
    BY <1>6, CallChildIInv
  <1>7. CASE CallFails
    BY <1>7, StopsIInv DEF CallFails
  <1>8. CASE ModuleReturns
    BY <1>8, ModuleReturnsIInv
  <1>9. CASE Finished
    BY <1>9, StutterIInv DEF Finished
  <1>10. CASE CallPanics
    BY <1>10, StopsIInv DEF CallPanics
  <1>11. CASE UNCHANGED vars
    BY <1>11, StutterIInv
  <1> QED BY <1>1, <1>2, <1>3, <1>4, <1>5, <1>6, <1>7, <1>8, <1>9, <1>10, <1>11 DEF Next

LEMMA AlwaysIInv == Spec => []IInv
  <1>1. Init => IInv
    BY InitIInv
  <1>2. IInv /\ [Next]_vars => IInv'
    BY NextIInv
  <1> QED BY <1>1, <1>2, PTL DEF Spec

-----------------------------------------------------------------------------
(* Induction, by the least number of a set. *)
LEMMA Least ==
    ASSUME NEW T, T \subseteq Nat, T # {}
    PROVE  \E x \in T : x \in Nat /\ \A y \in T : x <= y
  <1>1. PICK x \in T : \A y \in T : ~(<<y, x>> \in OpToRel(<, Nat))
    BY WFMin, NatLessThanWellFounded
  <1>2. \A y \in T : ~(y < x)
    BY <1>1 DEF OpToRel
  <1> QED BY <1>2

(* What holds of 0, and of a number if it holds of the one before.         *)
LEMMA Inductively ==
    ASSUME NEW T, NEW n \in Nat, 0 \in T, \A k \in 1..n : k - 1 \in T => k \in T
    PROVE  \A k \in 0..n : k \in T
  <1> DEFINE Bad == {k \in 0..n : k \notin T}
  <1>1. SUFFICES ASSUME Bad # {} PROVE FALSE
    OBVIOUS
  <1>2. PICK k \in Bad : k \in Nat /\ \A y \in Bad : k <= y
    <2>1. Bad \subseteq Nat
      OBVIOUS
    <2> QED BY ONLY <1>1, <2>1, Least
  <1>3. k # 0 /\ k \in 0..n /\ k \notin T
    OBVIOUS
  <1>4. k \in 1..n /\ k - 1 \in 0..n /\ ~(k <= k - 1)
    BY <1>3
  <1>5. k - 1 \in T
    BY <1>2, <1>4
  <1> QED BY <1>3, <1>4, <1>5

-----------------------------------------------------------------------------
(* The items of a list of one. *)
LEMMA PresentOne ==
    ASSUME NEW items, Len(items) = 1, items[1] # Null
    PROVE  Present(items) = <<items[1]>>
  <1> DEFINE P(g) == [n \in 0..Len(items) |->
                        IF n = 0 THEN <<>>
                        ELSE IF items[n] = Null THEN g[n - 1] ELSE Append(g[n - 1], items[n])]
             present == CHOOSE g : g = P(g)
  <1>1. PICK g : g = [n \in 0..1 |-> IF n = 0 THEN <<>> ELSE Append(<<>>, items[1])]
    OBVIOUS
  <1>2. g = P(g)
    <2>1. 0..Len(items) = 0..1 /\ \A n \in 0..1 : n = 0 \/ n = 1
      OBVIOUS
    <2>2. g[0] = <<>> /\ g[1 - 1] = <<>>
      BY <1>1
    <2>3. ASSUME NEW n \in 0..1
          PROVE  g[n] = IF n = 0 THEN <<>>
                        ELSE IF items[n] = Null THEN g[n - 1] ELSE Append(g[n - 1], items[n])
      BY <1>1, <2>1, <2>2
    <2>4. g = [n \in 0..1 |-> g[n]]
      BY <1>1
    <2> QED BY <2>1, <2>3, <2>4
  <1>3. present = P(present)
    BY <1>2
  <1>4. Present(items) = present[1]
    BY DEF Present
  <1>5. 0 \in 0..Len(items) /\ 1 \in 0..Len(items) /\ 1 - 1 = 0 /\ 1 # 0
    OBVIOUS
  <1>6. present[0] = <<>> /\ present[1] = Append(present[0], items[1])
    <2> HIDE DEF present
    <2>1. /\ present[0] = P(present)[0] /\ present[1] = P(present)[1]
      BY <1>3
    <2> QED BY <1>5, <2>1
  <1> HIDE DEF present, P
  <1>7. Append(<<>>, items[1]) = <<items[1]>>
    OBVIOUS
  <1> QED BY <1>4, <1>6, <1>7

-----------------------------------------------------------------------------
(* The loop over the arguments of a call: `g` has its states. *)
Started(f) == [var |-> f.var, each |-> f.each, args |-> EmptyFunction, panics |-> FALSE]

Looping(g, arguments, order, f, n) ==
    /\ g[0] = Started(f)
    /\ \A k \in 1..n : g[k] = Argument(arguments, g[k - 1], order[k])

LEMMA LoopExists ==
    ASSUME NEW arguments, NEW order, NEW f, NEW n \in Nat
    PROVE  \E g : g = [k \in 0..n |-> g[k]] /\ Looping(g, arguments, order, f, n)
  <1> DEFINE Good(m) == \E g : g = [k \in 0..m |-> g[k]] /\ Looping(g, arguments, order, f, m)
             T == {m \in Nat : Good(m)}
  <1>1. 0 \in T
    <2>1. PICK g : g = [k \in 0..0 |-> Started(f)]
      OBVIOUS
    <2>2. g = [k \in 0..0 |-> g[k]] /\ g[0] = Started(f) /\ 1..0 = {}
      BY <2>1
    <2>3. Looping(g, arguments, order, f, 0)
      BY <2>2 DEF Looping
    <2> QED BY <2>2, <2>3
  <1>2. ASSUME NEW m \in 1..n, m - 1 \in T PROVE m \in T
    <2>1. PICK g : Looping(g, arguments, order, f, m - 1)
      BY <1>2
    <2>2. PICK h : h = [k \in 0..m |-> IF k = m THEN Argument(arguments, g[m - 1], order[m])
                                       ELSE g[k]]
      OBVIOUS
    <2>3. /\ h = [k \in 0..m |-> h[k]]
          /\ \A k \in 0..(m - 1) : h[k] = g[k]
          /\ h[m] = Argument(arguments, g[m - 1], order[m])
      BY <2>2
    <2>4. h[0] = Started(f)
      <3>1. 0 \in 0..(m - 1)
        OBVIOUS
      <3> QED BY <2>1, <2>3, <3>1 DEF Looping
    <2>5. ASSUME NEW k \in 1..m PROVE h[k] = Argument(arguments, h[k - 1], order[k])
      <3>1. k - 1 \in 0..(m - 1) /\ (k = m \/ (k \in 0..(m - 1) /\ k \in 1..(m - 1)))
        OBVIOUS
      <3> QED BY <2>1, <2>3, <3>1 DEF Looping
    <2>6. Looping(h, arguments, order, f, m)
      BY <2>4, <2>5 DEF Looping
    <2> QED BY <2>3, <2>6
  <1> HIDE DEF T
  <1>3. n \in 0..n /\ \A k \in 0..n : k \in T
    BY <1>1, <1>2, Inductively
  <1> QED BY <1>3 DEF T

LEMMA ArgumentsLoop ==
    ASSUME NEW arguments, NEW order, NEW f, NEW n \in Nat, Len(order) = n
    PROVE  \E g : Looping(g, arguments, order, f, n) /\ Arguments(arguments, order, f) = g[n]
  <1> DEFINE D(g) == [k \in 0..n |-> IF k = 0 THEN Started(f)
                                     ELSE Argument(arguments, g[k - 1], order[k])]
             loop == CHOOSE g : g = D(g)
  <1>1. PICK g : g = [k \in 0..n |-> g[k]] /\ Looping(g, arguments, order, f, n)
    BY LoopExists
  <1>2. g = D(g)
    <2>1. \A k \in 0..n : k = 0 \/ k \in 1..n
      OBVIOUS
    <2> QED BY <1>1, <2>1 DEF Looping
  <1>3. loop = D(loop)
    BY <1>2
  <1>4. Arguments(arguments, order, f) = loop[n]
    BY DEF Arguments, Started
  <1> HIDE DEF loop
  <1>5. Looping(loop, arguments, order, f, n)
    BY <1>3 DEF Looping
  <1> QED BY <1>4, <1>5

(* Its states, and that a panic stays.                                     *)
Panicked(s) == s.panics = TRUE
IsState(s)  == s = [var |-> s.var, each |-> s.each, args |-> s.args, panics |-> s.panics]

LEMMA ArgumentState ==
    ASSUME NEW arguments, NEW s, IsState(s), NEW name
    PROVE  /\ IsState(Argument(arguments, s, name))
           /\ s.panics = TRUE => Argument(arguments, s, name).panics = TRUE
  <1>1. PICK e, given : e = arguments[name] /\ given = Given(arguments[e.name], s.var, s.each)
    OBVIOUS
  <1>2. PICK s1 : s1 = IF Used(e) \in DOMAIN s.args THEN UseArgument(e, s)
                       ELSE IF e.kind = "var" /\ e.name \in DOMAIN arguments /\ given # Null
                       THEN [s EXCEPT !.var = With(@, e.name, given), !.args = With(@, e.name, given)]
                       ELSE s
    OBVIOUS
  <1>3. IsState(s1) /\ (s.panics = TRUE => s1.panics = TRUE)
    BY <1>2 DEF IsState, UseArgument
  <1>4. PICK v : v = Given(e, s1.var, s1.each)
    OBVIOUS
  <1>5. Argument(arguments, s, name) = IF name \in DOMAIN s.args THEN s
                                       ELSE IF v = Null THEN s1
                                       ELSE [s1 EXCEPT !.args = With(@, name, v)]
    BY <1>1, <1>2, <1>4 DEF Argument
  <1>6. PICK s2 : s2 = [s1 EXCEPT !.args = With(@, name, v)]
    OBVIOUS
  <1>7. IsState(s2) /\ s2.panics = s1.panics
    BY <1>3, <1>6 DEF IsState
  <1> QED BY <1>3, <1>5, <1>6, <1>7

(* The state of the loop when the arguments of D are evaluated, each of    *)
(* the variables of the caller.                                            *)
Evaluated(arguments, var, each, D) ==
    [var |-> var, each |-> each, args |-> [x \in D |-> Given(arguments[x], var, Null)], panics |-> FALSE]

WithGiven(arguments, var, D, name) == D \cup {x \in {name} : Given(arguments[x], var, Null) # Null}

(* An argument whose call crosses no names: the context of the caller is   *)
(* left alone, or there is a panic.                                        *)
LEMMA ArgumentUncrossed ==
    ASSUME NEW call, NotCrossed(call), NEW arguments, arguments = call.arguments,
           NEW var, PlainVariables(var), NEW each, NEW name \in DOMAIN arguments,
           NEW D \in SUBSET DOMAIN arguments
    PROVE  \/ Argument(arguments, Evaluated(arguments, var, each, D), name).panics = TRUE
           \/ Argument(arguments, Evaluated(arguments, var, each, D), name) =
                Evaluated(arguments, var, each, WithGiven(arguments, var, D, name))
  <1> DEFINE G(x) == Given(arguments[x], var, Null)
  <1>1. PICK e, v : e = arguments[name] /\ v = Given(e, var, each)
    OBVIOUS
  <1>2. e.kind # "each" /\ (e.kind = "var" => e.name \notin DOMAIN arguments \ {name})
    BY <1>1 DEF NotCrossed
  <1>3. v = G(name)
    BY <1>1, <1>2 DEF Given
  <1>b. PICK s : s = Evaluated(arguments, var, each, D)
    OBVIOUS
  <1>c. s = [var |-> var, each |-> each, args |-> [x \in D |-> G(x)], panics |-> FALSE]
    BY <1>b DEF Evaluated
  <1>4. /\ s = Evaluated(arguments, var, each, D)
        /\ s = [var |-> var, each |-> each, args |-> s.args, panics |-> FALSE]
        /\ s.var = var /\ s.each = each /\ DOMAIN s.args = D /\ s.args = [x \in D |-> G(x)]
    BY <1>b, <1>c
  <1> DEFINE next == Evaluated(arguments, var, each, WithGiven(arguments, var, D, name))
  <1>5. CASE name \in D
    <2>1. Argument(arguments, s, name) = s
      BY <1>4, <1>5 DEF Argument
    <2>2. WithGiven(arguments, var, D, name) = D
      BY <1>5 DEF WithGiven
    <2>3. next = s
      BY <1>4, <2>2
    <2> QED BY <1>4, <2>1, <2>3
  <1>6. CASE name \notin D
    <2>1. PICK t : t = [var |-> var, each |-> each, args |-> With(s.args, name, v), panics |-> FALSE]
      OBVIOUS
    <2>2. v # Null => t = next
      <3>1. ASSUME v # Null PROVE WithGiven(arguments, var, D, name) = D \cup {name}
        BY <1>3, <3>1 DEF WithGiven
      <3>2. With(s.args, name, v) = [x \in D \cup {name} |-> G(x)]
        BY <1>3, <1>4 DEF With
      <3>3. t = Evaluated(arguments, var, each, D \cup {name})
        BY <2>1, <3>2 DEF Evaluated
      <3> QED BY <3>1, <3>3
    <2>3. v = Null => s = next
      <3>1. ASSUME v = Null PROVE WithGiven(arguments, var, D, name) = D
        BY <1>3, <3>1 DEF WithGiven
      <3> QED BY <1>4, <3>1
    <2>4. [s EXCEPT !.args = With(@, name, v)] = t
      <3>1. PICK args : args = With(s.args, name, v)
        OBVIOUS
      <3>2. PICK old, no : no = FALSE /\ s = [var |-> var, each |-> each, args |-> old, panics |-> no]
        BY <1>4
      <3>3. [s EXCEPT !.args = args] = [var |-> var, each |-> each, args |-> args, panics |-> no]
        BY ONLY <3>2
      <3> QED BY <2>1, <3>1, <3>2, <3>3
    <2> HIDE DEF next
    <2>5. CASE Used(e) \in D
      <3>1. e.kind # "var"
        <4>1. e.kind = "var" => Used(e) = e.name /\ e.name # name /\ e.name \in DOMAIN arguments
          BY <1>6, <2>5 DEF Used
        <4> QED BY <1>2, <4>1
      <3>2. PICK s1 : s1 = [s EXCEPT !.panics = TRUE]
        OBVIOUS
      <3>3. UseArgument(e, s) = s1
        BY <1>2, <3>1, <3>2 DEF UseArgument
      <3>4. Argument(arguments, s, name) = IF Given(e, s1.var, s1.each) = Null THEN s1
                                           ELSE [s1 EXCEPT !.args = With(@, name, Given(e, s1.var, s1.each))]
        BY <1>1, <1>4, <1>6, <2>5, <3>3 DEF Argument
      <3>5. PICK args : args = With(s1.args, name, Given(e, s1.var, s1.each))
        OBVIOUS
      <3>6. s1.panics = TRUE /\ [s1 EXCEPT !.args = args].panics = TRUE
        BY <1>4, <3>2
      <3> QED BY <1>4, <3>4, <3>5, <3>6
    <2>6. CASE Used(e) \notin D /\ e.kind # "var"
      <3>1. Argument(arguments, s, name) = IF v = Null THEN s ELSE [s EXCEPT !.args = With(@, name, v)]
        BY <1>1, <1>4, <1>6, <2>6 DEF Argument
      <3>2. Argument(arguments, s, name) = next
        BY <2>2, <2>3, <2>4, <3>1
      <3> QED BY <1>4, <3>2 DEF next
    <2>7. CASE Used(e) \notin D /\ e.kind = "var" /\ e.name \notin DOMAIN arguments
      <3>1. Argument(arguments, s, name) = IF v = Null THEN s ELSE [s EXCEPT !.args = With(@, name, v)]
        BY <1>1, <1>4, <1>6, <2>7 DEF Argument
      <3>2. Argument(arguments, s, name) = next
        BY <2>2, <2>3, <2>4, <3>1
      <3> QED BY <1>4, <3>2 DEF next
    <2>8. CASE Used(e) \notin D /\ e.kind = "var" /\ e.name = name
      <3>1. v = Lookup(var, name)
        BY <1>1, <2>8 DEF Given
      <3>2. CASE v = Null
        <4>1. Argument(arguments, s, name) = s
          BY <1>1, <1>4, <1>6, <2>8, <3>2 DEF Argument
        <4> QED BY <1>4, <2>3, <3>2, <4>1 DEF next
      <3>3. CASE v # Null
        <4>1. With(var, name, v) = var
          <5>1. name \in DOMAIN var /\ v = var[name]
            BY <3>1, <3>3 DEF Lookup
          <5>2. DOMAIN var \cup {name} = DOMAIN var
            BY <5>1
          <5>3. With(var, name, v) = [x \in DOMAIN var |-> var[x]]
            BY <5>1, <5>2 DEF With
          <5> QED BY <5>3 DEF PlainVariables
        <4>2. PICK s1 : s1 = [s EXCEPT !.var = With(@, name, v), !.args = With(@, name, v)]
          OBVIOUS
        <4>3. s1 = t
          <5>1. PICK w, args : w = With(s.var, name, v) /\ args = With(s.args, name, v)
            OBVIOUS
          <5>2. PICK old, no : no = FALSE /\ s = [var |-> var, each |-> each, args |-> old, panics |-> no]
            BY <1>4
          <5>3. [s EXCEPT !.var = w, !.args = args] =
                    [var |-> w, each |-> each, args |-> args, panics |-> no]
            <6>1. PICK u : u = [s EXCEPT !.var = w]
              OBVIOUS
            <6>2. u = [var |-> w, each |-> each, args |-> old, panics |-> no]
              BY ONLY <5>2, <6>1
            <6>3. [u EXCEPT !.args = args] = [var |-> w, each |-> each, args |-> args, panics |-> no]
              BY ONLY <6>2
            <6> QED BY <6>1, <6>3
          <5>4. w = var
            BY <1>4, <4>1, <5>1
          <5> QED BY <2>1, <4>2, <5>1, <5>2, <5>3, <5>4
        <4>4. Argument(arguments, s, name) =
                IF Given(e, s1.var, s1.each) = Null THEN s1
                ELSE [s1 EXCEPT !.args = With(@, name, Given(e, s1.var, s1.each))]
          BY <1>1, <1>4, <1>6, <2>8, <3>3, <4>2 DEF Argument
        <4>5. Given(e, s1.var, s1.each) = v
          BY <1>1, <2>1, <4>3
        <4>6. With(t.args, name, v) = t.args
          BY <2>1 DEF With
        <4>7. [s1 EXCEPT !.args = With(@, name, v)] = t
          BY <2>1, <4>3, <4>6
        <4> QED BY <1>4, <2>2, <3>3, <4>4, <4>5, <4>7 DEF next
      <3> QED BY <3>2, <3>3
    <2> QED BY <1>2, <2>5, <2>6, <2>7, <2>8
  <1> QED BY <1>5, <1>6

(* The arguments are then those the call gives, in any order.              *)
LEMMA ArgumentsUncrossed ==
    ASSUME NEW call, NotCrossed(call), NEW arguments, arguments = call.arguments,
           NEW f, PlainVariables(f.var), NEW n \in Nat, NEW order,
           Len(order) = n, \A k \in 1..n : order[k] \in DOMAIN arguments,
           \A x \in DOMAIN arguments : \E k \in 1..n : order[k] = x,
           ~Panicked(Arguments(arguments, order, f))
    PROVE  /\ Arguments(arguments, order, f).var = f.var
           /\ Arguments(arguments, order, f).args = AsGiven(arguments, f.var)
  <1> DEFINE G(x) == Given(arguments[x], f.var, Null)
             D(k) == {x \in {order[i] : i \in 1..k} : G(x) # Null}
             S(k) == Evaluated(arguments, f.var, f.each, D(k))
  <1>1. PICK g : Looping(g, arguments, order, f, n) /\ Arguments(arguments, order, f) = g[n]
    BY ArgumentsLoop
  <1> DEFINE T == {k \in Nat : g[k] = S(k) \/ (IsState(g[k]) /\ g[k].panics = TRUE)}
  <1>2. 0 \in T
    <2>1. D(0) = {}
      OBVIOUS
    <2>2. S(0) = Started(f)
      BY <2>1 DEF EmptyFunction, Evaluated, Started
    <2> QED BY <1>1, <2>2 DEF Looping
  <1>3. ASSUME NEW k \in 1..n, k - 1 \in T PROVE k \in T
    <2>1. g[k] = Argument(arguments, g[k - 1], order[k])
      BY <1>1 DEF Looping
    <2>2. order[k] \in DOMAIN arguments
      BY <1>3
    <2>3. D(k - 1) \in SUBSET DOMAIN arguments
      <3>1. \A i \in 1..(k - 1) : i \in 1..n
        OBVIOUS
      <3> QED BY <3>1
    <2>4. WithGiven(arguments, f.var, D(k - 1), order[k]) = D(k)
      <3>1. \A i : i \in 1..k <=> (i \in 1..(k - 1) \/ i = k)
        OBVIOUS
      <3> QED BY <3>1 DEF WithGiven
    <2>5. PICK d : d = D(k - 1)
      OBVIOUS
    <2>6. PICK var, each, name, s : var = f.var /\ each = f.each /\ name = order[k] /\ s = g[k - 1]
      OBVIOUS
    <2>7. s = Evaluated(arguments, var, each, d) \/ (IsState(s) /\ s.panics = TRUE)
      BY <1>3, <2>5, <2>6
    <2>8. IsState(s)
      BY <2>7 DEF IsState, Evaluated
    <2>9. PICK next : next = Argument(arguments, s, name)
      OBVIOUS
    <2>10. IsState(next) /\ (s.panics = TRUE => next.panics = TRUE)
      BY <2>8, <2>9, ArgumentState
    <2>11. CASE s = Evaluated(arguments, var, each, d)
      <3>1. name \in DOMAIN arguments /\ PlainVariables(var) /\ d \in SUBSET DOMAIN arguments
        BY <2>2, <2>3, <2>5, <2>6
      <3> HIDE DEF T
      <3>2. \/ Argument(arguments, Evaluated(arguments, var, each, d), name).panics = TRUE
            \/ Argument(arguments, Evaluated(arguments, var, each, d), name) =
                 Evaluated(arguments, var, each, WithGiven(arguments, var, d, name))
        <4>1. NotCrossed(call) /\ arguments = call.arguments
          OBVIOUS
        <4> QED BY ONLY <3>1, <4>1, ArgumentUncrossed
      <3>3. next.panics = TRUE \/ next = Evaluated(arguments, var, each, WithGiven(arguments, var, d, name))
        BY <2>9, <2>11, <3>2
      <3>4. Evaluated(arguments, var, each, WithGiven(arguments, var, d, name)) = S(k)
        BY <2>4, <2>5, <2>6
      <3> HIDE DEF S
      <3> QED BY <2>1, <2>6, <2>9, <2>10, <3>3, <3>4 DEF T
    <2>12. CASE IsState(s) /\ s.panics = TRUE
      <3> HIDE DEF S
      <3> QED BY <2>1, <2>6, <2>9, <2>10, <2>12
    <2> QED BY <2>7, <2>11, <2>12
  <1> HIDE DEF T
  <1>4. n \in T
    <2>1. n \in 0..n
      OBVIOUS
    <2> QED BY <1>2, <1>3, <2>1, Inductively
  <1>5. D(n) = {x \in DOMAIN arguments : G(x) # Null}
    OBVIOUS
  <1>6. g[n] = S(n) \/ g[n].panics = TRUE
    <2> HIDE DEF S
    <2> QED BY <1>4 DEF T
  <1> QED BY <1>1, <1>5, <1>6 DEF AsGiven, Evaluated, Panicked

(* Whatever the names, what a call gives is plain if the caller's context  *)
(* is.                                                                     *)
PlainState(s) ==
    \E v, e, a, p : /\ PlainVariables(v) /\ (e # Null => Plain(e)) /\ PlainVariables(a)
                    /\ s = [var |-> v, each |-> e, args |-> a, panics |-> p]

LEMMA ArgumentPlain ==
    ASSUME NEW arguments, NEW name \in DOMAIN arguments,
           \A x \in DOMAIN arguments : arguments[x].kind \in {"base", "var", "each", "ref"},
           NEW s, PlainState(s)
    PROVE  PlainState(Argument(arguments, s, name))
  <1>a. PICK var, each, args, p :
            /\ PlainVariables(var) /\ PlainVariables(args) /\ (each # Null => Plain(each))
            /\ s = [var |-> var, each |-> each, args |-> args, panics |-> p]
    BY DEF PlainState
  <1>1. ASSUME NEW f, PlainVariables(f), NEW n, NEW v, Plain(v)
        PROVE  PlainVariables(With(f, n, v))
    BY <1>1 DEF PlainVariables, With
  <1>2. ASSUME NEW x \in DOMAIN arguments, NEW f, PlainVariables(f), NEW h, h # Null => Plain(h)
        PROVE  Given(arguments[x], f, h) # Null => Plain(Given(arguments[x], f, h))
    <2>1. arguments[x].kind \in {"base", "var", "each", "ref"}
      OBVIOUS
    <2> QED BY <1>2, <2>1 DEF Given, Lookup, PlainVariables, Plain
  <1>3. PICK e, dep, given : /\ e = arguments[name] /\ dep = e.name
                             /\ given = Given(arguments[dep], var, each)
    OBVIOUS
  <1>4. PICK s1 : s1 = IF Used(e) \in DOMAIN args THEN UseArgument(e, s)
                       ELSE IF e.kind = "var" /\ dep \in DOMAIN arguments /\ given # Null
                       THEN [s EXCEPT !.var = With(@, dep, given), !.args = With(@, dep, given)]
                       ELSE s
    OBVIOUS
  <1>5. PICK v1, h1, a1, p1 :
            /\ PlainVariables(v1) /\ PlainVariables(a1) /\ (h1 # Null => Plain(h1))
            /\ s1 = [var |-> v1, each |-> h1, args |-> a1, panics |-> p1]
    <2>1. CASE Used(e) \in DOMAIN args
      <3>1. PICK v : v = args[Used(e)]
        OBVIOUS
      <3>2. Plain(v)
        BY <1>a, <2>1, <3>1 DEF PlainVariables
      <3>3. PlainVariables(With(var, e.name, v))
        BY <1>a, <1>1, <3>2
      <3>4. CASE e.kind = "var"
        <4>1. s1 = [var |-> With(var, e.name, v), each |-> each, args |-> args, panics |-> p]
          BY <1>a, <1>4, <2>1, <3>1, <3>4 DEF UseArgument
        <4> QED BY <1>a, <3>3, <4>1
      <3>5. CASE e.kind = "each" /\ each # Null
        <4>1. s1 = [var |-> var, each |-> v, args |-> args, panics |-> p]
          BY <1>a, <1>4, <2>1, <3>1, <3>5 DEF UseArgument
        <4> QED BY <1>a, <3>2, <4>1
      <3>6. CASE e.kind # "var" /\ ~(e.kind = "each" /\ each # Null)
        <4>1. s1 = [var |-> var, each |-> each, args |-> args, panics |-> TRUE]
          BY <1>a, <1>4, <2>1, <3>1, <3>6 DEF UseArgument
        <4> QED BY <1>a, <4>1
      <3> QED BY <3>4, <3>5, <3>6
    <2>2. CASE Used(e) \notin DOMAIN args /\ e.kind = "var" /\ dep \in DOMAIN arguments /\ given # Null
      <3>1. Plain(given)
        BY <1>a, <1>2, <1>3, <2>2
      <3>2. PlainVariables(With(var, dep, given)) /\ PlainVariables(With(args, dep, given))
        BY <1>a, <1>1, <3>1
      <3>3. s1 = [var |-> With(var, dep, given), each |-> each, args |-> With(args, dep, given), panics |-> p]
        BY <1>a, <1>4, <2>2
      <3> QED BY <1>a, <3>2, <3>3
    <2>3. CASE Used(e) \notin DOMAIN args /\ ~(e.kind = "var" /\ dep \in DOMAIN arguments /\ given # Null)
      BY <1>a, <1>4, <2>3
    <2> QED BY <2>1, <2>2, <2>3
  <1>6. PICK v : v = Given(e, v1, h1)
    OBVIOUS
  <1>7. v # Null => Plain(v) /\ PlainVariables(With(a1, name, v))
    <2>1. v # Null => Plain(v)
      BY <1>2, <1>3, <1>5, <1>6
    <2> QED BY <1>1, <1>5, <2>1
  <1>8. Argument(arguments, s, name) =
          IF name \in DOMAIN args THEN s
          ELSE IF v = Null THEN s1 ELSE [s1 EXCEPT !.args = With(@, name, v)]
    <2>1. s.var = var /\ s.each = each /\ s.args = args /\ s1.var = v1 /\ s1.each = h1
      BY <1>a, <1>5
    <2> QED BY <1>3, <1>4, <1>6, <2>1 DEF Argument
  <1>9. [s1 EXCEPT !.args = With(@, name, v)] =
            [var |-> v1, each |-> h1, args |-> With(a1, name, v), panics |-> p1]
    BY <1>5
  <1>10. v = Null => PlainState(Argument(arguments, s, name))
    BY <1>5, <1>8 DEF PlainState
  <1>11. v # Null => PlainState(Argument(arguments, s, name))
    <2>1. CASE name \in DOMAIN args
      BY <1>8, <2>1
    <2>2. CASE name \notin DOMAIN args
      <3>1. PICK a2 : a2 = With(a1, name, v)
        OBVIOUS
      <3>2. v # Null => Argument(arguments, s, name) = [var |-> v1, each |-> h1, args |-> a2, panics |-> p1]
        BY <1>8, <1>9, <2>2, <3>1
      <3>3. v # Null => PlainVariables(a2)
        BY <1>7, <3>1
      <3> QED BY <1>5, <3>2, <3>3 DEF PlainState
    <2> QED BY <2>1, <2>2
  <1> QED BY <1>10, <1>11

LEMMA ArgumentsPlain ==
    ASSUME NEW arguments, NEW f, f.each # Null => Plain(f.each), PlainVariables(f.var),
           \A x \in DOMAIN arguments : arguments[x].kind \in {"base", "var", "each", "ref"},
           NEW n \in Nat, NEW order, Len(order) = n, \A k \in 1..n : order[k] \in DOMAIN arguments
    PROVE  /\ PlainVariables(Arguments(arguments, order, f).var)
           /\ PlainVariables(Arguments(arguments, order, f).args)
           /\ LET each == Arguments(arguments, order, f).each IN each # Null => Plain(each)
  <1>1. PICK g : Looping(g, arguments, order, f, n) /\ Arguments(arguments, order, f) = g[n]
    BY ArgumentsLoop
  <1> DEFINE T == {k \in Nat : PlainState(g[k])}
  <1>2. 0 \in T
    <2>1. PlainVariables(EmptyFunction)
      BY DEF PlainVariables, EmptyFunction
    <2>2. g[0] = Started(f)
      BY <1>1 DEF Looping
    <2> QED BY <2>1, <2>2 DEF PlainState, Started
  <1>3. ASSUME NEW k \in 1..n, k - 1 \in T PROVE k \in T
    <2>1. g[k] = Argument(arguments, g[k - 1], order[k]) /\ order[k] \in DOMAIN arguments
      BY <1>1 DEF Looping
    <2>2. PICK name, t : name = order[k] /\ t = g[k - 1]
      OBVIOUS
    <2>3. name \in DOMAIN arguments /\ PlainState(t)
      BY <1>3, <2>1, <2>2
    <2> HIDE DEF T
    <2>4. PlainState(Argument(arguments, t, name))
      BY <2>3, ArgumentPlain
    <2> QED BY <2>1, <2>2, <2>4 DEF T
  <1> HIDE DEF T
  <1>4. n \in T
    <2>1. n \in 0..n
      OBVIOUS
    <2> QED BY <1>2, <1>3, <2>1, Inductively
  <1>5. PlainState(g[n])
    BY <1>4 DEF T
  <1> QED BY <1>1, <1>5 DEF PlainState

-----------------------------------------------------------------------------
-----------------------------------------------------------------------------
(* The variables of a module: `g` has those of the modules on its path.    *)
Chain(g, path, n) ==
    /\ g[0] = config.modules[<<>>].variables
    /\ \A k \in 1..n : g[k] = Completed(AsGiven(CallOn(path, k).arguments, g[k - 1]),
                                        config.modules[SubSeq(path, 1, k)].variables)

LEMMA ChainExists ==
    ASSUME NEW path, NEW n \in Nat
    PROVE  \E g : g = [k \in 0..n |-> g[k]] /\ Chain(g, path, n)
  <1> DEFINE Good(m) == \E g : g = [k \in 0..m |-> g[k]] /\ Chain(g, path, m)
             T == {m \in Nat : Good(m)}
             Following(var, k) == Completed(AsGiven(CallOn(path, k).arguments, var),
                                            config.modules[SubSeq(path, 1, k)].variables)
  <1>1. 0 \in T
    <2>1. PICK g : g = [k \in 0..0 |-> config.modules[<<>>].variables]
      OBVIOUS
    <2>2. g = [k \in 0..0 |-> g[k]] /\ g[0] = config.modules[<<>>].variables /\ 1..0 = {}
      BY <2>1
    <2>3. Chain(g, path, 0)
      BY <2>2 DEF Chain
    <2> QED BY <2>2, <2>3
  <1>2. ASSUME NEW m \in 1..n, m - 1 \in T PROVE m \in T
    <2>1. PICK g : Chain(g, path, m - 1)
      BY <1>2
    <2>2. PICK next : next = Following(g[m - 1], m)
      OBVIOUS
    <2>3. PICK h : h = [k \in 0..m |-> IF k = m THEN next ELSE g[k]]
      OBVIOUS
    <2>4. /\ h = [k \in 0..m |-> h[k]]
          /\ \A k \in 0..(m - 1) : h[k] = g[k]
          /\ h[m] = next
      BY <2>3
    <2>5. h[0] = config.modules[<<>>].variables
      <3>1. 0 \in 0..(m - 1)
        OBVIOUS
      <3> QED BY <2>1, <2>4, <3>1 DEF Chain
    <2>6. ASSUME NEW k \in 1..m PROVE h[k] = Following(h[k - 1], k)
      <3>1. k - 1 \in 0..(m - 1) /\ (k = m \/ (k \in 0..(m - 1) /\ k \in 1..(m - 1)))
        OBVIOUS
      <3>2. h[k - 1] = g[k - 1]
        BY <2>4, <3>1
      <3>3. CASE k = m
        BY <2>2, <2>4, <3>2, <3>3
      <3>4. CASE k \in 0..(m - 1) /\ k \in 1..(m - 1)
        <4>1. g[k] = Following(g[k - 1], k)
          BY <2>1, <3>4 DEF Chain
        <4>2. h[k] = g[k]
          BY <2>4, <3>4
        <4> QED BY <3>2, <4>1, <4>2
      <3> QED BY <3>1, <3>3, <3>4
    <2>7. Chain(h, path, m)
      BY <2>5, <2>6 DEF Chain
    <2> QED BY <2>4, <2>7
  <1> HIDE DEF T
  <1>3. n \in 0..n /\ \A k \in 0..n : k \in T
    BY <1>1, <1>2, Inductively
  <1> QED BY <1>3 DEF T

LEMMA VariablesChain ==
    ASSUME NEW path, NEW n \in Nat, Len(path) = n
    PROVE  \E g : Chain(g, path, n) /\ Variables(path) = g[n]
  <1> DEFINE D(g) == [k \in 0..n |->
                        IF k = 0 THEN config.modules[<<>>].variables
                        ELSE Completed(AsGiven(CallOn(path, k).arguments, g[k - 1]),
                                       config.modules[SubSeq(path, 1, k)].variables)]
             var == CHOOSE g : g = D(g)
  <1>1. PICK g : g = [k \in 0..n |-> g[k]] /\ Chain(g, path, n)
    BY ChainExists
  <1>2. g = D(g)
    <2>1. \A k \in 0..n : k = 0 \/ k \in 1..n
      OBVIOUS
    <2> QED BY <1>1, <2>1 DEF Chain
  <1>3. var = D(var)
    BY <1>2
  <1>4. Variables(path) = var[n]
    BY DEF Variables
  <1> HIDE DEF var
  <1>5. Chain(var, path, n)
    BY <1>3 DEF Chain
  <1> QED BY <1>4, <1>5

LEMMA VariablesRoot == Variables(<<>>) = config.modules[<<>>].variables
  <1>1. Len(<<>>) = 0
    OBVIOUS
  <1>2. PICK g : Chain(g, <<>>, 0) /\ Variables(<<>>) = g[0]
    BY <1>1, VariablesChain
  <1> QED BY <1>2 DEF Chain

(* Those of a child are what its call gives in those of its caller, and    *)
(* its defaults.                                                           *)
LEMMA VariablesNext ==
    ASSUME config \in Configs, NEW path \in DOMAIN config.modules,
           NEW c \in DOMAIN config.modules[path].calls, NEW child, child = Append(path, c)
    PROVE  Variables(child) = Completed(AsGiven(config.modules[path].calls[c].arguments, Variables(path)),
                                        config.modules[child].variables)
  <1>1. PICK n, m : n = Len(path) /\ m = n + 1
    OBVIOUS
  <1>2. path \in Seq(Range(path)) /\ child \in DOMAIN config.modules /\ child \in Seq(Range(child))
    BY PathsAreClosed
  <1>3. n \in Nat /\ m \in Nat /\ Len(child) = m
    BY <1>1, <1>2, Prolonged
  <1>4. /\ \A k \in 1..n : CallOn(child, k) = CallOn(path, k)
        /\ CallOn(child, m) = config.modules[path].calls[c]
    BY <1>1, CallsOnTheWay
  <1>5. \A k \in 0..n : SubSeq(child, 1, k) = SubSeq(path, 1, k)
    BY <1>1, <1>2, Prolonged
  <1>6. SubSeq(child, 1, m) = child
    BY <1>2, <1>3, Prolonged
  <1>7. PICK g : Chain(g, path, n) /\ Variables(path) = g[n]
    BY <1>1, <1>3, VariablesChain
  <1>8. PICK h : Chain(h, child, m) /\ Variables(child) = h[m]
    BY <1>3, VariablesChain
  <1> DEFINE T == {k \in Nat : g[k] = h[k]}
  <1>9. 0 \in T
    BY <1>7, <1>8 DEF Chain
  <1>10. ASSUME NEW k \in 1..n, k - 1 \in T PROVE k \in T
    <2>1. k \in 1..m /\ k \in 0..n /\ k \in Nat
      BY <1>1, <1>3
    <2>2. g[k] = Completed(AsGiven(CallOn(path, k).arguments, g[k - 1]),
                           config.modules[SubSeq(path, 1, k)].variables)
      BY <1>7 DEF Chain
    <2>3. h[k] = Completed(AsGiven(CallOn(child, k).arguments, h[k - 1]),
                           config.modules[SubSeq(child, 1, k)].variables)
      BY <1>8, <2>1 DEF Chain
    <2>4. g[k - 1] = h[k - 1]
      BY <1>10
    <2>5. CallOn(child, k) = CallOn(path, k) /\ SubSeq(child, 1, k) = SubSeq(path, 1, k)
      BY <1>4, <1>5, <2>1
    <2> QED BY <2>1, <2>2, <2>3, <2>4, <2>5
  <1> HIDE DEF T
  <1>11. n \in T
    <2>1. n \in 0..n
      BY <1>3
    <2> QED BY <1>3, <1>9, <1>10, <2>1, Inductively
  <1>12. h[m] = Completed(AsGiven(CallOn(child, m).arguments, h[m - 1]),
                          config.modules[SubSeq(child, 1, m)].variables)
    <2>1. m \in 1..m
      BY <1>1, <1>3
    <2> QED BY <1>8, <2>1 DEF Chain
  <1>13. h[m - 1] = Variables(path)
    <2>1. m - 1 = n
      BY <1>1, <1>3
    <2> QED BY <1>7, <1>11, <2>1 DEF T
  <1> QED BY <1>4, <1>6, <1>8, <1>12, <1>13

(* The calls on the way to a child, and those next to it, cross no names   *)
(* if and only if those on the way to its caller and those of its caller   *)
(* do not.                                                                 *)
LEMMA UncrossedNext ==
    ASSUME config \in Configs, NEW path \in DOMAIN config.modules,
           NEW c \in DOMAIN config.modules[path].calls, Uncrossed(Append(path, c))
    PROVE  Uncrossed(path) /\ \A call \in Range(config.modules[path].calls) : NotCrossed(call)
  <1>1. PICK n, m, child : n = Len(path) /\ m = n + 1 /\ child = Append(path, c)
    OBVIOUS
  <1>2. path \in Seq(Range(path))
    BY PathsAreClosed
  <1>3. /\ n \in Nat /\ Len(child) = m /\ SubSeq(path, 1, n) = path
        /\ \A k \in 0..n : SubSeq(child, 1, k) = SubSeq(path, 1, k)
    BY <1>1, <1>2, Prolonged
  <1>4. \A k \in 1..m : \A call \in Range(config.modules[SubSeq(child, 1, k - 1)].calls) : NotCrossed(call)
    BY <1>1, <1>3 DEF Uncrossed
  <1>5. SubSeq(child, 1, m - 1) = path /\ m \in 1..m
    <2>1. m - 1 = n /\ n \in 0..n /\ m \in 1..m
      BY <1>1, <1>3
    <2> QED BY <1>3, <2>1
  <1>6. ASSUME NEW k \in 1..n, NEW call \in Range(config.modules[SubSeq(path, 1, k - 1)].calls)
        PROVE  NotCrossed(call)
    <2>1. k \in 1..m /\ k - 1 \in 0..n
      BY <1>1, <1>3
    <2> QED BY <1>3, <1>4, <2>1
  <1> QED BY <1>1, <1>4, <1>5, <1>6 DEF Uncrossed

(* All these are about the configuration alone. *)
LEMMA SameSources ==
    ASSUME config' = config
    PROVE  /\ \A path : Variables(path)' = Variables(path)
           /\ \A path : Uncrossed(path)' <=> Uncrossed(path)
           /\ \A a : Resource(a)' = Resource(a)
           /\ \A path, ref, r : PlainIn(path, ref, r)' <=> PlainIn(path, ref, r)
           /\ \A path, r, key, e, v : OwnValue(path, r, key, e, v)' <=> OwnValue(path, r, key, e, v)
           /\ \A path, alone, e, v : FollowedIn(path, alone, e, v)' <=> FollowedIn(path, alone, e, v)
           /\ \A f : HasItsVariables(f)' <=> HasItsVariables(f)
  <1>1. \A p, k : CallOn(p, k)' = CallOn(p, k)
    BY DEF CallOn
  <1>2. \A path : Variables(path)' = Variables(path)
    BY <1>1 DEF Variables
  <1>3. \A path : Uncrossed(path)' <=> Uncrossed(path)
    BY DEF Uncrossed
  <1>4. \A a : Resource(a)' = Resource(a)
    BY DEF Resource
  <1>5. \A path, key : Provided(path, key)' <=> Provided(path, key)
    BY SameConfig DEF Provided
  <1>6. \A path, ref, r : PlainIn(path, ref, r)' <=> PlainIn(path, ref, r)
    BY <1>5 DEF PlainIn
  <1>7. \A path, r, key, e, v : OwnValue(path, r, key, e, v)' <=> OwnValue(path, r, key, e, v)
    BY <1>2, <1>3 DEF OwnValue
  <1>8. \A path, alone, e, v : FollowedIn(path, alone, e, v)' <=> FollowedIn(path, alone, e, v)
    BY <1>6 DEF FollowedIn
  <1>9. \A f : HasItsVariables(f)' <=> HasItsVariables(f)
    BY <1>2, <1>3 DEF HasItsVariables
  <1> QED BY <1>2, <1>3, <1>4, <1>6, <1>7, <1>8, <1>9

-----------------------------------------------------------------------------
(* The values a body is evaluated to. *)

(* The context of an element is that of the module, with the element.      *)
LEMMA ContextOfElement ==
    ASSUME NEW f, DOMAIN f = {"path", "providers", "mcount", "var", "each", "toCall"},
           f.each # Null => Plain(f.each),
           NEW r, NEW order, NEW n \in Nat,
           NEW g, g = ElementContext(f, r, order, n)
    PROVE  /\ g.path = f.path /\ g.var = f.var
           /\ g.each # Null => Plain(g.each)
           /\ (n # 0 /\ Elements(r)[order[n]] # Null) => g.each = EachOf(order[n], Elements(r)[order[n]])
  <1>1. PICK T : T = {k \in 1..n : Elements(r)[order[k]] # Null}
    OBVIOUS
  <1>2. PICK m : m = CHOOSE k \in T : \A l \in T : l <= k
    OBVIOUS
  <1>3. g = IF T = {} THEN f ELSE [f EXCEPT !.each = EachOf(order[m], Elements(r)[order[m]])]
    BY <1>1, <1>2 DEF ElementContext
  <1>4. T # {} => m \in T /\ \A l \in T : l <= m
    <2>1. SUFFICES ASSUME T # {} PROVE \E k \in T : \A l \in T : l <= k
      BY <1>2
    <2>2. PICK R : R = {n - k : k \in T}
      OBVIOUS
    <2>3. R \subseteq Nat /\ R # {}
      BY <1>1, <2>1, <2>2
    <2>4. PICK x \in R : \A y \in R : x <= y
      BY <2>3, Least
    <2>5. PICK k \in T : x = n - k
      BY <2>2, <2>4
    <2>6. ASSUME NEW l \in T PROVE l <= k
      <3>1. n - l \in R /\ n - k <= n - l
        BY <2>2, <2>4, <2>5, <2>6
      <3>2. k \in Int /\ l \in Int
        BY <1>1
      <3> QED BY <3>1, <3>2
    <2> QED BY <2>6
  <1>5. PICK each : each = EachOf(order[m], Elements(r)[order[m]])
    OBVIOUS
  <1>6. (n # 0 /\ Elements(r)[order[n]] # Null) => T # {} /\ m = n
    <2>1. SUFFICES ASSUME n # 0, Elements(r)[order[n]] # Null PROVE T # {} /\ m = n
      OBVIOUS
    <2>2. n \in T
      BY <1>1, <2>1
    <2>3. m \in T /\ n <= m
      BY <1>4, <2>2
    <2>4. m \in 1..n
      BY <1>1, <2>3
    <2> QED BY <2>2, <2>3, <2>4
  <1>7. each # Null => Plain(each)
    BY <1>5, EachIsPlain
  <1>8. g = IF T = {} THEN f ELSE [f EXCEPT !.each = each]
    BY <1>3, <1>5
  <1> QED BY <1>5, <1>6, <1>7, <1>8

(* The value of a list of one reference. *)
LEMMA ListEvaluated ==
    ASSUME config \in Configs, NEW path \in DOMAIN config.modules,
           NEW r \in config.modules[path].resources, NEW n \in DOMAIN r.attributes,
           NEW e, e = r.attributes[n], ListOfReference(e), NEW g, g.path = path
    PROVE  Eval(e, g) = MarkerAlone(e.items[1], path)
  <1>1. e.kind = "list" /\ e.items \in Seq(Range(e.items)) /\ Len(e.items) = 1 /\ e.items[1].kind = "ref"
    BY AttributesAssumption DEF ListOfReference
  <1>2. DOMAIN e.items = {1}
    <2>1. DOMAIN e.items = 1..1
      BY <1>1, LenProperties
    <2> QED BY <2>1
  <1>3. PICK v : v = Marker(e.items[1], path)
    OBVIOUS
  <1>4. v # Null
    BY <1>1, <1>2, <1>3, AttributesAssumption
  <1>5. EvalScalar(e.items[1], g) = v
    BY <1>1, <1>3 DEF EvalScalar
  <1>6. PICK refs : refs = {k \in DOMAIN e.items : e.items[k].kind = "ref"}
    OBVIOUS
  <1>7. refs = {1}
    BY <1>1, <1>2, <1>6
  <1>8. PICK one : one = CHOOSE k \in refs : \A l \in refs : k <= l
    OBVIOUS
  <1>9. one = 1
    <2>1. \E k \in refs : \A l \in refs : k <= l
      BY <1>7
    <2> QED BY <1>7, <1>8, <2>1
  <1>10. PICK items : items = [k \in {1} |-> v]
    OBVIOUS
  <1>11. Len(items) = 1 /\ items[1] = v
    <2>1. items = <<v>>
      BY <1>10
    <2> QED BY <2>1
  <1>12. Present(items) = <<v>>
    BY <1>4, <1>11, PresentOne
  <1>13. Eval(e, g) = [kind |-> "list",
                       items |-> Present([k \in DOMAIN e.items |->
                         LET w == EvalScalar(e.items[k], g)
                         IN IF w # Null /\ w.kind = "base" /\ NotNull(w) THEN w
                            ELSE IF refs = {} THEN Null ELSE EvalScalar(e.items[one], g)])]
    BY <1>1, <1>6, <1>8 DEF Eval
  <1>14. [k \in DOMAIN e.items |->
            LET w == EvalScalar(e.items[k], g)
            IN IF w # Null /\ w.kind = "base" /\ NotNull(w) THEN w
               ELSE IF refs = {} THEN Null ELSE EvalScalar(e.items[one], g)] = items
    <2>1. v.kind # "base"
      BY <1>3 DEF Marker
    <2> QED BY <1>1, <1>2, <1>5, <1>7, <1>9, <1>10, <2>1
  <1> QED BY <1>3, <1>12, <1>13, <1>14 DEF MarkerAlone

(* A context in which the body of a resource is evaluated for an element.  *)
ContextOf(path, r, key, g) ==
    /\ g.path = path /\ PlainVariables(g.var) /\ (g.each # Null => Plain(g.each))
    /\ Uncrossed(path) => g.var = Variables(path)
    /\ (IsForEach(r) /\ r.forEach[key] # Null) => g.each = EachOf(key, r.forEach[key])

(* What each attribute is when its body has been evaluated. *)
LEMMA BodyIsOwn ==
    ASSUME config \in Configs, NEW path \in DOMAIN config.modules,
           NEW r \in config.modules[path].resources, NEW key, NEW g, ContextOf(path, r, key, g),
           NEW values, values = EvalBody(r.attributes, g),
           NEW n \in DOMAIN r.attributes, NEW e, e = r.attributes[n]
    PROVE  /\ OwnValue(path, r, key, e, Lookup(values, n))
           /\ n \in DOMAIN values =>
                 /\ e.kind \in {"base", "var", "each"} => Plain(values[n])
                 /\ e.kind = "ref" => values[n] = Marker(e, path)
                 /\ ListOfReference(e) =>
                       values[n] = MarkerAlone(e.items[1], path)
  <1>0. /\ g.path = path /\ PlainVariables(g.var) /\ (g.each # Null => Plain(g.each))
        /\ Uncrossed(path) => g.var = Variables(path)
        /\ (IsForEach(r) /\ r.forEach[key] # Null) => g.each = EachOf(key, r.forEach[key])
    BY DEF ContextOf
  <1>1. PICK v : v = Eval(e, g)
    OBVIOUS
  <1>2. DOMAIN values = {a \in DOMAIN r.attributes : Eval(r.attributes[a], g) # Null}
    BY DEF EvalBody
  <1>3. n \in DOMAIN values => v # Null /\ values[n] = v
    BY <1>1, <1>2 DEF EvalBody
  <1>4. Lookup(values, n) = v
    BY <1>1, <1>2, <1>3 DEF Lookup
  <1>5. OwnValue(path, r, key, e, v)
    <2>1. e.kind = "base" => v = e
      BY <1>1 DEF Eval, EvalScalar
    <2>2. e.kind = "var" => v = Lookup(g.var, e.name)
      BY <1>1 DEF Eval, EvalScalar
    <2>3. e.kind = "each" => v = g.each
      BY <1>1 DEF Eval, EvalScalar
    <2> QED BY <1>0, <2>1, <2>2, <2>3 DEF OwnValue
  <1>6. ASSUME n \in DOMAIN values, e.kind \in {"base", "var", "each"} PROVE Plain(values[n])
    <2>1. e.kind = "base" => v = e
      BY <1>1 DEF Eval, EvalScalar
    <2>2. e.kind = "var" => v = Lookup(g.var, e.name)
      BY <1>1 DEF Eval, EvalScalar
    <2>3. e.kind = "each" => v = g.each
      BY <1>1 DEF Eval, EvalScalar
    <2>4. e.kind = "var" => Plain(v)
      BY <1>0, <1>3, <1>6, <2>2 DEF Lookup, PlainVariables
    <2> QED BY <1>0, <1>3, <1>6, <2>1, <2>3, <2>4 DEF Plain
  <1>7. e.kind = "ref" => v = Marker(e, path)
    BY <1>0, <1>1 DEF Eval, EvalScalar
  <1>8. ListOfReference(e) => v = MarkerAlone(e.items[1], path)
    BY <1>0, <1>1, ListEvaluated
  <1> QED BY <1>3, <1>4, <1>5, <1>6, <1>7, <1>8

-----------------------------------------------------------------------------
(* VInv is inductive: one lemma for each action. *)

(* No query is made. *)
LEMMA ValuesKept ==
    ASSUME ValuesAreOwn, ReferencesAreFollowed, config' = config, queries' = queries
    PROVE  ValuesAreOwn' /\ ReferencesAreFollowed'
  <1>1. /\ \A a : Resource(a)' = Resource(a)
        /\ \A path, r, key, e, v : OwnValue(path, r, key, e, v)' <=> OwnValue(path, r, key, e, v)
        /\ \A path, alone, e, v : FollowedIn(path, alone, e, v)' <=> FollowedIn(path, alone, e, v)
    BY SameSources
  <1>2. BagToSet(queries)' = BagToSet(queries)
    BY DEF BagToSet
  <1>3. ValuesAreOwn'
    BY <1>1, <1>2 DEF ValuesAreOwn
  <1>4. ReferencesAreFollowed'
    BY <1>1, <1>2 DEF ReferencesAreFollowed
  <1> QED BY <1>3, <1>4

(* The module at hand is through with its resources. *)
LEMMA ThroughVInv ==
    ASSUME VInv, config' = config, queries' = queries, pc' \notin {"expand", "resolve"},
           \A f \in Range(stack') : f \in Range(stack)
    PROVE  VInv'
  <1>1. ValuesAreOwn' /\ ReferencesAreFollowed'
    BY ValuesKept DEF VInv
  <1>2. PlainContexts'
    BY DEF VInv, PlainContexts, PlainVariables, Plain
  <1>3. VariablesAreOwn'
    <2>1. ASSUME NEW f \in Range(stack') PROVE HasItsVariables(f)'
      <3>1. HasItsVariables(f)
        BY <2>1 DEF VInv, VariablesAreOwn
      <3> QED BY <3>1, SameSources
    <2> QED BY <2>1 DEF VariablesAreOwn, Range
  <1>4. ExpandedSoFar'
    BY DEF ExpandedSoFar
  <1> QED BY <1>1, <1>2, <1>3, <1>4 DEF VInv

LEMMA SourcesArePlain ==
    ASSUME NEW cf \in Configs, NEW path \in DOMAIN cf.modules
    PROVE  /\ PlainVariables(cf.modules[path].variables)
           /\ \A call \in Range(cf.modules[path].calls) :
                 /\ IsFiniteSet(DOMAIN call.arguments)
                 /\ \A n \in DOMAIN call.arguments :
                       call.arguments[n].kind \in {"base", "var", "each", "ref"}
  BY ConfigsAssumption, VariablesAssumption

LEMMA InitVInv == Init => VInv
  <1>1. SUFFICES ASSUME Init PROVE VInv
    OBVIOUS
  <1>2. PICK f : f = [path |-> <<>>, providers |-> [k \in config.providers |-> k],
                      mcount |-> 1, var |-> config.modules[<<>>].variables, each |-> Null,
                      toCall |-> DOMAIN config.modules[<<>>].calls]
    OBVIOUS
  <1>3. /\ config \in Configs /\ stack = <<f>> /\ pc = "expand"
        /\ toExpand = config.modules[<<>>].resources
        /\ DOMAIN rss = {} /\ DOMAIN queries = {}
    BY <1>1, <1>2 DEF Init, EmptyFunction, EmptyBag, SetToBag
  <1>4. /\ f.path = <<>> /\ f.var = config.modules[<<>>].variables /\ f.each = Null
        /\ f.toCall = DOMAIN config.modules[<<>>].calls
    BY <1>2
  <1>5. Frame = f /\ Range(stack) = {f}
    BY <1>3 DEF Frame, Range
  <1>6. PlainVariables(config.modules[<<>>].variables)
    <2>1. PICK path : path = <<>>
      OBVIOUS
    <2>2. path \in DOMAIN config.modules
      BY <1>3, <2>1, ConfigsAssumption
    <2>3. PlainVariables(config.modules[path].variables)
      BY <1>3, <2>2, SourcesArePlain
    <2> QED BY <2>1, <2>3
  <1>7. PlainContexts
    BY <1>4, <1>5, <1>6 DEF PlainContexts
  <1>8. VariablesAreOwn
    BY <1>4, <1>5, VariablesRoot DEF VariablesAreOwn, HasItsVariables, Module
  <1>9. ExpandedSoFar
    <2>1. Module.resources \ toExpand = {}
      BY <1>3, <1>4, <1>5 DEF Module
    <2> QED BY <1>3, <2>1 DEF ExpandedSoFar
  <1>10. ValuesAreOwn /\ ReferencesAreFollowed
    BY <1>3 DEF ValuesAreOwn, ReferencesAreFollowed, BagToSet
  <1> QED BY <1>7, <1>8, <1>9, <1>10 DEF VInv

(* A resource that is expanded has the values of its elements.             *)
LEMMA ExpandResourceVInv ==
    ASSUME IInv, VInv, ExpandResource
    PROVE  VInv'
  <1>1. PICK r \in toExpand : \E order \in SetToSeqs(DOMAIN Elements(r)) :
            /\ stack' = [stack EXCEPT ![Len(stack)] = ElementContext(Frame, r, order, Len(order))]
            /\ cfgs' = Completed([c \in {<<r.name, key>> : key \in Convertible(r)} |->
                                   LET n == CHOOSE n \in DOMAIN order : order[n] = c[2]
                                   IN EvalBody(r.attributes, ElementContext(Frame, r, order, n))],
                                 cfgs)
            /\ rss' = IF ~Known(r, Frame) THEN rss
                      ELSE Completed([a \in AddressesOf(r, Frame) |->
                                        [type |-> r.type, cfg |-> <<r.name, KeyOf(r, a)>>]], rss)
            /\ toExpand' = toExpand \ {r}
    BY DEF ExpandResource
  <1>2. PICK order \in SetToSeqs(DOMAIN Elements(r)) :
            /\ stack' = [stack EXCEPT ![Len(stack)] = ElementContext(Frame, r, order, Len(order))]
            /\ cfgs' = Completed([c \in {<<r.name, key>> : key \in Convertible(r)} |->
                                   LET n == CHOOSE n \in DOMAIN order : order[n] = c[2]
                                   IN EvalBody(r.attributes, ElementContext(Frame, r, order, n))],
                                 cfgs)
    BY <1>1
  <1>3. config' = config /\ pc' = pc /\ queries' = queries /\ pc = "expand"
    BY DEF ExpandResource
  <1>4. /\ StackTypeOK /\ StackIsPath /\ FramesAreCalled /\ TypeOK /\ config \in Configs
        /\ PlainContexts /\ VariablesAreOwn /\ ExpandedSoFar
    BY DEF IInv, TypeOK, VInv
  <1>5. PICK f, path : f = Frame /\ path = f.path
    OBVIOUS
  <1>6. /\ path \in DOMAIN config.modules /\ f \in Range(stack) /\ DOMAIN stack = 1..Len(stack)
        /\ Len(stack) \in 1..Len(stack) /\ \A k \in 1..Len(stack) : stack[k] \in Range(stack)
    BY <1>4, <1>5, StackIs
  <1>7. r \in config.modules[path].resources
    BY <1>4, <1>5 DEF TypeOK, Module
  <1>8. DOMAIN f = {"path", "providers", "mcount", "var", "each", "toCall"}
    BY <1>4, <1>5, <1>6 DEF StackTypeOK, Frame
  <1>9. /\ Len(order) \in Nat /\ DOMAIN order = 1..Len(order)
        /\ \A k \in 1..Len(order) : order[k] \in DOMAIN Elements(r)
        /\ \A key \in DOMAIN Elements(r) : \E k \in 1..Len(order) : order[k] = key
    <2>1. IsFiniteSet(DOMAIN Elements(r))
      BY <1>4, <1>6, <1>7, ElementsFinite
    <2> QED BY <1>2, <2>1, OrderOfElements
  <1>10. PlainVariables(f.var) /\ (f.each # Null => Plain(f.each)) /\ HasItsVariables(f)
    BY <1>4, <1>6 DEF PlainContexts, VariablesAreOwn
  <1>11. ASSUME NEW n \in Nat, n <= Len(order), NEW g, g = ElementContext(f, r, order, n)
         PROVE  /\ g.path = path /\ g.var = f.var /\ (g.each # Null => Plain(g.each))
                /\ (n # 0 /\ Elements(r)[order[n]] # Null) => g.each = EachOf(order[n], Elements(r)[order[n]])
    BY <1>5, <1>8, <1>10, <1>11, ContextOfElement
  <1>12. PICK top : top = ElementContext(f, r, order, Len(order))
    OBVIOUS
  <1>13. /\ DOMAIN top = DOMAIN f /\ top.path = path /\ top.toCall = f.toCall
         /\ top.providers = f.providers /\ top.mcount = f.mcount
    BY <1>5, <1>8, <1>12, ContextIsFrame
  <1>14. top.var = f.var /\ (top.each # Null => Plain(top.each))
    <2>1. Len(order) <= Len(order)
      BY <1>9
    <2> QED BY <1>9, <1>11, <1>12, <2>1
  <1>15. SameFrames
    BY <1>2, <1>3, <1>4, <1>5, <1>12, <1>13, TopReplaced
  <1>16. Frame'.path = path /\ Frame'.toCall = f.toCall /\ Frame'.mcount = f.mcount
    BY <1>4, <1>5, <1>15, FramesKept
  <1>17. ASSUME NEW g \in Range(stack') PROVE g = top \/ g \in Range(stack)
    <2>1. PICK k \in DOMAIN stack : g = stack'[k]
      BY <1>2, <1>17 DEF Range
    <2> QED BY <1>2, <1>5, <1>6, <1>12, <2>1
  <1>18. PlainContexts'
    <2>1. ASSUME NEW g \in Range(stack') PROVE PlainVariables(g.var) /\ (g.each # Null => Plain(g.each))
      BY <1>4, <1>10, <1>14, <1>17, <2>1 DEF PlainContexts
    <2> QED BY <2>1 DEF PlainContexts, Range
  <1>19. VariablesAreOwn'
    <2>1. HasItsVariables(top)
      BY <1>5, <1>10, <1>13, <1>14 DEF HasItsVariables
    <2>2. ASSUME NEW g \in Range(stack') PROVE HasItsVariables(g)'
      <3>1. HasItsVariables(g)
        BY <1>4, <1>17, <2>1 DEF VariablesAreOwn
      <3> QED BY <1>3, <3>1, SameSources
    <2>3. Frame'.toCall = DOMAIN Module'.calls
      BY <1>3, <1>4, <1>5, <1>16 DEF VariablesAreOwn, Module
    <2> QED BY <2>2, <2>3 DEF VariablesAreOwn, Range
  <1>20. ValuesAreOwn' /\ ReferencesAreFollowed'
    BY <1>3, ValuesKept DEF VInv
  <1>21. Module'.resources \ toExpand' = (Module.resources \ toExpand) \cup {r}
    BY <1>1, <1>3, <1>5, <1>7, <1>16 DEF Module
  <1>22. \A s \in config.modules[path].resources : s.name = r.name => s = r
    BY <1>4, <1>6, <1>7, NamedOnce
  <1>23. ASSUME NEW a \in DOMAIN rss'
         PROVE  \E s \in Module'.resources \ toExpand' :
                   a.name = s.name /\ rss'[a].cfg = <<s.name, KeyOf(s, a)>>
    <2>1. CASE Known(r, f) /\ a \in AddressesOf(r, f)
      <3>1. PICK new : new = [b \in AddressesOf(r, f) |->
                                [type |-> r.type, cfg |-> <<r.name, KeyOf(r, b)>>]]
        OBVIOUS
      <3>2. a \in DOMAIN new /\ new[a].cfg = <<r.name, KeyOf(r, a)>>
        BY <2>1, <3>1
      <3>3. rss'[a] = new[a]
        BY <1>1, <1>5, <1>23, <2>1, <3>1, <3>2 DEF Completed
      <3>4. a.name = r.name
        BY <1>4, <1>5, <1>6, <1>7, <2>1, InstanceOf
      <3> QED BY <1>21, <3>2, <3>3, <3>4
    <2>2. CASE ~(Known(r, f) /\ a \in AddressesOf(r, f))
      <3>1. a \in DOMAIN rss /\ rss'[a] = rss[a]
        <4>1. CASE ~Known(r, f)
          BY <1>1, <1>5, <1>23, <4>1
        <4>2. CASE Known(r, f) /\ a \notin AddressesOf(r, f)
          BY <1>1, <1>5, <1>23, <4>2 DEF Completed
        <4> QED BY <2>2, <4>1, <4>2
      <3>2. PICK s \in Module.resources \ toExpand :
                a.name = s.name /\ rss[a].cfg = <<s.name, KeyOf(s, a)>>
        BY <1>3, <1>4, <3>1 DEF ExpandedSoFar
      <3> QED BY <1>21, <3>1, <3>2
    <2> QED BY <2>1, <2>2
  <1>24. PICK new : new = [c \in {<<r.name, key>> : key \in Convertible(r)} |->
                              LET n == CHOOSE n \in DOMAIN order : order[n] = c[2]
                              IN EvalBody(r.attributes, ElementContext(f, r, order, n))]
    OBVIOUS
  <1>25. cfgs' = Completed(new, cfgs) /\ DOMAIN new = {<<r.name, key>> : key \in Convertible(r)}
    BY <1>2, <1>5, <1>24
  <1>26. ASSUME NEW key \in Convertible(r)
         PROVE  \E n \in 1..Len(order) :
                   /\ order[n] = key /\ <<r.name, key>> \in DOMAIN cfgs'
                   /\ cfgs'[<<r.name, key>>] = EvalBody(r.attributes, ElementContext(f, r, order, n))
    <2>1. PICK c : c = <<r.name, key>>
      OBVIOUS
    <2>2. c \in DOMAIN new /\ key \in DOMAIN Elements(r)
      BY <1>4, <1>6, <1>7, <1>25, <2>1, ElementsFinite
    <2>3. PICK n : n = CHOOSE m \in DOMAIN order : order[m] = c[2]
      OBVIOUS
    <2>4. n \in DOMAIN order /\ order[n] = key
      <3>1. c[2] = key
        BY <2>1
      <3>2. \E m \in DOMAIN order : order[m] = c[2]
        BY <1>9, <2>2, <3>1
      <3> QED BY <2>3, <3>1, <3>2
    <2>5. new[c] = EvalBody(r.attributes, ElementContext(f, r, order, n))
      BY <1>24, <1>25, <2>2, <2>3
    <2>6. c \in DOMAIN cfgs' /\ cfgs'[c] = new[c]
      BY <1>25, <2>2 DEF Completed
    <2> QED BY <1>9, <2>1, <2>4, <2>5, <2>6
  <1>27. ASSUME NEW s \in Module.resources \ toExpand, NEW key \in Convertible(s)
         PROVE  ExpandedValues(s, key)'
    <2>1. PICK c : c = <<s.name, key>>
      OBVIOUS
    <2>2. ExpandedValues(s, key)
      BY <1>3, <1>4, <1>27 DEF ExpandedSoFar
    <2>3. s \in config.modules[path].resources /\ s # r
      BY <1>1, <1>5 DEF Module
    <2>4. c \notin DOMAIN new
      <3>1. s.name # r.name
        BY <1>22, <2>3
      <3> QED BY <1>25, <2>1, <3>1
    <2>5. c \in DOMAIN cfgs' /\ cfgs'[c] = cfgs[c]
      BY <1>25, <2>1, <2>2, <2>4 DEF Completed, ExpandedValues
    <2>6. ASSUME NEW e, NEW v, ToFollow(c, e, v) PROVE ToFollow(c, e, v)'
      BY <1>3, <1>5, <1>16, <2>6, SameSources DEF ToFollow, Findable, Unqueried, Module
    <2> QED BY <1>3, <1>5, <1>16, <2>1, <2>2, <2>5, <2>6, SameSources DEF ExpandedValues
  <1>28. ASSUME NEW key \in Convertible(r)
         PROVE  ExpandedValues(r, key)'
    <2>a. PICK c : c = <<r.name, key>>
      OBVIOUS
    <2>b. \E k \in 1..Len(order) :
             /\ order[k] = key /\ <<r.name, key>> \in DOMAIN cfgs'
             /\ cfgs'[<<r.name, key>>] = EvalBody(r.attributes, ElementContext(f, r, order, k))
      BY ONLY <1>26, key \in Convertible(r)
    <2>1. PICK k \in 1..Len(order) :
              /\ c = <<r.name, key>> /\ order[k] = key /\ c \in DOMAIN cfgs'
              /\ cfgs'[c] = EvalBody(r.attributes, ElementContext(f, r, order, k))
      BY <2>a, <2>b
    <2>2. PICK g, values : g = ElementContext(f, r, order, k) /\ values = EvalBody(r.attributes, g)
      OBVIOUS
    <2>3. k \in Nat /\ k <= Len(order) /\ k # 0
      BY <1>9
    <2>4. /\ g.path = path /\ g.var = f.var /\ (g.each # Null => Plain(g.each))
          /\ Elements(r)[key] # Null => g.each = EachOf(key, Elements(r)[key])
      BY <1>11, <2>1, <2>2, <2>3
    <2>5. (IsForEach(r) /\ r.forEach[key] # Null) => g.each = EachOf(key, r.forEach[key])
      BY <1>4, <1>6, <1>7, <2>4, ElementsFinite
    <2>6. Uncrossed(path) => g.var = Variables(path)
      <3>1. f.toCall = DOMAIN config.modules[path].calls
        BY <1>3, <1>4, <1>5 DEF VariablesAreOwn, Module
      <3> QED BY <1>5, <1>10, <2>4, <3>1 DEF HasItsVariables
    <2>7. ASSUME NEW n \in DOMAIN r.attributes, NEW e, e = r.attributes[n]
          PROVE  /\ OwnValue(path, r, key, e, Lookup(values, n))
                 /\ n \in DOMAIN values =>
                       /\ e.kind \in {"base", "var", "each"} => Plain(values[n])
                       /\ e.kind = "ref" => values[n] = Marker(e, path)
                       /\ ListOfReference(e) =>
                             values[n] = MarkerAlone(e.items[1], path)
      <3>1. ContextOf(path, r, key, g)
        BY <1>10, <2>4, <2>5, <2>6 DEF ContextOf
      <3>2. n \in DOMAIN r.attributes /\ e = r.attributes[n]
        BY <2>7
      <3>3. values = EvalBody(r.attributes, g)
        BY <2>2
      <3> QED BY ONLY <1>4, <1>6, <1>7, <3>1, <3>2, <3>3, BodyIsOwn
    <2>8. DOMAIN values \subseteq DOMAIN r.attributes
      BY <2>2 DEF EvalBody
    <2>9. cfgs'[c] = values
      BY <2>1, <2>2
    <2>10. ASSUME NEW n \in DOMAIN values, NEW e, e = r.attributes[n]
           PROVE  ToFollow(c, e, values[n])'
      <3>1. n \in DOMAIN r.attributes
        BY <2>8
      <3>2. (e.kind = "ref" => values[n] = Marker(e, path))
            /\ (ListOfReference(e) =>
                  values[n] = MarkerAlone(e.items[1], path))
        BY <2>7, <2>10, <3>1
      <3> QED BY <1>16, <3>2 DEF ToFollow
    <2>11. \A n \in DOMAIN r.attributes :
             LET e == r.attributes[n]
             IN /\ OwnValue(path, r, key, e, Lookup(values, n))'
                /\ n \in DOMAIN values =>
                      /\ e.kind \in {"base", "var", "each"} => Plain(values[n])
                      /\ ToFollow(c, e, values[n])'
      BY <1>3, <2>7, <2>10, SameSources
    <2> QED BY <1>16, <2>1, <2>8, <2>9, <2>11 DEF ExpandedValues
  <1>29. ExpandedSoFar'
    <2>1. ASSUME NEW s \in Module'.resources \ toExpand', NEW key \in Convertible(s)
          PROVE  ExpandedValues(s, key)'
      BY <1>21, <1>27, <1>28, <2>1
    <2> QED BY <1>23, <2>1 DEF ExpandedSoFar, Convertible, Elements, IsForEach, KeyOf
  <1> QED BY <1>18, <1>19, <1>20, <1>29 DEF VInv

(* Stuttering: nothing changes. *)
LEMMA StutterVInv ==
    ASSUME VInv, UNCHANGED vars
    PROVE  VInv'
  <1>1. /\ config' = config /\ pc' = pc /\ stack' = stack /\ toExpand' = toExpand
        /\ cfgs' = cfgs /\ rss' = rss /\ toResolve' = toResolve /\ queries' = queries
    BY DEF vars
  <1>2. ValuesAreOwn' /\ ReferencesAreFollowed'
    BY <1>1, ValuesKept DEF VInv
  <1>3. PlainContexts'
    BY <1>1 DEF VInv, PlainContexts, PlainVariables, Plain
  <1>4. VariablesAreOwn'
    <2>1. \A f \in Range(stack) : HasItsVariables(f)'
      BY <1>1, SameSources DEF VInv, VariablesAreOwn
    <2> QED BY <1>1, <2>1 DEF VInv, VariablesAreOwn, Frame, Module
  <1>5. \A c, e, v : ToFollow(c, e, v)' <=> ToFollow(c, e, v)
    BY <1>1, SameSources DEF ToFollow, Findable, Unqueried, Module, Frame
  <1>6. \A r, key : ExpandedValues(r, key)' <=> ExpandedValues(r, key)
    BY <1>1, <1>5, SameSources DEF ExpandedValues, Frame
  <1>7. ExpandedSoFar'
    BY <1>1, <1>6 DEF VInv, ExpandedSoFar, Frame, Module
  <1> QED BY <1>2, <1>3, <1>4, <1>7 DEF VInv

LEMMA ExpandedVInv ==
    ASSUME VInv, Expanded
    PROVE  VInv'
  <1>1. /\ config' = config /\ pc = "expand" /\ pc' = "resolve" /\ stack' = stack
        /\ toExpand' = toExpand /\ cfgs' = cfgs /\ rss' = rss /\ toResolve' = DOMAIN rss
        /\ queries' = queries
    BY DEF Expanded
  <1>2. ValuesAreOwn' /\ ReferencesAreFollowed'
    BY <1>1, ValuesKept DEF VInv
  <1>3. PlainContexts'
    BY <1>1 DEF VInv, PlainContexts, PlainVariables, Plain
  <1>4. VariablesAreOwn'
    <2>1. \A f \in Range(stack) : HasItsVariables(f)'
      BY <1>1, SameSources DEF VInv, VariablesAreOwn
    <2> QED BY <1>1, <2>1 DEF VInv, VariablesAreOwn, Frame, Module
  <1>5. \A c : Unqueried(c)' /\ Unqueried(c)
    BY <1>1 DEF Unqueried
  <1>6. \A c, e, v : ToFollow(c, e, v)' <=> ToFollow(c, e, v)
    BY <1>1, <1>5, SameSources DEF ToFollow, Findable, Module, Frame
  <1>7. \A r, key : ExpandedValues(r, key)' <=> ExpandedValues(r, key)
    BY <1>1, <1>6, SameSources DEF ExpandedValues, Frame
  <1>8. ExpandedSoFar'
    BY <1>1, <1>7 DEF VInv, ExpandedSoFar, Frame, Module
  <1> QED BY <1>2, <1>3, <1>4, <1>8 DEF VInv

(* An address that is entered is of an instance of the module at hand,     *)
(* whose values are those of its element.                                  *)
LEMMA EnteredOf ==
    ASSUME IInv, VInv, pc = "resolve", NEW a \in DOMAIN rss
    PROVE  \E r \in Module.resources :
              /\ a \in AddressesOf(r, Frame) /\ Resource(a) = r
              /\ KeyOf(r, a) \in Convertible(r)
              /\ rss[a].cfg = <<r.name, KeyOf(r, a)>>
              /\ ExpandedValues(r, KeyOf(r, a))
  <1>1. /\ TypeOK /\ EnteredSoFar /\ ExpandedSoFar /\ StackIsPath /\ StackTypeOK /\ config \in Configs
    BY DEF IInv, VInv, TypeOK
  <1>2. PICK path, f : path = Frame.path /\ f = Frame
    OBVIOUS
  <1>3. path \in DOMAIN config.modules
    BY <1>1, <1>2, StackIs
  <1>4. PICK r \in Module.resources \ toExpand : a \in AddressesOf(r, f)
    BY <1>1, <1>2 DEF EnteredSoFar, Entered
  <1>5. r \in config.modules[path].resources
    BY <1>2, <1>4 DEF Module
  <1>6. a.path = path /\ a.name = r.name /\ KeyOf(r, a) \in Convertible(r)
    BY <1>1, <1>2, <1>3, <1>4, <1>5, InstanceOf
  <1>7. PICK s \in Module.resources \ toExpand : a.name = s.name /\ rss[a].cfg = <<s.name, KeyOf(s, a)>>
    BY <1>1 DEF ExpandedSoFar
  <1>8. s = r
    <2>1. s \in config.modules[path].resources
      BY <1>2, <1>7 DEF Module
    <2> QED BY <1>1, <1>3, <1>5, <1>6, <1>7, <2>1, NamedOnce
  <1>9. Resource(a) = r
    BY <1>1, <1>3, <1>5, <1>6, NamedOnce
  <1>10. ExpandedValues(r, KeyOf(r, a))
    BY <1>1, <1>4, <1>6 DEF ExpandedSoFar
  <1> QED BY <1>2, <1>4, <1>6, <1>7, <1>8, <1>9, <1>10

(* A reference to the attribute of an only instance finds it.              *)
LEMMA FollowFinds ==
    ASSUME IInv, VInv, pc = "resolve", Findable, NEW ref, NEW r \in Module.resources,
           PlainIn(Frame.path, ref, r)
    PROVE  Follow(Marker(ref, Frame.path)) = r.attributes[ref.attr]
  <1>1. /\ TypeOK /\ EnteredSoFar /\ ExpandedSoFar /\ StackIsPath /\ StackTypeOK /\ FramesAreCalled
        /\ config \in Configs
    BY DEF IInv, VInv, TypeOK
  <1>2. PICK path, f : path = Frame.path /\ f = Frame
    OBVIOUS
  <1>3. path \in DOMAIN config.modules /\ path # <<>> /\ f.mcount = 1 /\ f.path = path
    BY <1>1, <1>2, StackIs DEF Findable
  <1>4. /\ r.name = ref.to /\ ref.index = NoIndex /\ Provided(path, ProviderKey(r))
        /\ ~IsForEach(r) /\ r.count \in {Null, 1} /\ ref.attr \in DOMAIN r.attributes
        /\ r.attributes[ref.attr].kind = "base"
    BY <1>2 DEF PlainIn
  <1>5. PICK a, v : v = Marker(ref, path) /\ a = v.to
    OBVIOUS
  <1>6. a = [path |-> path, call |-> NoIndex, name |-> r.name, index |-> NoIndex] /\ v.attr = ref.attr
    BY <1>3, <1>4, <1>5 DEF Marker, ReferencePath
  <1>7. a \in AddressesOf(r, f)
    <2>1. NoIndex \in CallIndexes(f.mcount)
      BY <1>3 DEF CallIndexes
    <2>2. NoIndex \in Indexes(r, "") /\ Convertible(r) = {""}
      BY <1>4 DEF Indexes, Elements, Convertible
    <2>3. NoIndex \in UNION {Indexes(r, key) : key \in Convertible(r)}
      BY <2>2
    <2> QED BY <1>3, <1>6, <2>1, <2>3 DEF AddressesOf
  <1>8. Known(r, f)
    BY <1>1, <1>2, <1>4, KnownIsProvided
  <1>9. a \in DOMAIN rss
    <2>1. toExpand = {} /\ DOMAIN rss = Entered
      BY <1>1 DEF EnteredSoFar
    <2> QED BY <1>2, <1>7, <1>8, <2>1 DEF Entered
  <1>10. rss[a].cfg = <<r.name, "">> /\ ExpandedValues(r, "")
    <2>1. PICK s \in Module.resources :
              /\ a \in AddressesOf(s, Frame) /\ rss[a].cfg = <<s.name, KeyOf(s, a)>>
              /\ ExpandedValues(s, KeyOf(s, a))
      BY <1>9, EnteredOf
    <2>2. s \in config.modules[path].resources /\ r \in config.modules[path].resources
      BY <1>2 DEF Module
    <2>3. s.name = r.name
      <3>1. a.name = s.name
        BY <1>1, <1>2, <1>3, <2>1, <2>2, InstanceOf
      <3> QED BY <1>6, <3>1
    <2>4. s = r
      BY <1>1, <1>3, <2>2, <2>3, NamedOnce
    <2> QED BY <1>4, <2>1, <2>4 DEF KeyOf
  <1>11. PICK c, e : c = <<r.name, "">> /\ e = r.attributes[ref.attr]
    OBVIOUS
  <1>12. e # Null
    <2>1. \A s \in config.modules[path].resources : \A n \in DOMAIN s.attributes : s.attributes[n] # Null
      BY <1>1, <1>3, AttributesAssumption
    <2> QED BY <1>2, <1>4, <1>11, <2>1 DEF Module
  <1>13. ref.attr \in DOMAIN cfgs[c] /\ cfgs[c][ref.attr] = e
    <2>1. OwnValue(path, r, "", e, Lookup(cfgs[c], ref.attr))
      BY <1>2, <1>4, <1>10, <1>11 DEF ExpandedValues
    <2>2. Lookup(cfgs[c], ref.attr) = e
      BY <1>4, <1>11, <2>1 DEF OwnValue
    <2> QED BY <1>12, <2>2 DEF Lookup
  <1>14. Follow(v) = e
    BY <1>5, <1>6, <1>9, <1>10, <1>11, <1>13 DEF Follow
  <1> QED BY <1>2, <1>5, <1>11, <1>14

(* What replaces a value: a plain one stays, and a reference to an only    *)
(* instance becomes what it names, also alone in a list.                   *)
LEMMA ResolvePlain ==
    ASSUME NEW v, Plain(v)
    PROVE  Resolve(v) = v
  BY DEF Resolve, Plain

LEMMA ResolveReference ==
    ASSUME IInv, VInv, pc = "resolve", Findable, NEW e, NEW r \in Module.resources,
           PlainIn(Frame.path, e, r),
           NEW v, v \in {Marker(e, Frame.path), r.attributes[e.attr]}
    PROVE  Resolve(v) = r.attributes[e.attr]
  <1>1. Plain(r.attributes[e.attr])
    BY DEF PlainIn, Plain
  <1>2. Marker(e, Frame.path).kind = "marker"
    BY DEF Marker
  <1>3. Resolve(Marker(e, Frame.path)) = Follow(Marker(e, Frame.path))
    BY <1>2 DEF Resolve
  <1> QED BY <1>1, <1>3, ResolvePlain, FollowFinds

LEMMA ResolveAlone ==
    ASSUME NEW ref, NEW path, NEW e, Follow(Marker(ref, path)) = e, e # Null
    PROVE  Resolve(MarkerAlone(ref, path)).items = <<e>>
  <1>1. PICK m, items, w : m = Marker(ref, path) /\ items = <<m>> /\ w = MarkerAlone(ref, path)
    OBVIOUS
  <1>2. m.kind = "marker" /\ Follow(m) = e
    BY <1>1 DEF Marker
  <1>3. w = [kind |-> "list", items |-> items]
    BY <1>1 DEF MarkerAlone
  <1>4. w.kind = "list" /\ w.items = items
    BY <1>3
  <1>5. Resolve(w).items = ResolveList(items)
    BY <1>4 DEF Resolve
  <1>6. DOMAIN items = {1} /\ items[1] = m
    BY <1>1
  <1>7. PICK g : g = [k \in DOMAIN items |-> CASE IsString(items[k]) -> Null
                                               [] items[k].kind = "marker" -> Follow(items[k])
                                               [] OTHER -> items[k]]
    OBVIOUS
  <1>8. DOMAIN g = {1} /\ g[1] = e
    BY <1>2, <1>6, <1>7 DEF IsString
  <1>9. g = <<e>>
    <2>1. g = [k \in {1} |-> e]
      BY <1>6, <1>7, <1>8
    <2> QED BY <2>1
  <1>10. Len(g) = 1 /\ g[1] = e
    BY <1>9
  <1>11. Present(g) = <<e>>
    BY <1>10, PresentOne
  <1>12. ResolveList(items) = Present(g)
    BY <1>7 DEF ResolveList
  <1> QED BY <1>1, <1>5, <1>11, <1>12

(* Only a module that is called once has addresses without an index of its *)
(* call.                                                                   *)
LEMMA CalledOnce ==
    ASSUME NEW mcount, NoIndex \in CallIndexes(mcount)
    PROVE  mcount = 1
  <1>1. SUFFICES ASSUME mcount # 1 PROVE FALSE
    OBVIOUS
  <1>2. NoIndex \in 0..(mcount - 1)
    BY <1>1 DEF CallIndexes
  <1>3. NoIndex \in Nat
    BY <1>2
  <1> QED BY <1>3, IndexAssumption

(* No other instance shares the values of an only one. *)
LEMMA OnlyInstance ==
    ASSUME IInv, VInv, pc = "resolve", NEW a \in toResolve, a \in DOMAIN rss,
           a.call = NoIndex, a.index = NoIndex
    PROVE  Unqueried(rss[a].cfg)
  <1>1. /\ TypeOK /\ StackTypeOK /\ StackIsPath /\ config \in Configs
    BY DEF IInv, TypeOK
  <1>2. PICK f, path : f = Frame /\ path = f.path
    OBVIOUS
  <1>3. path \in DOMAIN config.modules /\ Module.resources = config.modules[path].resources
    BY <1>1, <1>2, StackIs DEF Module
  <1>4. PICK r \in Module.resources : a \in AddressesOf(r, f) /\ rss[a].cfg = <<r.name, KeyOf(r, a)>>
    BY <1>2, EnteredOf
  <1>5. SUFFICES ASSUME NEW b \in DOMAIN rss, rss[b].cfg = rss[a].cfg PROVE b = a
    BY DEF Unqueried
  <1>6. PICK s \in Module.resources : b \in AddressesOf(s, f) /\ rss[b].cfg = <<s.name, KeyOf(s, b)>>
    BY <1>2, EnteredOf
  <1>7. s.name = r.name /\ KeyOf(s, b) = KeyOf(r, a)
    BY <1>4, <1>5, <1>6
  <1>8. s = r
    BY <1>1, <1>3, <1>7, NamedOnce
  <1>9. /\ a = [path |-> path, call |-> a.call, name |-> r.name, index |-> a.index]
        /\ a.call \in CallIndexes(f.mcount)
        /\ \E key \in Convertible(r) : a.index \in Indexes(r, key)
    BY <1>1, <1>2, <1>3, <1>4, InstanceOf
  <1>10. /\ b = [path |-> path, call |-> b.call, name |-> r.name, index |-> b.index]
         /\ b.call \in CallIndexes(f.mcount)
         /\ \E key \in Convertible(r) : b.index \in Indexes(r, key)
    BY <1>1, <1>2, <1>3, <1>6, <1>8, InstanceOf
  <1>11. b.call = a.call
    <2>1. f.mcount = 1
      BY <1>9, CalledOnce
    <2> QED BY <1>9, <1>10, <2>1 DEF CallIndexes
  <1>12. b.index = a.index
    <2>1. CASE IsForEach(r)
      BY <1>7, <1>8, <2>1 DEF KeyOf
    <2>2. CASE ~IsForEach(r)
      <3>1. Convertible(r) = {""}
        BY <2>2 DEF Elements, Convertible
      <3>2. NoIndex \in Indexes(r, "") /\ b.index \in Indexes(r, "")
        BY <1>9, <1>10, <3>1
      <3>3. NoIndex \notin 0..(r.count - 1)
        <4>1. ASSUME NoIndex \in 0..(r.count - 1) PROVE NoIndex \in Nat
          BY <4>1
        <4> QED BY <4>1, IndexAssumption
      <3> QED BY <3>2, <3>3 DEF Indexes
    <2> QED BY <2>1, <2>2
  <1> QED BY <1>9, <1>10, <1>11, <1>12

(* The values of a resource are resolved as its query is made. *)
LEMMA QueryResourceVInv ==
    ASSUME IInv, VInv, QueryResource
    PROVE  VInv'
  <1>1. /\ pc = "resolve" /\ pc' = pc /\ config' = config /\ stack' = stack
        /\ toExpand' = toExpand /\ rss' = rss
    BY DEF QueryResource
  <1>2. PICK a \in toResolve :
            /\ cfgs' = [cfgs EXCEPT ![rss[a].cfg] = Resolved(cfgs[rss[a].cfg])]
            /\ queries' = queries (+) SetToBag(
                 {[address |-> a, type |-> rss[a].type, values |-> Resolved(cfgs[rss[a].cfg]),
                   provider |-> Frame.providers[rss[a].type]]})
            /\ toResolve' = toResolve \ {a}
    BY DEF QueryResource
  <1>3. /\ StackTypeOK /\ StackIsPath /\ EachOnce /\ QueriedSoFar /\ TypeOK /\ config \in Configs
        /\ PlainContexts /\ VariablesAreOwn /\ ExpandedSoFar /\ ValuesAreOwn /\ ReferencesAreFollowed
    BY DEF IInv, TypeOK, VInv
  <1>4. PICK f, path, own, values, c0 :
            /\ f = Frame /\ path = f.path /\ c0 = rss[a].cfg
            /\ own = cfgs[c0] /\ values = Resolved(own)
    OBVIOUS
  <1>5. path \in DOMAIN config.modules /\ Module.resources = config.modules[path].resources
    BY <1>3, <1>4, StackIs DEF Module
  <1>6. a \in DOMAIN rss
    BY <1>2, <1>3 DEF TypeOK
  <1>7. PICK r \in Module.resources :
            /\ a \in AddressesOf(r, f) /\ Resource(a) = r /\ KeyOf(r, a) \in Convertible(r)
            /\ c0 = <<r.name, KeyOf(r, a)>> /\ ExpandedValues(r, KeyOf(r, a))
    BY <1>1, <1>4, <1>6, EnteredOf
  <1>8. /\ a.path = path /\ a.name = r.name /\ a.call \in CallIndexes(f.mcount)
    BY <1>3, <1>4, <1>5, <1>7, InstanceOf
  <1>9. DOMAIN values = DOMAIN own /\ \A n \in DOMAIN own : values[n] = Resolve(own[n])
    BY <1>4 DEF Resolved
  <1>10. PICK key : key = KeyOf(r, a)
    OBVIOUS
  <1>11. /\ c0 \in DOMAIN cfgs /\ DOMAIN own \subseteq DOMAIN r.attributes
         /\ \A n \in DOMAIN r.attributes :
               LET e == r.attributes[n]
               IN /\ OwnValue(path, r, key, e, Lookup(own, n))
                  /\ n \in DOMAIN own =>
                        /\ e.kind \in {"base", "var", "each"} => Plain(own[n])
                        /\ ToFollow(c0, e, own[n])
    BY <1>4, <1>7, <1>10 DEF ExpandedValues
  <1>12. ASSUME NEW n \in DOMAIN r.attributes, NEW e, e = r.attributes[n],
                e.kind \in {"base", "var", "each"}
         PROVE  /\ Lookup(values, n) = Lookup(own, n)
                /\ n \in DOMAIN own => Plain(values[n])
    <2>1. n \in DOMAIN own => Plain(own[n]) /\ values[n] = Resolve(own[n])
      BY <1>9, <1>11, <1>12
    <2>2. n \in DOMAIN own => values[n] = own[n]
      BY <2>1, ResolvePlain
    <2> QED BY <1>9, <2>1, <2>2 DEF Lookup
  <1>13. ASSUME NEW n \in DOMAIN r.attributes, NEW e, e = r.attributes[n]
         PROVE  OwnValue(path, r, key, e, Lookup(values, n))
    <2>1. OwnValue(path, r, key, e, Lookup(own, n))
      BY <1>11, <1>13
    <2>2. CASE e.kind \in {"base", "var", "each"}
      BY <1>12, <1>13, <2>1, <2>2
    <2>3. CASE e.kind \notin {"base", "var", "each"}
      BY <2>3 DEF OwnValue
    <2> QED BY <2>2, <2>3
  <1>14. ASSUME NEW n \in DOMAIN own, NEW e, e = r.attributes[n], e.kind = "ref", Findable,
                NEW s \in Module.resources, PlainIn(path, e, s)
         PROVE  values[n] = s.attributes[e.attr]
    <2>1. ToFollow(c0, e, own[n])
      BY <1>11, <1>14
    <2>2. own[n] \in {Marker(e, path), s.attributes[e.attr]}
      BY <1>4, <1>14, <2>1 DEF ToFollow
    <2>3. Resolve(own[n]) = s.attributes[e.attr]
      BY <1>1, <1>4, <1>14, <2>2, ResolveReference
    <2> QED BY <1>9, <2>3
  <1>15. PICK new : new = [address |-> a, type |-> rss[a].type, values |-> values,
                           provider |-> Frame.providers[rss[a].type]]
    OBVIOUS
  <1>16. new.address = a /\ new.values = values
    BY <1>15
  <1>17. BagToSet(queries') = BagToSet(queries) \cup {new}
    <2>1. queries' = queries (+) SetToBag({new})
      BY <1>2, <1>4, <1>15
    <2> QED BY <2>1 DEF (+), SetToBag, BagToSet
  <1>18. ValuesAreOwn'
    <2>1. ASSUME NEW n \in DOMAIN r.attributes
          PROVE  OwnValue(a.path, r, a.index, r.attributes[n], Lookup(values, n))
      <3>1. OwnValue(path, r, key, r.attributes[n], Lookup(values, n))
        BY <1>13
      <3>2. IsForEach(r) => key = a.index
        BY <1>10 DEF KeyOf
      <3> QED BY <1>8, <3>1, <3>2 DEF OwnValue
    <2>2. ASSUME NEW q \in BagToSet(queries) \cup {new}, NEW n \in DOMAIN Resource(q.address).attributes
          PROVE  OwnValue(q.address.path, Resource(q.address), q.address.index,
                          Resource(q.address).attributes[n], Lookup(q.values, n))
      <3>1. CASE q = new
        BY <1>7, <1>16, <2>1, <2>2, <3>1
      <3>2. CASE q \in BagToSet(queries)
        BY <1>3, <2>2, <3>2 DEF ValuesAreOwn
      <3> QED BY <3>1, <3>2
    <2>3. \A b : Resource(b)' = Resource(b)
      BY <1>1, SameSources
    <2>4. \A p, t, k, e, v : OwnValue(p, t, k, e, v)' <=> OwnValue(p, t, k, e, v)
      BY <1>1, SameSources
    <2> QED BY <1>17, <2>2, <2>3, <2>4 DEF ValuesAreOwn, BagToSet
  <1>19. ReferencesAreFollowed'
    <2>1. ASSUME NEW n \in DOMAIN values, a.path # <<>>, a.call = NoIndex,
                 NEW e, e = r.attributes[n]
          PROVE  FollowedIn(a.path, a.index = NoIndex, e, values[n])
      <3>1. Findable
        <4>1. f.mcount = 1
          BY <1>8, <2>1, CalledOnce
        <4> QED BY <1>4, <1>8, <2>1, <4>1 DEF Findable
      <3>2. n \in DOMAIN own /\ n \in DOMAIN r.attributes
        BY <1>9, <1>11
      <3>3. SUFFICES ASSUME NEW s \in Module.resources
                     PROVE  /\ (e.kind = "ref" /\ PlainIn(path, e, s)) => values[n] = s.attributes[e.attr]
                            /\ (ListOfReference(e) /\ a.index = NoIndex /\ PlainIn(path, e.items[1], s)) =>
                                  values[n].items = <<s.attributes[e.items[1].attr]>>
        BY <1>5, <1>8 DEF FollowedIn
      <3>4. (e.kind = "ref" /\ PlainIn(path, e, s)) => values[n] = s.attributes[e.attr]
        BY <1>14, <2>1, <3>1, <3>2
      <3>5. ASSUME ListOfReference(e), a.index = NoIndex, PlainIn(path, e.items[1], s)
            PROVE  values[n].items = <<s.attributes[e.items[1].attr]>>
        <4>1. Unqueried(c0)
          BY <1>1, <1>4, <1>6, <2>1, <3>5, OnlyInstance
        <4>2. ToFollow(c0, e, own[n])
          BY <1>11, <2>1, <3>2
        <4>3. own[n] = MarkerAlone(e.items[1], path)
          BY <1>4, <3>5, <4>1, <4>2 DEF ToFollow
        <4>4. PICK ref, w : ref = e.items[1] /\ w = s.attributes[ref.attr]
          OBVIOUS
        <4>5. PlainIn(Frame.path, ref, s)
          BY <1>4, <3>5, <4>4
        <4>6. Follow(Marker(ref, path)) = w
          BY <1>1, <1>4, <3>1, <4>4, <4>5, FollowFinds
        <4>7. w # Null
          <5>1. ref.attr \in DOMAIN s.attributes
            BY <4>5 DEF PlainIn
          <5>2. \A t \in config.modules[path].resources : \A m \in DOMAIN t.attributes : t.attributes[m] # Null
            BY <1>3, <1>5, AttributesAssumption
          <5> QED BY <1>5, <4>4, <5>1, <5>2
        <4>8. Resolve(MarkerAlone(ref, path)).items = <<w>>
          BY <4>6, <4>7, ResolveAlone
        <4>9. values[n].items = <<w>>
          BY <1>9, <3>2, <4>3, <4>4, <4>8
        <4> QED BY <4>4, <4>9
      <3> QED BY <3>4, <3>5
    <2>2. ASSUME NEW q \in BagToSet(queries) \cup {new}, NEW n \in DOMAIN q.values,
                 q.address.path # <<>>, q.address.call = NoIndex
          PROVE  FollowedIn(q.address.path, q.address.index = NoIndex,
                            Resource(q.address).attributes[n], q.values[n])
      <3>1. CASE q = new
        BY <1>7, <1>16, <2>1, <2>2, <3>1
      <3>2. CASE q \in BagToSet(queries)
        BY <1>3, <2>2, <3>2 DEF ReferencesAreFollowed
      <3> QED BY <3>1, <3>2
    <2>3. \A b : Resource(b)' = Resource(b)
      BY <1>1, SameSources
    <2>4. \A p, alone, e, v : FollowedIn(p, alone, e, v)' <=> FollowedIn(p, alone, e, v)
      BY <1>1, SameSources
    <2> QED BY <1>17, <2>2, <2>3, <2>4 DEF ReferencesAreFollowed, BagToSet
  <1>20. PlainContexts'
    BY <1>1, <1>3 DEF PlainContexts, PlainVariables, Plain
  <1>21. VariablesAreOwn'
    <2>1. \A g \in Range(stack) : HasItsVariables(g)'
      BY <1>1, <1>3, SameSources DEF VariablesAreOwn
    <2> QED BY <1>1, <1>3, <2>1 DEF VariablesAreOwn, Frame, Module
  <1>22. cfgs' = [cfgs EXCEPT ![c0] = values]
    BY <1>2, <1>4
  <1>23. ~Unqueried(c0)'
    BY <1>1, <1>2, <1>4, <1>6 DEF Unqueried
  <1>24. ASSUME NEW s \in Module.resources \ toExpand, NEW k \in Convertible(s)
         PROVE  ExpandedValues(s, k)'
    <2>1. PICK c : c = <<s.name, k>>
      OBVIOUS
    <2>2. ExpandedValues(s, k)
      BY <1>1, <1>3, <1>24 DEF ExpandedSoFar
    <2>3. CASE c # c0
      <3>1. c \in DOMAIN cfgs' /\ cfgs'[c] = cfgs[c]
        BY <1>22, <2>1, <2>2, <2>3 DEF ExpandedValues
      <3>2. Unqueried(c)' => Unqueried(c)
        BY <1>1, <1>2 DEF Unqueried
      <3>3. ASSUME NEW e, NEW v, ToFollow(c, e, v) PROVE ToFollow(c, e, v)'
        BY <1>1, <3>2, <3>3, SameSources DEF ToFollow, Findable, Module, Frame
      <3> QED BY <1>1, <2>1, <2>2, <3>1, <3>3, SameSources DEF ExpandedValues, Frame
    <2>4. CASE c = c0
      <3>1. s.name = r.name /\ k = key
        BY <1>7, <1>10, <2>1, <2>4
      <3>2. s = r
        BY <1>3, <1>5, <3>1, NamedOnce
      <3>3. c0 \in DOMAIN cfgs' /\ cfgs'[c0] = values
        BY <1>11, <1>22
      <3>4. ASSUME NEW n \in DOMAIN own, NEW e, e = r.attributes[n] PROVE ToFollow(c0, e, values[n])'
        <4>1. \A t \in Module.resources :
                 (Findable /\ e.kind = "ref" /\ PlainIn(path, e, t)) => values[n] = t.attributes[e.attr]
          BY <1>14, <3>4
        <4> QED BY <1>1, <1>4, <1>23, <4>1, SameSources DEF ToFollow, Findable, Module, Frame
      <3>5. \A n \in DOMAIN r.attributes :
              LET e == r.attributes[n]
              IN /\ OwnValue(path, r, key, e, Lookup(values, n))'
                 /\ n \in DOMAIN values =>
                       /\ e.kind \in {"base", "var", "each"} => Plain(values[n])
                       /\ ToFollow(c0, e, values[n])'
        <4>1. \A n \in DOMAIN r.attributes :
                 OwnValue(path, r, key, r.attributes[n], Lookup(values, n))'
          BY <1>1, <1>13, SameSources
        <4>2. \A n \in DOMAIN r.attributes :
                 n \in DOMAIN values /\ r.attributes[n].kind \in {"base", "var", "each"} => Plain(values[n])
          BY <1>9, <1>12
        <4>3. \A n \in DOMAIN values : ToFollow(c0, r.attributes[n], values[n])'
          BY <1>9, <3>4
        <4> QED BY <4>1, <4>2, <4>3
      <3>6. DOMAIN values \subseteq DOMAIN r.attributes
        BY <1>9, <1>11
      <3>7. Frame'.path = path
        BY <1>1, <1>4 DEF Frame
      <3>8. ExpandedValues(r, key)'
        BY <1>7, <1>10, <3>3, <3>5, <3>6, <3>7 DEF ExpandedValues
      <3> QED BY <3>1, <3>2, <3>8 DEF ExpandedValues
    <2> QED BY <2>3, <2>4
  <1>25. ExpandedSoFar'
    BY <1>1, <1>3, <1>24 DEF ExpandedSoFar, Module, Frame
  <1> QED BY <1>18, <1>19, <1>20, <1>21, <1>25 DEF VInv

LEMMA ModuleReturnsVInv ==
    ASSUME IInv, VInv, ModuleReturns
    PROVE  VInv'
  <1>1. /\ pc = "children" /\ config' = config /\ queries' = queries
        /\ IF Len(stack) > 1 THEN stack' = Front(stack) /\ pc' = pc
           ELSE stack' = stack /\ pc' \in {"done", "failed"}
    BY DEF ModuleReturns
  <1>2. ASSUME NEW f \in Range(stack') PROVE f \in Range(stack)
    <2>1. CASE Len(stack) > 1
      <3>1. /\ Len(stack) \in Nat /\ DOMAIN stack = 1..Len(stack) /\ stack \in Seq(Range(stack))
        BY StackIs DEF IInv, TypeOK, StackIsPath
      <3>2. PICK n, s, t : n = Len(stack) - 1 /\ s = stack /\ t = SubSeq(s, 1, n)
        OBVIOUS
      <3>3. n \in 0..Len(s) /\ s \in Seq(Range(s)) /\ n < Len(s)
        BY <2>1, <3>1, <3>2
      <3>4. t \in Seq(Range(s)) /\ Len(t) = n /\ \A k \in 1..n : t[k] = s[k]
        BY ONLY <3>2, <3>3, Shortened
      <3>5. DOMAIN t = 1..n
        BY <3>4, LenProperties
      <3>6. stack' = t
        BY <1>1, <2>1, <3>2 DEF Front
      <3>7. PICK k \in DOMAIN stack' : f = stack'[k]
        BY <1>2 DEF Range
      <3>8. k \in 1..n /\ k \in DOMAIN stack /\ f = stack[k]
        BY <3>1, <3>2, <3>3, <3>4, <3>5, <3>6, <3>7
      <3> QED BY <3>8 DEF Range
    <2>2. CASE ~(Len(stack) > 1)
      BY <1>1, <1>2, <2>2 DEF Range
    <2> QED BY <2>1, <2>2
  <1>3. pc' \notin {"expand", "resolve"}
    BY <1>1
  <1> QED BY <1>1, <1>2, <1>3, ThroughVInv

(* A child has the variables its call gives it, and its caller keeps its   *)
(* own unless the names of arguments cross.                                *)
LEMMA CallChildVInv ==
    ASSUME IInv, VInv, CallChild
    PROVE  VInv'
  <1>1. /\ pc = "children" /\ pc' = "expand" /\ config' = config
        /\ DOMAIN rss' = {} /\ queries' = queries
    BY DEF CallChild, EmptyFunction
  <1>2. PICK c \in Frame.toCall : \E order \in SetToSeqs(DOMAIN Module.calls[c].arguments) :
            LET s == Arguments(Module.calls[c].arguments, order, Frame)
                path == Append(Frame.path, c)
                var == Completed(s.args, config.modules[path].variables)
            IN /\ ~s.panics
               /\ stack' = Append([stack EXCEPT ![Len(stack)] =
                                     [Frame EXCEPT !.var = s.var, !.each = s.each, !.toCall = @ \ {c}]],
                             [path |-> path, mcount |-> CallCount(Module.calls[c], var),
                              providers |-> ChildProviders(Module.calls[c], Frame.providers),
                              var |-> var, each |-> Null, toCall |-> DOMAIN config.modules[path].calls])
               /\ toExpand' = config.modules[path].resources
    BY DEF CallChild
  <1>3. PICK f, path, child, call, arguments, n :
            /\ f = Frame /\ path = f.path /\ child = Append(path, c)
            /\ call = config.modules[path].calls[c] /\ arguments = call.arguments /\ n = Len(stack)
    OBVIOUS
  <1>4. PICK order \in SetToSeqs(DOMAIN arguments) :
            LET s == Arguments(arguments, order, f)
                var == Completed(s.args, config.modules[child].variables)
            IN /\ ~s.panics
               /\ stack' = Append([stack EXCEPT ![n] =
                                     [f EXCEPT !.var = s.var, !.each = s.each, !.toCall = @ \ {c}]],
                             [path |-> child, mcount |-> CallCount(call, var),
                              providers |-> ChildProviders(call, f.providers),
                              var |-> var, each |-> Null, toCall |-> DOMAIN config.modules[child].calls])
               /\ toExpand' = config.modules[child].resources
    BY <1>2, <1>3 DEF Module
  <1>5. PICK s, var : /\ s = Arguments(arguments, order, f)
                      /\ var = Completed(s.args, config.modules[child].variables)
    OBVIOUS
  <1>6. PICK top, new :
            /\ top = [f EXCEPT !.var = s.var, !.each = s.each, !.toCall = @ \ {c}]
            /\ new = [path |-> child, mcount |-> CallCount(call, var),
                      providers |-> ChildProviders(call, f.providers),
                      var |-> var, each |-> Null, toCall |-> DOMAIN config.modules[child].calls]
    OBVIOUS
  <1>7. /\ stack' = Append([stack EXCEPT ![n] = top], new) /\ toExpand' = config.modules[child].resources
        /\ s.panics # TRUE
    BY <1>4, <1>5, <1>6
  <1>8. /\ TypeOK /\ StackTypeOK /\ StackIsPath /\ config \in Configs
        /\ PlainContexts /\ VariablesAreOwn
    BY DEF IInv, TypeOK, VInv
  <1>9. /\ n \in Nat /\ n > 0 /\ DOMAIN stack = 1..n /\ n \in 1..n
        /\ \A k \in 1..n : stack[k] \in Range(stack)
        /\ path \in DOMAIN config.modules /\ stack[n] = f /\ f \in Range(stack)
    BY <1>3, <1>8, StackIs DEF Frame
  <1>10. DOMAIN f = {"path", "providers", "mcount", "var", "each", "toCall"}
    BY <1>8, <1>9 DEF StackTypeOK
  <1>11. /\ c \in f.toCall /\ c \in DOMAIN config.modules[path].calls
         /\ child \in DOMAIN config.modules /\ call \in Range(config.modules[path].calls)
    <2>1. c \in f.toCall /\ c \in DOMAIN config.modules[path].calls
      BY <1>2, <1>3, <1>8, <1>9 DEF StackTypeOK
    <2> QED BY <1>3, <1>8, <1>9, <2>1, PathsAreClosed DEF Range
  <1>12. /\ top.path = path /\ top.var = s.var /\ top.each = s.each /\ top.toCall = f.toCall \ {c}
    BY <1>3, <1>6, <1>10
  <1>13. /\ new.path = child /\ new.var = var /\ new.each = Null
         /\ new.toCall = DOMAIN config.modules[child].calls
    BY <1>6
  <1>14. /\ \A g \in Range(stack') : g = new \/ g = top \/ g \in Range(stack)
         /\ Frame' = new
    <2>1. PICK S : S = Range(stack) \cup {top, new}
      OBVIOUS
    <2>2. stack \in Seq(S)
      BY <1>8, <2>1, SeqDef DEF StackIsPath
    <2>3. PICK u, t : u = [stack EXCEPT ![n] = top] /\ t = Append(u, new)
      OBVIOUS
    <2>4. /\ u \in Seq(S) /\ Len(u) = n
          /\ \A k \in 1..n : u[k] = IF k = n THEN top ELSE stack[k]
      BY <1>3, <1>9, <2>1, <2>2, <2>3, ExceptSeq
    <2>5. /\ t \in Seq(S) /\ Len(t) = n + 1 /\ t[n + 1] = new
      BY <2>1, <2>3, <2>4, AppendProperties
    <2>6. \A k \in 1..n : t[k] = u[k]
      BY <2>1, <2>3, <2>4, AppendProperties
    <2>7. DOMAIN t = 1..(n + 1) /\ stack' = t
      BY <1>7, <2>3, <2>5, LenProperties
    <2>8. Frame' = new
      BY <2>5, <2>7 DEF Frame
    <2>9. ASSUME NEW g \in Range(stack') PROVE g = new \/ g = top \/ g \in Range(stack)
      <3>1. PICK k \in 1..(n + 1) : g = t[k]
        BY <2>7, <2>9 DEF Range
      <3>2. CASE k = n + 1
        BY <2>5, <3>1, <3>2
      <3>3. CASE k \in 1..n
        BY <1>9, <2>4, <2>6, <3>1, <3>3
      <3> QED BY <1>9, <3>2, <3>3
    <2> QED BY <2>8, <2>9
  <1>15. PlainVariables(f.var) /\ (f.each # Null => Plain(f.each)) /\ HasItsVariables(f)
    BY <1>8, <1>9 DEF PlainContexts, VariablesAreOwn
  <1>16. /\ IsFiniteSet(DOMAIN arguments)
         /\ \A x \in DOMAIN arguments : arguments[x].kind \in {"base", "var", "each", "ref"}
         /\ PlainVariables(config.modules[child].variables)
    BY <1>3, <1>8, <1>9, <1>11, SourcesArePlain
  <1>17. PICK m : m = Len(order)
    OBVIOUS
  <1>18. /\ m \in Nat /\ \A k \in 1..m : order[k] \in DOMAIN arguments
         /\ \A x \in DOMAIN arguments : \E k \in 1..m : order[k] = x
    BY <1>16, <1>17, OrderOfElements
  <1>19. PlainVariables(s.var) /\ PlainVariables(s.args) /\ (s.each # Null => Plain(s.each))
    BY <1>5, <1>15, <1>16, <1>17, <1>18, ArgumentsPlain
  <1>20. PlainVariables(var)
    BY <1>5, <1>16, <1>19 DEF PlainVariables, Completed
  <1>21. PlainContexts'
    <2>1. ASSUME NEW g \in Range(stack') PROVE PlainVariables(g.var) /\ (g.each # Null => Plain(g.each))
      BY <1>8, <1>12, <1>13, <1>14, <1>15, <1>19, <1>20, <2>1 DEF PlainContexts
    <2> QED BY <2>1 DEF PlainContexts, Range
  <1>22. ASSUME Uncrossed(path), \A d \in Range(config.modules[path].calls) : NotCrossed(d)
         PROVE  f.var = Variables(path) /\ s.var = f.var /\ s.args = AsGiven(arguments, f.var)
    <2>1. f.var = Variables(path)
      BY <1>3, <1>15, <1>22 DEF HasItsVariables
    <2>2. NotCrossed(call)
      BY <1>11, <1>22
    <2>3. /\ Arguments(arguments, order, f).var = f.var
          /\ Arguments(arguments, order, f).args = AsGiven(arguments, f.var)
      <3>1. arguments = call.arguments /\ PlainVariables(f.var) /\ m \in Nat /\ Len(order) = m
        BY <1>3, <1>15, <1>17, <1>18
      <3>2. ~Panicked(Arguments(arguments, order, f))
        BY <1>5, <1>7 DEF Panicked
      <3> QED BY ONLY <1>18, <2>2, <3>1, <3>2, ArgumentsUncrossed
    <2> QED BY <1>5, <2>1, <2>3
  <1>23. HasItsVariables(top)
    <2>1. top.toCall # DOMAIN config.modules[path].calls
      BY <1>11, <1>12
    <2>2. SUFFICES ASSUME Uncrossed(path), \A d \in Range(config.modules[path].calls) : NotCrossed(d)
                   PROVE  top.var = Variables(path)
      BY <1>12, <2>1 DEF HasItsVariables
    <2> QED BY <1>12, <1>22, <2>2
  <1>24. HasItsVariables(new)
    <2>1. SUFFICES ASSUME Uncrossed(child) PROVE var = Variables(child)
      BY <1>13 DEF HasItsVariables
    <2>2. Uncrossed(path) /\ \A d \in Range(config.modules[path].calls) : NotCrossed(d)
      BY <1>3, <1>8, <1>9, <1>11, <2>1, UncrossedNext
    <2>3. s.args = AsGiven(arguments, Variables(path))
      BY <1>22, <2>2
    <2>4. Variables(child) = Completed(AsGiven(arguments, Variables(path)), config.modules[child].variables)
      BY <1>3, <1>8, <1>9, <1>11, VariablesNext
    <2> QED BY <1>5, <2>3, <2>4
  <1>25. VariablesAreOwn'
    <2>1. ASSUME NEW g \in Range(stack') PROVE HasItsVariables(g)'
      <3>1. HasItsVariables(g)
        BY <1>8, <1>14, <1>23, <1>24, <2>1 DEF VariablesAreOwn
      <3> QED BY <1>1, <3>1, SameSources
    <2>2. Frame'.toCall = DOMAIN Module'.calls
      BY <1>1, <1>13, <1>14 DEF Module
    <2> QED BY <2>1, <2>2 DEF VariablesAreOwn, Range
  <1>26. ExpandedSoFar'
    <2>1. Module'.resources \ toExpand' = {}
      BY <1>1, <1>7, <1>13, <1>14 DEF Module
    <2> QED BY <1>1, <2>1 DEF ExpandedSoFar
  <1>27. ValuesAreOwn' /\ ReferencesAreFollowed'
    BY <1>1, ValuesKept DEF VInv
  <1> QED BY <1>21, <1>25, <1>26, <1>27 DEF VInv

LEMMA NextVInv ==
    ASSUME IInv, VInv, [Next]_vars
    PROVE  VInv'
  <1>1. CASE ExpandResource
    BY <1>1, ExpandResourceVInv
  <1>2. CASE Expanded
    BY <1>2, ExpandedVInv
  <1>3. CASE QueryResource
    BY <1>3, QueryResourceVInv
  <1>4. ASSUME UNCHANGED <<config, stack, queries>>, pc' \notin {"expand", "resolve"} PROVE VInv'
    <2>1. \A f \in Range(stack') : f \in Range(stack)
      BY <1>4 DEF Range
    <2> QED BY <1>4, <2>1, ThroughVInv
  <1>5. CASE NilProvider
    BY <1>4, <1>5 DEF NilProvider
  <1>6. CASE ModuleQueried
    BY <1>4, <1>6 DEF ModuleQueried
  <1>7. CASE CallFails
    BY <1>4, <1>7 DEF CallFails
  <1>8. CASE CallChild
    BY <1>8, CallChildVInv
  <1>9. CASE ModuleReturns
    BY <1>9, ModuleReturnsVInv
  <1>10. CASE Finished
    BY <1>10, StutterVInv DEF Finished
  <1>11. CASE CallPanics
    BY <1>4, <1>11 DEF CallPanics
  <1>12. CASE UNCHANGED vars
    BY <1>12, StutterVInv
  <1> QED BY <1>1, <1>2, <1>3, <1>5, <1>6, <1>7, <1>8, <1>9, <1>10, <1>11, <1>12 DEF Next

LEMMA AlwaysVInv == Spec => []VInv
  <1>1. Init => IInv /\ VInv
    BY InitIInv, InitVInv
  <1>2. (IInv /\ VInv) /\ [Next]_vars => (IInv /\ VInv)'
    BY NextIInv, NextVInv
  <1> QED BY <1>1, <1>2, PTL DEF Spec

-----------------------------------------------------------------------------
(* The state of extractHCLModule is well formed: what it expands and has   *)
(* still to resolve is of the module at hand, and the map of resources and *)
(* the calls still to be made are those of the frame they belong to.       *)
THEOREM TypeCorrect == Spec => []TypeOK
  <1>1. IInv => TypeOK
    BY DEF IInv
  <1> QED BY <1>1, AlwaysIInv, PTL

(* A resource without a provider of its own is priced with the provider    *)
(* that the calls on the way to its module hand down (hcl.go, the          *)
(* `providers` of a module call), in whatever order modules are walked.    *)
THEOREM HandsProvidersDown == Spec => []ProvidersAreHandedDown
  <1>1. IInv => ProvidersAreHandedDown
    BY DEF IInv, EachOnce, ProvidersAreHandedDown, BagToSet
  <1> QED BY <1>1, AlwaysIInv, PTL

(* Once ExtractQueriesFromHCL is done there is exactly one query for each  *)
(* instance of each resource whose provider is known, of every module      *)
(* whose count is a constant, and no other.                                *)
THEOREM MatchesConfiguration == Spec => []InstancesMatchConfiguration
  <1>1. ASSUME IInv, pc = "done"
        PROVE  LET ours == {p \in DOMAIN config.modules : ConstantCount(p)}
                   expected == UNION {Instances(p) : p \in ours}
                   made == {q \in BagToSet(queries) : q.address.path \in ours}
               IN /\ {q.address : q \in made} = expected
                  /\ Cardinality(made) = Cardinality(expected)
                  /\ \A q \in made : queries[q] = 1
    <2>1. PICK ours : ours = {p \in DOMAIN config.modules : ConstantCount(p)}
      OBVIOUS
    <2>2. PICK made : made = {q \in DOMAIN queries : q.address.path \in ours}
      OBVIOUS
    <2>3. PICK addresses : addresses = {q.address : q \in made}
      OBVIOUS
    <2>4. Len(stack) = 1 /\ Frame.toCall = {} /\ StackIsPath /\ EachOnce /\ QueriedSoFar
      BY <1>1 DEF IInv, QueriedSoFar
    <2>5. \A p : ~Waits(p) /\ ~AtHand(p)
      <3>1. \A k \in 1..Len(stack) : stack[k].toCall = {}
        BY <2>4 DEF Frame
      <3> QED BY <1>1, <3>1 DEF Waits, AtHand
    <2>6. \A p \in ours : QueriedIn(p) = Instances(p)
      BY <1>1, <2>1, <2>4, <2>5 DEF QueriedSoFar
    <2>7. addresses = UNION {Instances(p) : p \in ours}
      <3>1. ASSUME NEW a \in addresses PROVE \E p \in ours : a \in Instances(p)
        <4>1. PICK q \in made : a = q.address
          BY <2>3, <3>1
        <4>2. a \in QueriedIn(a.path) /\ a.path \in ours
          BY <2>2, <4>1 DEF QueriedIn
        <4> QED BY <2>6, <4>2
      <3>2. ASSUME NEW p \in ours, NEW a \in Instances(p) PROVE a \in addresses
        <4>1. a \in QueriedIn(p)
          BY <2>6, <3>2
        <4>2. PICK q \in DOMAIN queries : a = q.address /\ q.address.path = p
          BY <4>1 DEF QueriedIn
        <4> QED BY <2>2, <2>3, <3>2, <4>2
      <3> QED BY <3>1, <3>2
    <2>8. Cardinality(made) = Cardinality(addresses)
      <3>1. IsFiniteSet(made)
        BY <2>2, <2>4, FS_Subset DEF EachOnce
      <3>2. PICK f : f = [q \in made |-> q.address]
        OBVIOUS
      <3>3. f \in Bijection(made, addresses)
        <4>1. \A q, s \in made : q.address = s.address => q = s
          BY <2>2, <2>4 DEF EachOnce
        <4>2. f \in [made -> addresses] /\ \A q \in made : f[q] = q.address
          BY <2>3, <3>2
        <4>3. f \in Injection(made, addresses)
          BY <4>1, <4>2 DEF Injection, IsInjective
        <4>4. f \in Surjection(made, addresses)
          BY <2>3, <4>2 DEF Surjection
        <4> QED BY <4>3, <4>4 DEF Bijection
      <3>4. ExistsBijection(made, addresses)
        BY <3>3 DEF ExistsBijection
      <3> QED BY <3>1, <3>4, FS_Bijection
    <2>9. \A q \in made : queries[q] = 1
      BY <2>2, <2>4 DEF EachOnce
    <2> QED BY <2>1, <2>2, <2>3, <2>7, <2>8, <2>9 DEF BagToSet
  <1>2. IInv => InstancesMatchConfiguration
    BY <1>1 DEF InstancesMatchConfiguration
  <1> QED BY <1>2, AlwaysIInv, PTL

(* The attributes of a query are those of its own module, call and element *)
(* of for_each, although all elements of a module share one `each` and the *)
(* evaluation of a call changes the context of its caller (hcl.go,         *)
(* extractHCLModule), in whatever order Go's maps are gone through: a      *)
(* variable given as null is null whatever its default, and each.value of  *)
(* a scalar is that scalar under its key.                                  *)
THEOREM ValuesOwn == Spec => []ValuesAreOwn
  <1>1. VInv => ValuesAreOwn
    BY DEF VInv
  <1> QED BY <1>1, AlwaysVInv, PTL

(* A reference to a plain attribute of an only instance has become that    *)
(* attribute in every query of a module that is called once, whichever of  *)
(* the two resources came first (hcl.go, the references between the        *)
(* resources of a module).                                                 *)
THEOREM FollowsReferences == Spec => []ReferencesAreFollowed
  <1>1. VInv => ReferencesAreFollowed
    BY DEF VInv
  <1> QED BY <1>1, AlwaysVInv, PTL
=============================================================================
