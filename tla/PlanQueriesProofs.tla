------------------------- MODULE PlanQueriesProofs -------------------------
(***************************************************************************)
(* Proofs about PlanQueries: in whatever order the maps and modules are    *)
(* walked, the queries of a state are those of its managed resources that  *)
(* are configured with a known provider.                                   *)
(***************************************************************************)
EXTENDS PlanQueries, FiniteSetTheorems, SequenceTheorems, TLAPS

LEMMA CompletedIs ==
    ASSUME NEW f, NEW g
    PROVE  /\ DOMAIN Completed(f, g) = DOMAIN f \cup DOMAIN g
           /\ \A x \in DOMAIN f : Completed(f, g)[x] = f[x]
           /\ \A x \in DOMAIN g : x \notin DOMAIN f => Completed(f, g)[x] = g[x]
  BY DEF Completed

(* The plan does not change, and neither does what is made from it. *)
LEMMA SamePlan ==
    ASSUME plan' = plan
    PROVE  /\ MatchedKeys' = MatchedKeys /\ Providers' = Providers /\ (BadProvider' <=> BadProvider)
           /\ \A p : Ours(p)' = Ours(p)
           /\ \A p : Children(p)' = Children(p)
           /\ \A a : Configuring(a)' = Configuring(a) /\ ConfiguredValues(a)' = ConfiguredValues(a)
           /\ \A m : Wanted(m)' = Wanted(m) /\ Merged(m)' = Merged(m)
           /\ \A part : PartOf(part)' = PartOf(part)
<1>1. \A e : ProviderRegion(e)' = ProviderRegion(e) BY DEF ProviderRegion
<1>2. MatchedKeys' = MatchedKeys BY DEF MatchedKeys
<1>3. Providers' = Providers BY <1>1, <1>2 DEF Providers
<1>4. BadProvider' <=> BadProvider BY <1>1, <1>2 DEF BadProvider
<1>5. \A p : Ours(p)' = Ours(p) /\ Children(p)' = Children(p) BY <1>2 DEF Ours, Children
<1>6. \A a : Configuring(a)' = Configuring(a) BY <1>2 DEF Configuring
<1>7. \A a : ConfiguredValues(a)' = ConfiguredValues(a) BY <1>6 DEF ConfiguredValues
<1>8. \A m : Wanted(m)' = Wanted(m) BY <1>6 DEF Wanted
<1>9. \A m : Merged(m)' = Merged(m) BY <1>7, <1>8 DEF Merged
<1>10. \A part : PartOf(part)' = PartOf(part) BY DEF PartOf
<1> QED BY <1>2, <1>3, <1>4, <1>5, <1>6, <1>7, <1>8, <1>9, <1>10

LEMMA SameQueries ==
    ASSUME plan' = plan
    PROVE  \A part, n, w, qs : QueriesOf(part, n, w, qs)' <=> QueriesOf(part, n, w, qs)
<1>1. \A part, n : WantedOf(part, n)' = WantedOf(part, n) BY SamePlan DEF WantedOf
<1>2. \A part, n, q : QueryOf(part, n, q)' <=> QueryOf(part, n, q)
  BY DEF QueryOf, Configuring, Providers, Merged, Wanted, ConfiguredValues, PartOf,
         MatchedKeys, ProviderRegion
<1> QED BY <1>1, <1>2 DEF QueriesOf

LEMMA SameQueried ==
    ASSUME plan' = plan, NEW part, queries'[part] = queries[part]
    PROVE  \A n, w : Queried(part, n, w)' <=> Queried(part, n, w)
<1>1. PICK qs : qs = queries[part] OBVIOUS
<1> QED BY <1>1, SameQueries DEF Queried

(* Without modules there are no queries. *)
LEMMA NothingQueried ==
    ASSUME NEW part, queries[part] = <<>>
    PROVE  Queried(part, 0, {})
<1>1. Len(<<>>) = 0 /\ 1..0 = {} OBVIOUS
<1>2. WantedOf(part, 0) = {} BY <1>1 DEF WantedOf
<1>3. {<<>>[i].address : i \in 1..Len(<<>>)} = {} BY <1>1
<1>4. QueriesOf(part, 0, {}, <<>>) BY <1>1, <1>2, <1>3 DEF QueriesOf
<1> QED BY <1>4 DEF Queried

(* The configured resource of an address is one of its module. *)
LEMMA ConfiguringIs ==
    ASSUME plan \in Plans, NEW a
    PROVE  /\ \A c : c \in Configuring(a) <=>
                 /\ Calls(a.path) \in DOMAIN plan.modules
                 /\ c \in Ours(Calls(a.path)) /\ c.name = a.name
           /\ \A c, d \in Configuring(a) : c = d
           /\ \A c \in Configuring(a) : ProviderKey(c) \in MatchedKeys /\ c = CHOOSE d \in Configuring(a) : TRUE
<1>1. \A c : c \in Configuring(a) <=>
         /\ Calls(a.path) \in DOMAIN plan.modules
         /\ c \in Ours(Calls(a.path)) /\ c.name = a.name
  BY DEF Configuring, Ours
<1>2. \A c, d \in Configuring(a) : c = d
  <2>1. SUFFICES ASSUME NEW c \in Configuring(a), NEW d \in Configuring(a) PROVE c = d OBVIOUS
  <2>2. PICK p : p = Calls(a.path) OBVIOUS
  <2>3. /\ p \in DOMAIN plan.modules /\ c \in plan.modules[p].resources /\ d \in plan.modules[p].resources
        /\ c.name = d.name
    BY <1>1, <2>2 DEF Ours
  <2> QED BY <2>3, PlansAssumption
<1>3. \A c \in Configuring(a) : ProviderKey(c) \in MatchedKeys BY DEF Configuring
<1>4. ASSUME NEW c \in Configuring(a) PROVE c = CHOOSE d \in Configuring(a) : TRUE
  <2>1. (CHOOSE d \in Configuring(a) : TRUE) \in Configuring(a) OBVIOUS
  <2> QED BY <1>2, <2>1
<1> QED BY <1>1, <1>2, <1>3, <1>4

(* A part of the plan and its modules. *)
LEMMA PartIs ==
    ASSUME plan \in Plans, NEW part \in Parts
    PROVE  LET s == PartOf(part) IN
           /\ s \in Seq(Range(s)) /\ Len(s) \in Nat
           /\ \A i, j \in 1..Len(s) : s[i].path = s[j].path => i = j
           /\ \A i \in 1..Len(s) : s[i] \in Range(s) /\
                 \A r1, r2 \in s[i].resources : r1.name = r2.name /\ r1.index = r2.index => r1 = r2
<1>1. CASE plan[part] = Null
  <2>1. PartOf(part) = <<>> BY <1>1 DEF PartOf
  <2>2. <<>> \in Seq(Range(<<>>)) /\ Len(<<>>) = 0 /\ 1..0 = {} OBVIOUS
  <2> QED BY <2>1, <2>2
<1>2. CASE plan[part] # Null
  <2>1. PICK s : s = PartOf(part) OBVIOUS
  <2>2. s \in {plan.prior, plan.planned} \ {Null} BY <1>2, <2>1 DEF PartOf, Parts
  <2>3. /\ s \in Seq(Range(s))
        /\ \A i, j \in 1..Len(s) : s[i].path = s[j].path => i = j
        /\ \A m \in Range(s) : \A r1, r2 \in m.resources : r1.name = r2.name /\ r1.index = r2.index => r1 = r2
    BY <2>2, PlansAssumption
  <2>4. Len(s) \in Nat /\ \A i \in 1..Len(s) : s[i] \in Range(s) BY <2>3 DEF Range
  <2> QED BY <2>1, <2>3, <2>4
<1> QED BY <1>1, <1>2

(* The addresses wanted of a module are of its path, and each is of one of *)
(* its resources.                                                          *)
LEMMA WantedIs ==
    ASSUME NEW m
    PROVE  \A a : a \in Wanted(m) <=>
              \E r \in m.resources : r.managed /\ a = Address(m, r) /\ Configuring(a) # {}
  BY DEF Wanted

(* Modules of different places in a state have different addresses. *)
LEMMA WantedApart ==
    ASSUME plan \in Plans, NEW part \in Parts,
           NEW i \in 1..Len(PartOf(part)), NEW j \in 1..Len(PartOf(part)),
           NEW a, a \in Wanted(PartOf(part)[i]), a \in Wanted(PartOf(part)[j])
    PROVE  i = j
<1>1. \A m, r : Address(m, r).path = m.path BY DEF Address
<1>2. a.path = PartOf(part)[i].path /\ a.path = PartOf(part)[j].path BY <1>1, WantedIs
<1> QED BY <1>2, PartIs

(* On the way to a module under `path` is a child of `path`. *)
LEMMA ChildOnTheWay ==
    ASSUME plan \in Plans, NEW path \in DOMAIN plan.modules, NEW p \in DOMAIN plan.modules,
           IsPrefix(path, p), p # path
    PROVE  \E w \in Children(path) : IsPrefix(w, p)
<1>1. path \in Seq(Range(path)) /\ p \in Seq(Range(p)) BY PlansAssumption
<1>2. \A k \in 0..Len(p) : SubSeq(p, 1, k) \in DOMAIN plan.modules BY PlansAssumption
<1>3. PICK n \in Nat : n = Len(path) BY <1>1
<1>4. PICK k \in Nat : k = Len(p) BY <1>1
<1>5. path = [i \in 1..n |-> path[i]] /\ p = [i \in 1..k |-> p[i]] BY <1>1, <1>3, <1>4
<1>6. n <= k /\ \A i \in 1..n : path[i] = p[i]
  <2>1. n <= k /\ SubSeq(path, 1, n) = SubSeq(p, 1, n)
    BY <1>3, <1>4 DEF IsPrefix
  <2>2. \A i \in 1..n : SubSeq(path, 1, n)[i] = path[i] /\ SubSeq(p, 1, n)[i] = p[i]
    BY <1>1, <1>3, <1>4, <2>1
  <2> QED BY <2>1, <2>2
<1>7. n # k
  <2>1. SUFFICES ASSUME n = k PROVE FALSE OBVIOUS
  <2> QED BY <1>5, <1>6, <2>1
<1>8. n + 1 \in 0..k BY <1>6, <1>7
<1>9. PICK w : w = SubSeq(p, 1, n + 1) OBVIOUS
<1>10. /\ w \in Seq(Range(p)) /\ Len(w) = n + 1 /\ \A i \in 1..(n + 1) : w[i] = p[i]
  BY <1>1, <1>4, <1>8, <1>9
<1>11. w \in DOMAIN plan.modules BY <1>2, <1>4, <1>8, <1>9
<1>12. IsPrefix(path, w)
  <2>1. SubSeq(path, 1, n) = SubSeq(w, 1, n)
    <3>1. SubSeq(path, 1, n) = [i \in 1..n |-> path[i]] BY <1>1, <1>3
    <3>2. SubSeq(w, 1, n) = [i \in 1..n |-> w[i]] BY <1>10
    <3> QED BY <1>6, <1>10, <3>1, <3>2
  <2> QED BY <1>3, <1>10, <2>1 DEF IsPrefix
<1>13. IsPrefix(w, p)
  <2>1. SubSeq(w, 1, n + 1) = SubSeq(p, 1, n + 1)
    <3>1. SubSeq(w, 1, n + 1) = [i \in 1..(n + 1) |-> w[i]] BY <1>10
    <3>2. SubSeq(p, 1, n + 1) = [i \in 1..(n + 1) |-> p[i]] BY <1>1, <1>4, <1>8
    <3> QED BY <1>10, <3>1, <3>2
  <2> QED BY <1>4, <1>8, <1>10, <2>1 DEF IsPrefix
<1> QED BY <1>3, <1>10, <1>11, <1>12, <1>13 DEF Children

-----------------------------------------------------------------------------
LEMMA RangeIs ==
    ASSUME NEW S, NEW seq \in Seq(S)
    PROVE  seq \in Seq(Range(seq)) /\ Len(seq) \in Nat /\ DOMAIN seq = 1..Len(seq)
<1>1. Len(seq) \in Nat /\ DOMAIN seq = 1..Len(seq) /\ seq \in [1..Len(seq) -> S]
  BY LenProperties
<1>2. PICK n \in Nat : n = Len(seq) BY <1>1
<1>3. \A i \in 1..n : seq[i] \in Range(seq) BY <1>1, <1>2 DEF Range
<1>4. seq \in [1..n -> Range(seq)] BY <1>1, <1>2, <1>3
<1>5. seq \in Seq(Range(seq)) BY <1>4, SeqDef
<1> QED BY <1>1, <1>5

LEMMA AppendIs ==
    ASSUME NEW S, NEW s \in Seq(S), NEW e
    PROVE  LET t == Append(s, e) IN
           /\ t \in Seq(Range(t)) /\ Len(t) = Len(s) + 1 /\ Len(s) \in Nat
           /\ t[Len(s) + 1] = e /\ \A i \in 1..Len(s) : t[i] = s[i]
<1>1. s \in Seq(S \cup {e}) /\ Len(s) \in Nat OBVIOUS
<1>2. PICK t : t = Append(s, e) OBVIOUS
<1>3. t \in Seq(S \cup {e}) /\ Len(t) = Len(s) + 1 /\ t[Len(s) + 1] = e
  BY <1>1, <1>2
<1>4. \A i \in 1..Len(s) : t[i] = s[i] BY <1>1, <1>2
<1>5. t \in Seq(Range(t)) BY <1>3, RangeIs
<1> QED BY <1>1, <1>2, <1>3, <1>4, <1>5

(* The state that is walked is the part of the plan. *)
LEMMA StateIs ==
    ASSUME TypeOK
    PROVE  /\ extracting \in Parts
           /\ State = plan[extracting]
           /\ State # Null => State = PartOf(extracting)
  BY DEF TypeOK, State, PartOf, Parts

(* Once the configuration is walked, what is known of a configured resource. *)
LEMMA ConfigurationIs ==
    ASSUME TypeOK, ConfiguredSoFar, pc \in {"modules", "resources"}, NEW a
    PROVE  /\ Clean(a) \in DOMAIN resourceProviders <=> Configuring(a) # {}
           /\ Configuring(a) # {} =>
                 /\ resourceProviders[Clean(a)].values = ConfiguredValues(a)
                 /\ \E c \in Configuring(a) :
                       /\ resourceProviders[Clean(a)].provider = Providers[ProviderKey(c)]
                       /\ ~Undeclared(c.expressions, plan.modules[Calls(a.path)].variables)
<1>1. plan \in Plans BY DEF TypeOK
<1>2. PICK c : c = Clean(a) OBVIOUS
<1>3. c = [path |-> Calls(a.path), name |-> a.name] BY <1>2 DEF Clean
<1>4. ASSUME c \in DOMAIN resourceProviders
      PROVE  \E r \in Configuring(a) :
                /\ resourceProviders[c].values = ConfiguredValues(a)
                /\ resourceProviders[c].provider = Providers[ProviderKey(r)]
                /\ ~Undeclared(r.expressions, plan.modules[Calls(a.path)].variables)
  <2>0. PICK p \in DOMAIN plan.modules : \E r \in Ours(p) :
          /\ c = [path |-> p, name |-> r.name]
          /\ ~Undeclared(r.expressions, plan.modules[p].variables)
          /\ resourceProviders[c] =
                [provider |-> Providers[ProviderKey(r)],
                 values   |-> EvaluateResource(r.expressions, p, plan.modules[p].variables)]
    BY <1>4 DEF ConfiguredSoFar
  <2>1. PICK r \in Ours(p) :
          /\ c = [path |-> p, name |-> r.name]
          /\ ~Undeclared(r.expressions, plan.modules[p].variables)
          /\ resourceProviders[c] =
                [provider |-> Providers[ProviderKey(r)],
                 values   |-> EvaluateResource(r.expressions, p, plan.modules[p].variables)]
    BY <2>0
  <2>2. p = Calls(a.path) /\ r.name = a.name
    <3>1. c.path = p /\ c.path = Calls(a.path) /\ c.name = r.name /\ c.name = a.name BY ONLY <1>3, <2>1
    <3> QED BY <3>1
  <2>3. r \in Configuring(a) BY <1>1, <2>1, <2>2, ConfiguringIs
  <2>4. r = CHOOSE d \in Configuring(a) : TRUE BY <1>1, <2>3, ConfiguringIs
  <2>5. ConfiguredValues(a) = EvaluateResource(r.expressions, p, plan.modules[p].variables)
    BY <2>2, <2>4 DEF ConfiguredValues
  <2> QED BY <2>1, <2>2, <2>3, <2>5
<1>5. ASSUME Configuring(a) # {} PROVE c \in DOMAIN resourceProviders
  <2>1. PICK r : r \in Configuring(a) BY <1>5
  <2>2. PICK p : p = Calls(a.path) OBVIOUS
  <2>3. p \in DOMAIN plan.modules /\ r \in Ours(p) /\ r.name = a.name BY <1>1, <2>1, <2>2, ConfiguringIs
  <2>4. [path |-> p, name |-> r.name] \in DOMAIN resourceProviders
    BY <2>3 DEF ConfiguredSoFar, Working
  <2> QED BY <1>3, <2>2, <2>3, <2>4
<1> QED BY <1>2, <1>4, <1>5

-----------------------------------------------------------------------------
(* The steps. *)

LEMMA StartsWell ==
    ASSUME plan \in Plans, plan' = plan, NEW part \in Parts, StartOf(part), queries' = queries,
           queries = [q \in Parts |-> queries[q]],
           \A q \in Parts : queries[q] \in Seq(Range(queries[q])),
           queries["planned"] = <<>>, queries[part] = <<>>,
           part = "planned" => Queried("prior", Len(PartOf("prior")), {})
    PROVE  IInv'
<1>1. /\ extracting' = part /\ pc' = "providers" /\ providers' = EmptyFunction
      /\ toConfigure' = {} /\ resourceProviders' = EmptyFunction /\ toExtract' = <<>>
      /\ rss' = EmptyFunction /\ toQuery' = {}
  BY DEF StartOf
<1>2. DOMAIN EmptyFunction = {} BY DEF EmptyFunction
<1>3. TypeOK' BY <1>1, <1>2 DEF TypeOK, Parts
<1>4. ProvidersAreKnown' BY <1>1 DEF ProvidersAreKnown, Working
<1>5. ConfiguredSoFar' BY <1>1, <1>2 DEF ConfiguredSoFar, Working
<1>6. ExtractedSoFar' BY <1>1 DEF ExtractedSoFar, Working
<1>7. QueriedSoFar'
  <2>1. Over' = IF part = "planned" THEN {"prior"} ELSE {} BY <1>1 DEF Over
  <2>2. PICK n : n = Len(PartOf("prior")) OBVIOUS
  <2>3. n = Len(PartOf("prior"))' BY <2>2, SamePlan
  <2>4. part = "planned" => Queried("prior", n, {})' BY <2>2, SameQueried
  <2>5. \A q \in Over' : q = "prior" /\ part = "planned" BY <2>1
  <2>6. \A q \in Over' : Queried(q, n, {})' BY <2>4, <2>5
  <2>7. (\A q \in Over : Queried(q, Len(PartOf(q)), {}))' BY <2>3, <2>5, <2>6
  <2> QED BY <1>1, <2>7 DEF QueriedSoFar
<1> QED BY <1>3, <1>4, <1>5, <1>6, <1>7 DEF IInv

LEMMA InvInit == Init => IInv
<1> SUFFICES ASSUME Init PROVE IInv OBVIOUS
<1> USE DEF Init
<1>1. DOMAIN EmptyFunction = {} BY DEF EmptyFunction
<1>2. TypeOK BY <1>1 DEF TypeOK
<1>3. ProvidersAreKnown BY DEF ProvidersAreKnown, Working
<1>4. ConfiguredSoFar BY <1>1 DEF ConfiguredSoFar, Working
<1>5. ExtractedSoFar BY DEF ExtractedSoFar, Working
<1>6. QueriedSoFar
  <2>1. Over = {} BY DEF Over
  <2>2. <<>> \in Seq(Range(<<>>)) OBVIOUS
  <2>3. queries = [part \in Parts |-> <<>>] BY DEF Parts
  <2>4. \A part \in Parts : queries[part] = <<>> BY <2>3
  <2>5. extracting \in Parts /\ "planned" \in Parts BY DEF Parts
  <2> QED BY <2>1, <2>2, <2>3, <2>4, <2>5 DEF QueriedSoFar
<1> QED BY <1>2, <1>3, <1>4, <1>5, <1>6 DEF IInv

(* What the part that is over has stays. *)
LEMMA OverStays ==
    ASSUME plan' = plan, queries' = queries, QueriedSoFar, Over' = Over
    PROVE  (\A part \in Over : Queried(part, Len(PartOf(part)), {}))'
<1>1. ASSUME NEW part \in Over PROVE (Queried(part, Len(PartOf(part)), {}))'
  <2>1. PICK n : n = Len(PartOf(part)) OBVIOUS
  <2>2. n = Len(PartOf(part))' BY <2>1, SamePlan
  <2>3. Queried(part, n, {}) BY <2>1 DEF QueriedSoFar
  <2>4. Queried(part, n, {})' BY <2>3, SameQueried
  <2> QED BY <2>2, <2>4
<1> QED BY <1>1

(* An extraction that ends with an error, or a panic. *)
LEMMA StopStep ==
    ASSUME IInv, pc' \in {"failed", "panicked"}, toQuery = {}, pc \notin {"done", "failed", "panicked"},
           UNCHANGED <<plan, extracting, providers, toConfigure, resourceProviders,
                       toExtract, rss, toQuery, queries>>
    PROVE  IInv'
<1>1. TypeOK' BY DEF IInv, TypeOK, Clean, Calls
<1>2. ProvidersAreKnown' BY SamePlan DEF IInv, ProvidersAreKnown, Working
<1>3. ConfiguredSoFar' BY SamePlan DEF IInv, ConfiguredSoFar, Working
<1>4. ExtractedSoFar' BY DEF IInv, ExtractedSoFar, Working
<1>5. QueriedSoFar'
  <2>1. Over' = Over BY DEF Over
  <2>2. QueriedSoFar BY DEF IInv
  <2>3. (\A part \in Over : Queried(part, Len(PartOf(part)), {}))' BY <2>1, <2>2, OverStays
  <2> QED BY <2>2, <2>3 DEF QueriedSoFar
<1> QED BY <1>1, <1>2, <1>3, <1>4, <1>5 DEF IInv

LEMMA NoPriorStep == ASSUME IInv, NoPriorState PROVE IInv'
<1>1. plan' = plan /\ queries' = queries /\ StartOf("planned") /\ "planned" \in Parts BY DEF NoPriorState, Parts
<1>2. /\ plan \in Plans /\ queries = [q \in Parts |-> queries[q]]
      /\ \A q \in Parts : queries[q] \in Seq(Range(queries[q]))
      /\ queries["planned"] = <<>> /\ queries["prior"] = <<>>
  BY DEF IInv, TypeOK, QueriedSoFar, NoPriorState
<1>3. Queried("prior", Len(PartOf("prior")), {})
  <2>1. PartOf("prior") = <<>> BY DEF NoPriorState, PartOf
  <2>2. Len(PartOf("prior")) = 0 BY <2>1
  <2> QED BY <1>2, <2>2, NothingQueried
<1> QED BY <1>1, <1>2, <1>3, StartsWell

LEMMA ProvidersStep == ASSUME IInv, ExtractProviders PROVE IInv'
<1>1. /\ pc = "providers" /\ State # Null
      /\ UNCHANGED <<plan, extracting, resourceProviders, rss, toQuery, queries>>
  BY DEF ExtractProviders
<1>2. TypeOK /\ ProvidersAreKnown /\ ConfiguredSoFar /\ ExtractedSoFar /\ QueriedSoFar BY DEF IInv
<1>3. CASE BadProvider \/ MatchedKeys = {}
  <2>1. pc' = "failed" /\ UNCHANGED <<providers, toConfigure, toExtract>> BY <1>3 DEF ExtractProviders
  <2>2. toQuery = {} BY <1>1, <1>2 DEF ExtractedSoFar
  <2> QED BY <1>1, <2>1, <2>2, StopStep
<1>4. CASE ~(BadProvider \/ MatchedKeys = {})
  <2>1. /\ pc' = "configuration" /\ providers' = Providers /\ toConfigure' = {<<>>}
        /\ toExtract' = State
    BY <1>4 DEF ExtractProviders
  <2>2. resourceProviders = EmptyFunction /\ rss = EmptyFunction /\ DOMAIN EmptyFunction = {}
    BY <1>1, <1>2 DEF ProvidersAreKnown, EmptyFunction
  <2>3. plan \in Plans /\ <<>> \in DOMAIN plan.modules BY <1>2, PlansAssumption DEF TypeOK
  <2>4. State' = State BY <1>1 DEF State
  <2>5. TypeOK'
    <3>1. DOMAIN Providers \subseteq DOMAIN plan.providerConfig BY DEF Providers, MatchedKeys
    <3> QED BY <1>1, <1>2, <2>1, <2>2, <2>3, <3>1 DEF TypeOK
  <2>6. ProvidersAreKnown' BY <1>1, <2>1, <2>4, SamePlan DEF ProvidersAreKnown
  <2>7. ConfiguredSoFar'
    <3>1. \A p \in DOMAIN plan.modules : IsPrefix(<<>>, p)
      <4>1. ASSUME NEW p \in DOMAIN plan.modules PROVE IsPrefix(<<>>, p)
        <5>1. p \in Seq(Range(p)) BY <2>3, PlansAssumption
        <5>2. Len(p) \in Nat /\ SubSeq(p, 1, 0) = <<>> BY <5>1
        <5>3. Len(<<>>) = 0 /\ SubSeq(<<>>, 1, 0) = <<>> OBVIOUS
        <5> QED BY <5>2, <5>3 DEF IsPrefix
      <4> QED BY <4>1
    <3>2. \A p \in DOMAIN plan.modules : \E w \in toConfigure' : IsPrefix(w, p) BY <2>1, <3>1
    <3>3. DOMAIN resourceProviders' = {} BY <1>1, <2>2
    <3> QED BY <1>1, <2>1, <3>2, <3>3 DEF ConfiguredSoFar
  <2>8. ExtractedSoFar'
    <3>1. State = PartOf(extracting) /\ extracting \in Parts BY <1>1, <1>2, StateIs
    <3>2. State \in Seq(Range(State)) /\ Len(State) \in Nat BY <2>3, <3>1, PartIs
    <3>3. Begun' = 0 BY <2>1, <2>4, <3>2 DEF Begun
    <3>4. PICK s : s = State OBVIOUS
    <3>5. \A i \in 1..Len(s) : s[0 + i] = s[i] BY <3>2, <3>4
    <3>6. toExtract' = s /\ State' = s BY <2>1, <2>4, <3>4
    <3>7. 0 \in 0..Len(s) /\ s \in Seq(Range(s)) BY <3>2, <3>4
    <3>8. toQuery' = {} BY <1>1, <1>2 DEF ExtractedSoFar
    <3> QED BY <2>1, <3>3, <3>5, <3>6, <3>7, <3>8 DEF ExtractedSoFar
  <2>9. QueriedSoFar'
    <3>1. Over' = Over BY <1>1, <2>1 DEF Over
    <3>2. (\A part \in Over : Queried(part, Len(PartOf(part)), {}))' BY <1>1, <1>2, <3>1, OverStays
    <3> QED BY <1>1, <1>2, <2>1, <3>2 DEF QueriedSoFar
  <2> QED BY <2>5, <2>6, <2>7, <2>8, <2>9 DEF IInv
<1> QED BY <1>3, <1>4

(* A module more is configured. *)
LEMMA ConfigureStep == ASSUME IInv, ConfigureModule PROVE IInv'
<1>1. /\ pc = "configuration"
      /\ UNCHANGED <<plan, extracting, pc, providers, toExtract, rss, toQuery, queries>>
  BY DEF ConfigureModule
<1>2. TypeOK /\ ProvidersAreKnown /\ ConfiguredSoFar /\ ExtractedSoFar /\ QueriedSoFar BY DEF IInv
<1>3. plan \in Plans /\ providers = Providers /\ DOMAIN Providers = MatchedKeys
  BY <1>1, <1>2 DEF TypeOK, ProvidersAreKnown, Working, Providers
<1>4. PICK path \in toConfigure :
         LET module == plan.modules[path]
             ours   == {r \in module.resources : ProviderKey(r) \in DOMAIN providers}
         IN  /\ ~\E r \in ours : Undeclared(r.expressions, module.variables)
             /\ resourceProviders' = Completed(resourceProviders,
                   [c \in {[path |-> path, name |-> r.name] : r \in ours} |->
                      LET r == CHOOSE r \in ours : r.name = c.name
                      IN [provider |-> providers[ProviderKey(r)],
                          values |-> EvaluateResource(r.expressions, path, module.variables)]])
             /\ toConfigure' = (toConfigure \ {path}) \cup Children(path)
  BY DEF ConfigureModule
<1>5. path \in DOMAIN plan.modules BY <1>2 DEF TypeOK
<1>6. PICK ours : ours = Ours(path) OBVIOUS
<1>7. PICK added :
         added = [c \in {[path |-> path, name |-> r.name] : r \in ours} |->
                    LET r == CHOOSE r \in ours : r.name = c.name
                    IN [provider |-> Providers[ProviderKey(r)],
                        values |-> EvaluateResource(r.expressions, path, plan.modules[path].variables)]]
  OBVIOUS
<1>8. /\ resourceProviders' = Completed(resourceProviders, added)
      /\ \A r \in ours : ~Undeclared(r.expressions, plan.modules[path].variables)
  <2>1. {r \in plan.modules[path].resources : ProviderKey(r) \in DOMAIN providers} = ours
    BY <1>3, <1>6 DEF Ours
  <2> QED BY <1>3, <1>4, <1>7, <2>1
<1>9. DOMAIN added = {[path |-> path, name |-> r.name] : r \in ours} BY <1>7
<1>10. \A r, s \in ours : r.name = s.name => r = s
  <2>1. \A r, s \in plan.modules[path].resources : r.name = s.name => r = s
    BY <1>3, <1>5, PlansAssumption
  <2> QED BY <1>6, <2>1 DEF Ours
<1>11. ASSUME NEW r \in ours
       PROVE  added[[path |-> path, name |-> r.name]] =
                 [provider |-> Providers[ProviderKey(r)],
                  values |-> EvaluateResource(r.expressions, path, plan.modules[path].variables)]
  <2>1. PICK c : c = [path |-> path, name |-> r.name] OBVIOUS
  <2>2. c \in DOMAIN added /\ c.name = r.name BY <1>9, <2>1
  <2>3. PICK s : s = CHOOSE d \in ours : d.name = c.name OBVIOUS
  <2>4. s \in ours /\ s.name = r.name BY <2>2, <2>3
  <2>5. s = r BY <1>10, <2>4
  <2>6. added[c] = [provider |-> Providers[ProviderKey(s)],
                    values |-> EvaluateResource(s.expressions, path, plan.modules[path].variables)]
    BY <1>7, <1>9, <2>2, <2>3
  <2> QED BY <2>1, <2>5, <2>6
<1>12. PICK rp : rp = resourceProviders OBVIOUS
<1>13. PICK rp2 : rp2 = Completed(rp, added) OBVIOUS
<1>14. /\ DOMAIN rp2 = DOMAIN rp \cup DOMAIN added
       /\ \A c \in DOMAIN rp : rp2[c] = rp[c]
       /\ \A c \in DOMAIN added : c \notin DOMAIN rp => rp2[c] = added[c]
  BY <1>13 DEF Completed
<1>15. resourceProviders' = rp2 BY <1>8, <1>12, <1>13
<1>16. \A c \in DOMAIN rp2 : \E p \in DOMAIN plan.modules : \E r \in Ours(p) :
          /\ c = [path |-> p, name |-> r.name]
          /\ ~Undeclared(r.expressions, plan.modules[p].variables)
          /\ rp2[c] = [provider |-> Providers[ProviderKey(r)],
                       values   |-> EvaluateResource(r.expressions, p, plan.modules[p].variables)]
  <2>1. ASSUME NEW c \in DOMAIN rp2
        PROVE  \E p \in DOMAIN plan.modules : \E r \in Ours(p) :
                  /\ c = [path |-> p, name |-> r.name]
                  /\ ~Undeclared(r.expressions, plan.modules[p].variables)
                  /\ rp2[c] = [provider |-> Providers[ProviderKey(r)],
                               values   |-> EvaluateResource(r.expressions, p, plan.modules[p].variables)]
    <3>1. CASE c \in DOMAIN rp BY <1>2, <1>12, <1>14, <3>1 DEF ConfiguredSoFar
    <3>2. CASE c \notin DOMAIN rp
      <4>1. c \in DOMAIN added /\ rp2[c] = added[c] BY <1>14, <3>2
      <4>2. PICK r \in ours : c = [path |-> path, name |-> r.name] BY <1>9, <4>1
      <4> QED BY <1>5, <1>6, <1>8, <1>11, <4>1, <4>2
    <3> QED BY <3>1, <3>2
  <2> QED BY <2>1
<1>17. \A p \in DOMAIN plan.modules :
          \/ \A r \in Ours(p) : [path |-> p, name |-> r.name] \in DOMAIN rp2
          \/ \E w \in toConfigure' : IsPrefix(w, p)
  <2>1. ASSUME NEW p \in DOMAIN plan.modules,
               ~\E w \in toConfigure' : IsPrefix(w, p)
        PROVE  \A r \in Ours(p) : [path |-> p, name |-> r.name] \in DOMAIN rp2
    <3>1. CASE p = path BY <1>6, <1>9, <1>14, <3>1
    <3>2. CASE p # path
      <4>1. ~\E w \in Children(path) : IsPrefix(w, p) BY <1>4, <2>1
      <4>2. ~IsPrefix(path, p) BY <1>3, <1>5, <3>2, <4>1, ChildOnTheWay
      <4>3. ~\E w \in toConfigure : IsPrefix(w, p) BY <1>4, <2>1, <4>2
      <4>4. \A r \in Ours(p) : [path |-> p, name |-> r.name] \in DOMAIN rp
        BY <1>1, <1>2, <1>12, <4>3 DEF ConfiguredSoFar, Working
      <4> QED BY <1>14, <4>4
    <3> QED BY <3>1, <3>2
  <2> QED BY <2>1
<1>18. TypeOK'
  <2>1. Children(path) \subseteq DOMAIN plan.modules BY DEF Children
  <2>2. toConfigure' \subseteq DOMAIN plan'.modules BY <1>1, <1>2, <1>4, <2>1 DEF TypeOK
  <2>3. \A c \in DOMAIN rp2 : rp2[c].provider \in Range(providers)
    <3>1. ASSUME NEW c \in DOMAIN rp2 PROVE rp2[c].provider \in Range(Providers)
      <4>1. PICK p \in DOMAIN plan.modules : \E r \in Ours(p) :
              rp2[c] = [provider |-> Providers[ProviderKey(r)],
                        values   |-> EvaluateResource(r.expressions, p, plan.modules[p].variables)]
        BY <1>16
      <4>2. PICK r \in Ours(p) :
              rp2[c] = [provider |-> Providers[ProviderKey(r)],
                        values   |-> EvaluateResource(r.expressions, p, plan.modules[p].variables)]
        BY <4>1
      <4>3. ProviderKey(r) \in DOMAIN Providers BY <1>3 DEF Ours
      <4> QED BY <4>2, <4>3 DEF Range
    <3> QED BY <1>3, <3>1
  <2>4. \A a \in DOMAIN rss : Clean(a) \in DOMAIN rp2 BY <1>2, <1>12, <1>14 DEF TypeOK
  <2> QED BY <1>1, <1>2, <1>15, <2>2, <2>3, <2>4 DEF TypeOK
<1>19. ProvidersAreKnown'
  <2>1. State' = State BY <1>1 DEF State
  <2> QED BY <1>1, <1>2, <2>1, SamePlan DEF ProvidersAreKnown, Working
<1>20. ConfiguredSoFar' BY <1>1, <1>15, <1>16, <1>17, SamePlan DEF ConfiguredSoFar
<1>21. ExtractedSoFar'
  <2>1. State' = State /\ Begun' = Begun BY <1>1 DEF State, Begun
  <2> QED BY <1>1, <1>2, <2>1 DEF ExtractedSoFar, Working
<1>22. QueriedSoFar'
  <2>1. Over' = Over BY <1>1 DEF Over
  <2>2. (\A part \in Over : Queried(part, Len(PartOf(part)), {}))' BY <1>1, <1>2, <2>1, OverStays
  <2> QED BY <1>1, <1>2, <2>2 DEF QueriedSoFar
<1> QED BY <1>18, <1>19, <1>20, <1>21, <1>22 DEF IInv

LEMMA FailureStep == ASSUME IInv, ConfigurationFails \/ BlockPanics PROVE IInv'
<1>1. /\ pc \in {"configuration", "modules"} /\ pc' \in {"failed", "panicked"}
      /\ UNCHANGED <<plan, extracting, providers, toConfigure, resourceProviders,
                     toExtract, rss, toQuery, queries>>
  BY DEF ConfigurationFails, BlockPanics
<1>2. toQuery = {} BY <1>1 DEF IInv, ExtractedSoFar
<1> QED BY <1>1, <1>2, StopStep

(* Every module is configured. *)
LEMMA ConfiguredStep == ASSUME IInv, Configured PROVE IInv'
<1>1. /\ pc = "configuration" /\ toConfigure = {} /\ pc' = "modules"
      /\ UNCHANGED <<plan, extracting, providers, toConfigure, resourceProviders,
                     toExtract, rss, toQuery, queries>>
  BY DEF Configured
<1>2. TypeOK /\ ProvidersAreKnown /\ ConfiguredSoFar /\ ExtractedSoFar /\ QueriedSoFar BY DEF IInv
<1>3. TypeOK' BY <1>1, <1>2 DEF TypeOK, Clean, Calls
<1>4. State' = State /\ Begun' = Begun BY <1>1 DEF State, Begun
<1>5. ProvidersAreKnown' BY <1>1, <1>2, <1>4, SamePlan DEF ProvidersAreKnown, Working
<1>6. ConfiguredSoFar' BY <1>1, <1>2, SamePlan DEF ConfiguredSoFar, Working
<1>7. ExtractedSoFar' BY <1>1, <1>2, <1>4 DEF ExtractedSoFar, Working
<1>8. QueriedSoFar'
  <2>1. Over' = Over BY <1>1 DEF Over
  <2>2. (\A part \in Over : Queried(part, Len(PartOf(part)), {}))' BY <1>1, <1>2, <2>1, OverStays
  <2>3. queries[extracting] = <<>> /\ Begun = 0 /\ toQuery = {}
    BY <1>1, <1>2 DEF QueriedSoFar, ExtractedSoFar
  <2>4. Queried(extracting, 0, {}) BY <2>3, NothingQueried
  <2>5. PICK part : part = extracting OBVIOUS
  <2>6. Queried(part, 0, {})' BY <1>1, <2>4, <2>5, SameQueried
  <2>7. Queried(extracting, Begun, toQuery)' BY <1>1, <1>4, <2>3, <2>5, <2>6
  <2> QED BY <1>1, <1>2, <2>2, <2>7 DEF QueriedSoFar
<1> QED BY <1>3, <1>5, <1>6, <1>7, <1>8 DEF IInv

(* A module of the state is begun. *)
LEMMA ExtractStep == ASSUME IInv, ExtractModule PROVE IInv'
<1>1. /\ pc = "modules" /\ toExtract # <<>> /\ pc' = "resources" /\ toExtract' = Tail(toExtract)
      /\ UNCHANGED <<plan, extracting, providers, toConfigure, resourceProviders, queries>>
      /\ toQuery' = DOMAIN rss'
  BY DEF ExtractModule
<1>2. TypeOK /\ ProvidersAreKnown /\ ConfiguredSoFar /\ ExtractedSoFar /\ QueriedSoFar BY DEF IInv
<1>3. /\ plan \in Plans /\ extracting \in Parts /\ State # Null
      /\ State = PartOf(extracting) /\ State' = State
  BY <1>1, <1>2, StateIs DEF TypeOK, ProvidersAreKnown, Working, State
<1>4. PICK part \in Parts : part = extracting BY <1>3
<1>5. PICK s : s = State OBVIOUS
<1>6. PICK n : n = Begun OBVIOUS
<1>7. /\ s = PartOf(part) /\ s \in Seq(Range(s)) /\ Len(s) \in Nat
      /\ \A i \in 1..Len(s) : s[i] \in Range(s)
  BY <1>3, <1>4, <1>5, PartIs
<1>8. /\ toExtract \in Seq(Range(s)) /\ n \in 0..Len(s) /\ n = Len(s) - Len(toExtract)
      /\ \A i \in 1..Len(toExtract) : toExtract[i] = s[n + i]
  BY <1>1, <1>2, <1>5, <1>6 DEF ExtractedSoFar, Working, Begun
<1>9. /\ Len(toExtract) \in Nat \ {0} /\ n + 1 \in 1..Len(s)
      /\ Len(toExtract') = Len(toExtract) - 1 /\ toExtract' \in Seq(Range(s))
      /\ \A i \in 1..Len(toExtract') : toExtract'[i] = toExtract[i + 1]
  BY <1>1, <1>7, <1>8
<1>10. Begun' = n + 1 BY <1>3, <1>5, <1>7, <1>8, <1>9 DEF Begun
<1>11. PICK m : m = Head(toExtract) OBVIOUS
<1>12. m = s[n + 1] /\ m = PartOf(part)[n + 1]
  <2>1. m = toExtract[1] /\ 1 \in 1..Len(toExtract) BY <1>8, <1>9, <1>11
  <2> QED BY <1>7, <1>8, <2>1
<1>13. rss' = [a \in {Address(m, r) : r \in Taken(m)} |->
                 LET r == CHOOSE r \in Taken(m) : Address(m, r) = a
                 IN Merge(r.values, resourceProviders[Clean(a)].values)]
  BY <1>11 DEF ExtractModule
<1>14. {Address(m, r) : r \in Taken(m)} = Wanted(m)
  <2>1. \A r \in m.resources : Clean(Address(m, r)) \in DOMAIN resourceProviders <=>
                               Configuring(Address(m, r)) # {}
    BY <1>1, <1>2, ConfigurationIs
  <2> QED BY <2>1 DEF Taken, Wanted
<1>15. rss' = Merged(m)
  <2>1. ASSUME NEW a \in Wanted(m)
        PROVE  Merge((CHOOSE r \in Taken(m) : Address(m, r) = a).values, resourceProviders[Clean(a)].values) =
               Merge((CHOOSE r \in m.resources : Address(m, r) = a).values, ConfiguredValues(a))
    <3>1. PICK r \in Taken(m) : Address(m, r) = a BY <1>14, <2>1
    <3>2. \A q \in m.resources : Address(m, q) = a => q = r
      <4>1. r \in m.resources BY DEF Taken
      <4>2. \A q \in m.resources : q.name = r.name /\ q.index = r.index => q = r
        BY <1>3, <1>7, <1>9, <1>12, <4>1, PartIs
      <4>3. ASSUME NEW q \in m.resources, Address(m, q) = a PROVE q.name = r.name /\ q.index = r.index
        <5>1. Address(m, q).name = q.name /\ Address(m, q).index = q.index
              /\ Address(m, r).name = r.name /\ Address(m, r).index = r.index
          BY DEF Address
        <5> QED BY <3>1, <4>3, <5>1
      <4> QED BY <4>2, <4>3
    <3>3. Taken(m) \subseteq m.resources BY DEF Taken
    <3>4. (CHOOSE q \in Taken(m) : Address(m, q) = a) = r BY <3>1, <3>2, <3>3
    <3>5. (CHOOSE q \in m.resources : Address(m, q) = a) = r BY <3>1, <3>2, <3>3
    <3>6. Configuring(a) # {} BY <2>1, WantedIs
    <3>7. resourceProviders[Clean(a)].values = ConfiguredValues(a) BY <1>1, <1>2, <3>6, ConfigurationIs
    <3> QED BY <3>4, <3>5, <3>7
  <2> QED BY <1>13, <1>14, <2>1 DEF Merged
<1>16. DOMAIN Merged(m) = Wanted(m) BY DEF Merged
<1>17. TypeOK'
  <2>1. \A a \in DOMAIN rss' : Clean(a) \in DOMAIN resourceProviders
    BY <1>1, <1>2, <1>15, <1>16, WantedIs, ConfigurationIs
  <2>2. PICK rss2 : rss2 = rss' OBVIOUS
  <2> QED BY <1>1, <1>2, <2>1 DEF TypeOK, Clean, Calls
<1>18. ProvidersAreKnown' BY <1>1, <1>2, <1>3, SamePlan DEF ProvidersAreKnown, Working
<1>19. ConfiguredSoFar' BY <1>1, <1>2, SamePlan DEF ConfiguredSoFar, Working
<1>20. ExtractedSoFar'
  <2>1. \A i \in 1..Len(toExtract') : toExtract'[i] = s[(n + 1) + i]
    <3>1. ASSUME NEW i \in 1..Len(toExtract') PROVE toExtract'[i] = s[(n + 1) + i]
      <4>1. i + 1 \in 1..Len(toExtract) /\ n + (i + 1) = (n + 1) + i BY <1>8, <1>9
      <4> QED BY <1>8, <1>9, <4>1
    <3> QED BY <3>1
  <2>2. n + 1 \in 0..Len(s) /\ n + 1 > 0 BY <1>8, <1>9
  <2>3. Merged(m)' = Merged(m) BY <1>1, SamePlan
  <2>4. rss' = Merged(State[Begun])'
    <3>1. \A x : Merged(x)' = Merged(x) BY <1>1, SamePlan
    <3>2. State'[Begun'] = m BY <1>3, <1>5, <1>10, <1>12
    <3> QED BY <1>15, <2>3, <3>2
  <2> QED BY <1>1, <1>3, <1>5, <1>9, <1>10, <2>1, <2>2, <2>4 DEF ExtractedSoFar, Working
<1>21. QueriedSoFar'
  <2>1. Over' = Over BY <1>1 DEF Over
  <2>2. (\A p \in Over : Queried(p, Len(PartOf(p)), {}))' BY <1>1, <1>2, <2>1, OverStays
  <2>3. Queried(part, n, {})
    BY <1>1, <1>2, <1>4, <1>6 DEF QueriedSoFar, ExtractedSoFar
  <2>4. Queried(part, n + 1, Wanted(m))
    <3>1. 1..(n + 1) = (1..n) \cup {n + 1} BY <1>8
    <3>2. \A k \in 1..n : Wanted(PartOf(part)[k]) \cap Wanted(m) = {}
      <4>1. ASSUME NEW k \in 1..n, NEW a \in Wanted(PartOf(part)[k]), a \in Wanted(m) PROVE FALSE
        <5>1. k \in 1..Len(s) /\ k # n + 1 BY <1>8
        <5>2. k \in 1..Len(PartOf(part)) /\ n + 1 \in 1..Len(PartOf(part)) BY <1>7, <1>9, <5>1
        <5>3. k = n + 1 BY <1>3, <1>12, <4>1, <5>2, WantedApart
        <5> QED BY <5>1, <5>3
      <4> QED BY <4>1
    <3>3. WantedOf(part, n) \ {} = WantedOf(part, n + 1) \ Wanted(m)
      <4>1. \A a : a \in WantedOf(part, n) <=> \E k \in 1..n : a \in Wanted(PartOf(part)[k])
        BY DEF WantedOf
      <4>2. \A a : a \in WantedOf(part, n + 1) <=> \E k \in 1..(n + 1) : a \in Wanted(PartOf(part)[k])
        BY DEF WantedOf
      <4>3. \A a : a \in WantedOf(part, n + 1) <=> a \in WantedOf(part, n) \/ a \in Wanted(m)
        BY <1>12, <3>1, <4>1, <4>2
      <4>4. \A a : a \in WantedOf(part, n) => a \notin Wanted(m) BY <3>2, <4>1
      <4> QED BY <4>3, <4>4
    <3>4. \A q : QueryOf(part, n, q) => QueryOf(part, n + 1, q) BY <3>1 DEF QueryOf
    <3> QED BY <2>3, <3>3, <3>4 DEF Queried, QueriesOf
  <2>5. PICK w : w = Wanted(m) OBVIOUS
  <2>6. PICK l : l = n + 1 OBVIOUS
  <2>7. Queried(part, l, w)' BY <1>1, <2>4, <2>5, <2>6, SameQueried
  <2>8. toQuery' = w BY <1>1, <1>15, <1>16, <2>5
  <2>9. Queried(extracting, Begun, toQuery)' BY <1>1, <1>4, <1>10, <2>6, <2>7, <2>8
  <2> QED BY <1>1, <1>2, <2>2, <2>9 DEF QueriedSoFar
<1> QED BY <1>17, <1>18, <1>19, <1>20, <1>21 DEF IInv

(* One more query. *)
LEMMA QueryStep == ASSUME IInv, QueryResource PROVE IInv'
<1>1. pc = "resources"
      /\ UNCHANGED <<plan, extracting, pc, providers, toConfigure, resourceProviders, toExtract, rss>>
  BY DEF QueryResource
<1>2. TypeOK /\ ProvidersAreKnown /\ ConfiguredSoFar /\ ExtractedSoFar /\ QueriedSoFar BY DEF IInv
<1>3. PICK a \in toQuery :
        /\ queries' = [queries EXCEPT ![extracting] = Append(@,
              [address |-> a, provider |-> resourceProviders[Clean(a)].provider,
               components |-> ResourceComponents(rss, rss[a])])]
        /\ toQuery' = toQuery \ {a}
  BY DEF QueryResource
<1>4. /\ plan \in Plans /\ extracting \in Parts /\ State # Null
      /\ State = PartOf(extracting) /\ State' = State
  BY <1>1, <1>2, StateIs DEF TypeOK, ProvidersAreKnown, Working, State
<1>5. PICK part \in Parts : part = extracting BY <1>4
<1>6. PICK n : n = Begun OBVIOUS
<1>7. Begun' = n BY <1>1, <1>4, <1>6 DEF Begun
<1>8. /\ n \in 1..Len(PartOf(part)) /\ n \in Nat
      /\ rss = Merged(PartOf(part)[n])
  <2>1. n \in 0..Len(State) /\ n > 0 /\ rss = Merged(State[n])
    BY <1>1, <1>2, <1>6 DEF ExtractedSoFar, Working
  <2> QED BY <1>4, <1>5, <2>1
<1>9. PICK m : m = PartOf(part)[n] OBVIOUS
<1>10. rss = Merged(m) /\ DOMAIN rss = Wanted(m) /\ a \in Wanted(m)
  <2>1. toQuery \subseteq DOMAIN rss BY <1>2 DEF TypeOK
  <2>2. DOMAIN Merged(m) = Wanted(m) BY DEF Merged
  <2> QED BY <1>8, <1>9, <2>1, <2>2
<1>11. PICK w : w = toQuery OBVIOUS
<1>12. PICK qs : qs = queries[part] OBVIOUS
<1>13. PICK q : q = [address |-> a, provider |-> resourceProviders[Clean(a)].provider,
                     components |-> ResourceComponents(rss, rss[a])]
  OBVIOUS
<1>14. PICK qs2 : qs2 = Append(qs, q) OBVIOUS
<1>15. queries = [p \in Parts |-> queries[p]] /\ \A p \in Parts : queries[p] \in Seq(Range(queries[p]))
  BY <1>2 DEF QueriedSoFar
<1>16. /\ queries' = [p \in Parts |-> queries'[p]]
       /\ queries'[part] = qs2 /\ \A p \in Parts : p # part => queries'[p] = queries[p]
  BY <1>3, <1>5, <1>12, <1>13, <1>14, <1>15
<1>17. /\ qs2 \in Seq(Range(qs2)) /\ Len(qs2) = Len(qs) + 1 /\ Len(qs) \in Nat
       /\ qs2[Len(qs) + 1] = q /\ \A i \in 1..Len(qs) : qs2[i] = qs[i]
  BY <1>5, <1>12, <1>14, <1>15, AppendIs
<1>18. PICK l \in Nat : l = Len(qs) BY <1>17
<1>19. /\ {qs[i].address : i \in 1..l} = WantedOf(part, n) \ w
       /\ \A i, j \in 1..l : qs[i].address = qs[j].address => i = j
       /\ \A i \in 1..l : QueryOf(part, n, qs[i])
  <2>1. QueriesOf(part, n, w, qs) BY <1>1, <1>2, <1>5, <1>6, <1>11, <1>12 DEF QueriedSoFar, Queried
  <2> QED BY <1>18, <2>1 DEF QueriesOf
<1>20. q.address = a /\ 1..(l + 1) = (1..l) \cup {l + 1} /\ l + 1 \notin 1..l BY <1>13
<1>21. QueryOf(part, n, q)
  <2>1. Configuring(a) # {} BY <1>10, WantedIs
  <2>2. \E c \in Configuring(a) :
           /\ resourceProviders[Clean(a)].provider = Providers[ProviderKey(c)]
           /\ ~Undeclared(c.expressions, plan.modules[Calls(a.path)].variables)
    BY <1>1, <1>2, <2>1, ConfigurationIs
  <2>3. n \in 1..n BY <1>8
  <2>4. q.components = ResourceComponents(Merged(m), Merged(m)[a]) /\ a \in DOMAIN Merged(m)
    BY <1>10, <1>13
  <2> QED BY <1>9, <1>13, <2>2, <2>3, <2>4 DEF QueryOf
<1>22. a \notin {qs[i].address : i \in 1..l} /\ a \in WantedOf(part, n)
  <2>1. n \in 1..n BY <1>8
  <2>2. a \in WantedOf(part, n) BY <1>9, <1>10, <2>1 DEF WantedOf
  <2>3. a \in w BY <1>11
  <2> QED BY <1>19, <2>2, <2>3
<1>23. QueriesOf(part, n, w \ {a}, qs2)
  <2>1. \A i \in 1..(l + 1) : i = l + 1 \/ i \in 1..l BY <1>20
  <2>2. qs2[l + 1] = q /\ \A i \in 1..l : qs2[i] = qs[i] BY <1>17, <1>18
  <2>3. {qs2[i].address : i \in 1..(l + 1)} = {qs[i].address : i \in 1..l} \cup {a}
    BY <1>20, <2>1, <2>2
  <2>4. PICK U : U = WantedOf(part, n) OBVIOUS
  <2>5. PICK A : A = {qs[i].address : i \in 1..l} OBVIOUS
  <2>6. A \cup {a} = U \ (w \ {a})
    <3>1. A = U \ w /\ a \in U BY <1>19, <1>22, <2>4, <2>5
    <3> QED BY ONLY <3>1
  <2>7. {qs2[i].address : i \in 1..(l + 1)} = WantedOf(part, n) \ (w \ {a})
    BY ONLY <2>3, <2>4, <2>5, <2>6
  <2>8. ASSUME NEW i \in 1..(l + 1), NEW j \in 1..(l + 1), qs2[i].address = qs2[j].address
        PROVE  i = j
    <3>1. CASE i \in 1..l /\ j \in 1..l BY <1>19, <2>2, <2>8, <3>1
    <3>2. CASE i = l + 1 /\ j \in 1..l BY <1>20, <1>22, <2>2, <2>8, <3>2
    <3>3. CASE i \in 1..l /\ j = l + 1 BY <1>20, <1>22, <2>2, <2>8, <3>3
    <3> QED BY <2>1, <2>8, <3>1, <3>2, <3>3
  <2>9. \A i \in 1..(l + 1) : QueryOf(part, n, qs2[i]) BY <1>19, <1>21, <2>1, <2>2
  <2>10. Len(qs2) = l + 1 BY <1>17, <1>18
  <2> QED BY <2>7, <2>8, <2>9, <2>10 DEF QueriesOf
<1>24. TypeOK' BY <1>1, <1>2, <1>3 DEF TypeOK, Clean, Calls
<1>25. ProvidersAreKnown' BY <1>1, <1>2, <1>4, SamePlan DEF ProvidersAreKnown, Working
<1>26. ConfiguredSoFar' BY <1>1, <1>2, SamePlan DEF ConfiguredSoFar, Working
<1>27. ExtractedSoFar'
  <2>1. \A x : Merged(x)' = Merged(x) BY <1>1, SamePlan
  <2>2. Begun' = Begun BY <1>6, <1>7
  <2>3. rss' = Merged(State[Begun])'
    <3>1. PICK x : x = State[Begun] OBVIOUS
    <3>2. x = State'[Begun'] BY <1>4, <2>2, <3>1
    <3>3. rss = Merged(x) BY <1>1, <1>2, <3>1 DEF ExtractedSoFar
    <3> QED BY <1>1, <2>1, <3>2, <3>3
  <2> QED BY <1>1, <1>2, <1>4, <2>2, <2>3 DEF ExtractedSoFar, Working
<1>28. QueriedSoFar'
  <2>1. Over' = Over /\ part \notin Over BY <1>1, <1>5 DEF Over
  <2>2. ASSUME NEW p \in Over PROVE (Queried(p, Len(PartOf(p)), {}))'
    <3>1. PICK k : k = Len(PartOf(p)) OBVIOUS
    <3>2. k = Len(PartOf(p))' BY <1>1, <3>1, SamePlan
    <3>3. Queried(p, k, {}) BY <1>2, <3>1 DEF QueriedSoFar
    <3>4. p \in Parts /\ p # part BY <2>1 DEF Over, Parts
    <3>5. queries'[p] = queries[p] BY <1>16, <3>4
    <3>6. Queried(p, k, {})' BY <1>1, <3>3, <3>5, SameQueried
    <3> QED BY <3>2, <3>6
  <2>3. PICK w2 : w2 = w \ {a} OBVIOUS
  <2>4. Queried(part, n, w2)'
    <3>1. QueriesOf(part, n, w2, qs2)' BY <1>1, <1>23, <2>3, SameQueries
    <3> QED BY <1>16, <3>1 DEF Queried
  <2>5. toQuery' = w2 BY <1>3, <1>11, <2>3
  <2>6. Queried(extracting, Begun, toQuery)' BY <1>1, <1>5, <1>7, <2>4, <2>5
  <2>7. \A p \in Parts : queries'[p] \in Seq(Range(queries'[p])) BY <1>15, <1>16, <1>17
  <2>8. extracting = "prior" => queries'["planned"] = <<>>
    <3>1. "planned" \in Parts /\ "prior" # "planned" BY DEF Parts
    <3> QED BY <1>2, <1>5, <1>16, <3>1 DEF QueriedSoFar
  <2> QED BY <1>1, <1>16, <2>1, <2>2, <2>6, <2>7, <2>8 DEF QueriedSoFar
<1> QED BY <1>24, <1>25, <1>26, <1>27, <1>28 DEF IInv

(* A module of the state is finished. *)
LEMMA ModuleStep == ASSUME IInv, ModuleQueried PROVE IInv'
<1>1. /\ pc = "resources" /\ toQuery = {} /\ pc' = "modules"
      /\ UNCHANGED <<plan, extracting, providers, toConfigure, resourceProviders,
                     toExtract, rss, toQuery, queries>>
  BY DEF ModuleQueried
<1>2. TypeOK /\ ProvidersAreKnown /\ ConfiguredSoFar /\ ExtractedSoFar /\ QueriedSoFar BY DEF IInv
<1>3. TypeOK' BY <1>1, <1>2 DEF TypeOK, Clean, Calls
<1>4. State' = State /\ Begun' = Begun BY <1>1 DEF State, Begun
<1>5. ProvidersAreKnown' BY <1>1, <1>2, <1>4, SamePlan DEF ProvidersAreKnown, Working
<1>6. ConfiguredSoFar' BY <1>1, <1>2, SamePlan DEF ConfiguredSoFar, Working
<1>7. ExtractedSoFar' BY <1>1, <1>2, <1>4 DEF ExtractedSoFar, Working
<1>8. QueriedSoFar'
  <2>1. Over' = Over BY <1>1 DEF Over
  <2>2. (\A part \in Over : Queried(part, Len(PartOf(part)), {}))' BY <1>1, <1>2, <2>1, OverStays
  <2>3. PICK part : part = extracting OBVIOUS
  <2>4. PICK n : n = Begun OBVIOUS
  <2>5. Queried(part, n, {}) BY <1>1, <1>2, <2>3, <2>4 DEF QueriedSoFar
  <2>6. Queried(part, n, {})' BY <1>1, <2>3, <2>5, SameQueried
  <2>7. Queried(extracting, Begun, toQuery)' BY <1>1, <1>4, <2>3, <2>4, <2>6
  <2> QED BY <1>1, <1>2, <2>2, <2>7 DEF QueriedSoFar
<1> QED BY <1>3, <1>5, <1>6, <1>7, <1>8 DEF IInv

(* A part of the plan is finished. *)
LEMMA ExtractedStep == ASSUME IInv, Extracted PROVE IInv'
<1>1. /\ pc = "modules" /\ toExtract = <<>> /\ plan' = plan /\ queries' = queries
      /\ extracting = "prior" => StartOf("planned")
      /\ extracting # "prior" => /\ pc' = "done"
                                 /\ UNCHANGED <<extracting, providers, toConfigure,
                                                resourceProviders, toExtract, rss, toQuery>>
  BY DEF Extracted
<1>2. TypeOK /\ ProvidersAreKnown /\ ConfiguredSoFar /\ ExtractedSoFar /\ QueriedSoFar BY DEF IInv
<1>3. plan \in Plans /\ extracting \in Parts /\ State = PartOf(extracting)
  BY <1>1, <1>2, StateIs DEF TypeOK, ProvidersAreKnown, Working
<1>4. Begun = Len(PartOf(extracting))
  <2>1. Len(PartOf(extracting)) \in Nat BY <1>3, PartIs
  <2>2. Len(toExtract) = 0 BY <1>1
  <2> QED BY <1>3, <2>1, <2>2 DEF Begun
<1>5. toQuery = {} BY <1>1, <1>2 DEF ExtractedSoFar
<1>6. Queried(extracting, Len(PartOf(extracting)), {}) BY <1>1, <1>2, <1>4, <1>5 DEF QueriedSoFar
<1>7. CASE extracting = "prior"
  <2>1. "planned" \in Parts BY DEF Parts
  <2>2. queries["planned"] = <<>> BY <1>2, <1>7 DEF QueriedSoFar
  <2> QED BY <1>1, <1>2, <1>3, <1>6, <1>7, <2>1, <2>2, StartsWell DEF QueriedSoFar
<1>8. CASE extracting = "planned"
  <2>1. pc' = "done" /\ UNCHANGED <<extracting, providers, toConfigure,
                                    resourceProviders, toExtract, rss, toQuery>>
    BY <1>1, <1>8
  <2>2. TypeOK' BY <1>1, <1>2, <2>1 DEF TypeOK, Clean, Calls
  <2>3. ProvidersAreKnown' BY <1>1, <1>2, <2>1, SamePlan DEF ProvidersAreKnown, Working
  <2>4. ConfiguredSoFar' BY <1>1, <1>2, <2>1, SamePlan DEF ConfiguredSoFar, Working
  <2>5. ExtractedSoFar' BY <1>5, <2>1 DEF ExtractedSoFar, Working
  <2>6. ASSUME NEW part \in Parts PROVE Queried(part, Len(PartOf(part)), {})'
    <3>1. Queried(part, Len(PartOf(part)), {})
      <4>1. CASE part = "planned" BY <1>6, <1>8, <4>1
      <4>2. CASE part = "prior"
        <5>1. part \in Over BY <1>1, <1>8, <4>2 DEF Over
        <5> QED BY <1>2, <5>1 DEF QueriedSoFar
      <4> QED BY <4>1, <4>2 DEF Parts
    <3>2. PICK n : n = Len(PartOf(part)) OBVIOUS
    <3>3. n = Len(PartOf(part))' BY <1>1, <3>2, SamePlan
    <3>4. Queried(part, n, {})' BY <1>1, <3>1, <3>2, SameQueried
    <3> QED BY <3>3, <3>4
  <2>7. Over' = Parts BY <2>1 DEF Over, Parts
  <2>8. (\A part \in Over : Queried(part, Len(PartOf(part)), {}))' BY <2>6, <2>7
  <2>9. QueriedSoFar' BY <1>1, <1>2, <1>8, <2>1, <2>8 DEF QueriedSoFar
  <2> QED BY <2>2, <2>3, <2>4, <2>5, <2>9 DEF IInv
<1> QED BY <1>3, <1>7, <1>8 DEF Parts

LEMMA StutterStep == ASSUME IInv, UNCHANGED vars PROVE IInv'
<1> USE DEF vars
<1>1. TypeOK /\ ProvidersAreKnown /\ ConfiguredSoFar /\ ExtractedSoFar /\ QueriedSoFar BY DEF IInv
<1>2. TypeOK' BY <1>1 DEF TypeOK, Clean, Calls
<1>3. State' = State /\ Begun' = Begun /\ Over' = Over BY DEF State, Begun, Over
<1>4. ProvidersAreKnown' BY <1>1, <1>3, SamePlan DEF ProvidersAreKnown, Working
<1>5. ConfiguredSoFar' BY <1>1, SamePlan DEF ConfiguredSoFar, Working
<1>6. ExtractedSoFar'
  <2>1. \A x : Merged(x)' = Merged(x) BY SamePlan
  <2>2. rss = Merged(State[Begun]) => rss' = Merged(State[Begun])'
    <3>1. PICK x : x = State[Begun] OBVIOUS
    <3>2. x = State'[Begun'] BY <1>3, <3>1
    <3> QED BY <2>1, <3>1, <3>2
  <2> QED BY <1>1, <1>3, <2>2 DEF ExtractedSoFar, Working
<1>7. QueriedSoFar'
  <2>1. (\A part \in Over : Queried(part, Len(PartOf(part)), {}))' BY <1>1, <1>3, OverStays
  <2>2. PICK part : part = extracting OBVIOUS
  <2>3. PICK n : n = Begun OBVIOUS
  <2>4. PICK w : w = toQuery OBVIOUS
  <2>5. Queried(part, n, w) => Queried(part, n, w)' BY SameQueried
  <2>6. Queried(extracting, Begun, toQuery) => Queried(extracting, Begun, toQuery)'
    BY <1>3, <2>2, <2>3, <2>4, <2>5
  <2> QED BY <1>1, <2>1, <2>6 DEF QueriedSoFar
<1> QED BY <1>2, <1>4, <1>5, <1>6, <1>7 DEF IInv

LEMMA InvStep == IInv /\ [Next]_vars => IInv'
<1> SUFFICES ASSUME IInv, [Next]_vars PROVE IInv' OBVIOUS
<1>1. CASE NoPriorState BY <1>1, NoPriorStep
<1>2. CASE ExtractProviders BY <1>2, ProvidersStep
<1>3. CASE ConfigureModule BY <1>3, ConfigureStep
<1>4. CASE ConfigurationFails BY <1>4, FailureStep
<1>5. CASE Configured BY <1>5, ConfiguredStep
<1>6. CASE ExtractModule BY <1>6, ExtractStep
<1>7. CASE BlockPanics BY <1>7, FailureStep
<1>8. CASE QueryResource BY <1>8, QueryStep
<1>9. CASE ModuleQueried BY <1>9, ModuleStep
<1>10. CASE Extracted BY <1>10, ExtractedStep
<1>11. CASE Finished BY <1>11, StutterStep DEF Finished
<1>12. CASE UNCHANGED vars BY <1>12, StutterStep
<1> QED BY <1>1, <1>2, <1>3, <1>4, <1>5, <1>6, <1>7, <1>8, <1>9, <1>10, <1>11, <1>12 DEF Next

LEMMA InvHolds == Spec => []IInv
BY InvInit, InvStep, PTL DEF Spec

(* Every variable keeps its type. *)
THEOREM TypeCorrect == Spec => []TypeOK
<1>1. IInv => TypeOK BY DEF IInv
<1> QED BY InvHolds, <1>1, PTL

-----------------------------------------------------------------------------
(* What a finished part has queries for. *)
LEMMA WantedOfPart ==
    ASSUME plan \in Plans, NEW part \in Parts
    PROVE  \A a : a \in WantedOf(part, Len(PartOf(part))) <=>
                     a \in Managed(part) /\ Configuring(a) # {}
<1>1. PICK s : s = PartOf(part) OBVIOUS
<1>2. s \in Seq(Range(s)) /\ Len(s) \in Nat BY <1>1, PartIs
<1>3. \A m : m \in Range(s) <=> \E k \in 1..Len(s) : m = s[k] BY <1>2 DEF Range
<1>4. \A a : a \in WantedOf(part, Len(s)) <=> \E k \in 1..Len(s) : a \in Wanted(s[k])
  BY <1>1 DEF WantedOf
<1>5. \A a : a \in WantedOf(part, Len(s)) <=> \E m \in Range(s) : a \in Wanted(m)
  BY <1>3, <1>4
<1>6. \A a : a \in Managed(part) <=>
             \E m \in Range(s) : \E r \in m.resources : r.managed /\ a = Address(m, r)
  BY <1>1 DEF Managed
<1> QED BY <1>1, <1>5, <1>6, WantedIs

(* The queries of a part that is over are, one to one, the managed         *)
(* resources that a known provider configures.                             *)
LEMMA QueriesAreExpected ==
    ASSUME plan \in Plans, NEW part \in Parts, NEW qs, Len(qs) \in Nat, DOMAIN qs = 1..Len(qs),
           QueriesOf(part, Len(PartOf(part)), {}, qs)
    PROVE  LET expected == {t \in Managed(part) \X MatchedKeys :
                               \E c \in Configuring(t[1]) : ProviderKey(c) = t[2]}
           IN /\ Len(qs) = Cardinality(expected)
              /\ {<<q.address, q.provider>> : q \in Range(qs)} =
                 {<<e[1], Providers[e[2]]>> : e \in expected}
<1>1. PICK n \in Nat : n = Len(qs) OBVIOUS
<1>2. PICK E : E = {t \in Managed(part) \X MatchedKeys : \E c \in Configuring(t[1]) : ProviderKey(c) = t[2]}
  OBVIOUS
<1>3. \A a : (\E i \in 1..n : qs[i].address = a) <=> a \in Managed(part) /\ Configuring(a) # {}
  <2>1. \A a : (\E i \in 1..n : qs[i].address = a) <=> a \in WantedOf(part, Len(PartOf(part)))
    BY <1>1 DEF QueriesOf
  <2> QED BY <2>1, WantedOfPart
<1>4. \A i, j \in 1..n : qs[i].address = qs[j].address => i = j BY <1>1 DEF QueriesOf
<1>5. \A i \in 1..n : \E c \in Configuring(qs[i].address) : qs[i].provider = Providers[ProviderKey(c)]
  BY <1>1 DEF QueriesOf, QueryOf
<1> DEFINE Key(a) == ProviderKey(CHOOSE c \in Configuring(a) : TRUE)
<1>6. \A a : \A c \in Configuring(a) : ProviderKey(c) = Key(a) /\ Key(a) \in MatchedKeys
  BY ConfiguringIs
<1> HIDE DEF Key
<1>7. ASSUME NEW i \in 1..n
      PROVE  <<qs[i].address, Key(qs[i].address)>> \in E /\ qs[i].provider = Providers[Key(qs[i].address)]
  <2>1. PICK a : a = qs[i].address OBVIOUS
  <2>2. PICK c \in Configuring(a) : qs[i].provider = Providers[ProviderKey(c)] BY <1>5, <2>1
  <2>3. ProviderKey(c) = Key(a) /\ Key(a) \in MatchedKeys BY <1>6
  <2>4. a \in Managed(part) BY <1>3, <2>1
  <2>5. <<a, Key(a)>> \in Managed(part) \X MatchedKeys BY <2>3, <2>4
  <2>6. <<a, Key(a)>>[1] = a /\ <<a, Key(a)>>[2] = Key(a) OBVIOUS
  <2>7. <<a, Key(a)>> \in E BY <1>2, <2>2, <2>3, <2>5, <2>6
  <2> QED BY <2>1, <2>2, <2>3, <2>7
<1>8. ASSUME NEW e \in E PROVE \E i \in 1..n : e = <<qs[i].address, Key(qs[i].address)>>
  <2>1. e \in Managed(part) \X MatchedKeys /\ \E c \in Configuring(e[1]) : ProviderKey(c) = e[2] BY <1>2
  <2>2. e = <<e[1], e[2]>> /\ e[1] \in Managed(part) BY <2>1
  <2>3. e[2] = Key(e[1]) /\ Configuring(e[1]) # {} BY <1>6, <2>1
  <2>4. PICK i \in 1..n : qs[i].address = e[1] BY <1>3, <2>2, <2>3
  <2> QED BY <2>2, <2>3, <2>4
<1>9. n = Cardinality(E)
  <2> DEFINE f == [i \in 1..n |-> <<qs[i].address, Key(qs[i].address)>>]
  <2>1. f \in [1..n -> E] BY <1>7
  <2>2. \A i, j \in 1..n : f[i] = f[j] => i = j
    <3>1. ASSUME NEW i \in 1..n, NEW j \in 1..n, f[i] = f[j] PROVE i = j
      <4>1. f[i][1] = qs[i].address /\ f[j][1] = qs[j].address OBVIOUS
      <4> QED BY <1>4, <3>1, <4>1
    <3> QED BY <3>1
  <2>3. \A e \in E : \E i \in 1..n : f[i] = e BY <1>8
  <2> HIDE DEF f
  <2>4. f \in Bijection(1..n, E)
    BY <2>1, <2>2, <2>3 DEF Bijection, Injection, Surjection, IsInjective
  <2>5. 1 \in Int /\ n \in Int OBVIOUS
  <2>6. IsFiniteSet(1..n) /\ Cardinality(1..n) = IF 1 > n THEN 0 ELSE n - 1 + 1
    BY <2>5, FS_Interval
  <2>7. Cardinality(1..n) = n BY <2>6
  <2>8. ExistsBijection(1..n, E) BY <2>4 DEF ExistsBijection
  <2> QED BY <2>6, <2>7, <2>8, FS_Bijection
<1>10. {<<q.address, q.provider>> : q \in Range(qs)} = {<<e[1], Providers[e[2]]>> : e \in E}
  <2>1. \A q : q \in Range(qs) <=> \E i \in 1..n : q = qs[i] BY <1>1 DEF Range
  <2>2. ASSUME NEW q \in Range(qs) PROVE <<q.address, q.provider>> \in {<<e[1], Providers[e[2]]>> : e \in E}
    <3>1. PICK i \in 1..n : q = qs[i] BY <2>1
    <3>2. PICK e : e = <<q.address, Key(q.address)>> OBVIOUS
    <3>3. e \in E /\ e[1] = q.address /\ q.provider = Providers[e[2]] BY <1>7, <3>1, <3>2
    <3> QED BY <3>3
  <2>3. ASSUME NEW e \in E PROVE <<e[1], Providers[e[2]]>> \in {<<q.address, q.provider>> : q \in Range(qs)}
    <3>1. PICK i \in 1..n : e = <<qs[i].address, Key(qs[i].address)>> BY <1>8
    <3>2. qs[i] \in Range(qs) /\ e[1] = qs[i].address /\ qs[i].provider = Providers[e[2]]
      BY <1>7, <2>1, <3>1
    <3> QED BY <3>2
  <2> QED BY <2>2, <2>3
<1> QED BY <1>1, <1>2, <1>9, <1>10

LEMMA OverIs ==
    ASSUME IInv, NEW part \in Over
    PROVE  /\ Len(queries[part]) \in Nat /\ DOMAIN queries[part] = 1..Len(queries[part])
           /\ QueriesOf(part, Len(PartOf(part)), {}, queries[part])
<1>1. part \in Parts BY DEF Over, Parts
<1>2. queries[part] \in Seq(Range(queries[part])) BY <1>1 DEF IInv, QueriedSoFar
<1>3. Len(queries[part]) \in Nat /\ DOMAIN queries[part] = 1..Len(queries[part])
  BY <1>2, LenProperties
<1> QED BY <1>3 DEF IInv, QueriedSoFar, Queried

(* The queries of a state are those of its managed resources that are still *)
(* configured with a key whose last part is that of a known provider of the *)
(* root module: each once, with that provider, however maps and modules are *)
(* walked.                                                                  *)
THEOREM QueriesMatch == Spec => []QueriesMatchState
<1>1. IInv => QueriesMatchState
  <2>1. SUFFICES ASSUME IInv, NEW part \in Over
        PROVE  LET expected == {t \in Managed(part) \X MatchedKeys :
                                   \E c \in Configuring(t[1]) : ProviderKey(c) = t[2]}
               IN /\ Len(queries[part]) = Cardinality(expected)
                  /\ {<<q.address, q.provider>> : q \in Range(queries[part])} =
                     {<<e[1], Providers[e[2]]>> : e \in expected}
    BY DEF QueriesMatchState
  <2>2. plan \in Plans /\ part \in Parts BY <2>1 DEF IInv, TypeOK, Over, Parts
  <2> QED BY <2>1, <2>2, OverIs, QueriesAreExpected
<1> QED BY InvHolds, <1>1, PTL

-----------------------------------------------------------------------------
(* What a merge keeps, and where its values come from. *)
LEMMA MergeIs ==
    ASSUME NEW own, NEW configured
    PROVE  LET merged == Merge(own, configured) IN
           /\ \A n \in DOMAIN own :
                 /\ n \in DOMAIN merged /\ Kept(own[n], merged[n])
                 /\ merged[n] = own[n] \/ merged[n].kind \in ValueKinds
           /\ \A n \in DOMAIN merged : n \notin DOMAIN own =>
                 n \in DOMAIN configured /\ merged[n] = configured[n]
<1> DEFINE both == [n \in DOMAIN own |-> IF n \in DOMAIN configured
                                         THEN MergeValue(own[n], configured[n]) ELSE own[n]]
           merged == Merge(own, configured)
<1>1. /\ DOMAIN merged = DOMAIN own \cup DOMAIN WithoutNull(configured)
      /\ \A n \in DOMAIN own : merged[n] = both[n]
      /\ \A n \in DOMAIN WithoutNull(configured) :
            n \notin DOMAIN own => merged[n] = WithoutNull(configured)[n]
  BY DEF Completed, Merge
<1>2. \A n \in DOMAIN WithoutNull(configured) :
         n \in DOMAIN configured /\ WithoutNull(configured)[n] = configured[n]
  BY DEF WithoutNull
<1>3. ASSUME NEW v, NEW c
      PROVE  /\ Kept(v, MergeValue(v, c))
             /\ MergeValue(v, c) = v \/ MergeValue(v, c).kind \in ValueKinds
  <2>1. CASE c.kind = "blocks" /\ v.kind = "blocks"
    <3>1. MergeValue(v, c) = [kind |-> "blocks", blocks |-> MergeBlocks(v.blocks, c.blocks)]
      BY <2>1 DEF MergeValue
    <3>2. PICK bs : bs = MergeBlocks(v.blocks, c.blocks) OBVIOUS
    <3>3. DOMAIN bs = DOMAIN v.blocks BY <3>2 DEF MergeBlocks
    <3>4. ASSUME NEW k \in DOMAIN v.blocks, NEW s \in DOMAIN v.blocks[k]
          PROVE  s \in DOMAIN bs[k] /\ bs[k][s] = v.blocks[k][s]
      <4>1. bs[k] = IF k \notin DOMAIN c.blocks THEN v.blocks[k]
                    ELSE Completed(v.blocks[k], WithoutNull(c.blocks[k]))
        BY <3>2 DEF MergeBlocks
      <4>2. CASE k \notin DOMAIN c.blocks BY <4>1, <4>2
      <4>3. CASE k \in DOMAIN c.blocks
        <5>1. bs[k] = Completed(v.blocks[k], WithoutNull(c.blocks[k])) BY <4>1, <4>3
        <5> QED BY <5>1 DEF Completed
      <4> QED BY <4>2, <4>3
    <3>5. MergeValue(v, c).kind = "blocks" /\ MergeValue(v, c).blocks = bs BY <3>1, <3>2
    <3> QED BY <2>1, <3>3, <3>4, <3>5 DEF Kept, ValueKinds
  <2>2. CASE c.kind = "map" /\ v.kind = "map"
    <3>1. MergeValue(v, c) = [kind |-> "map", map |-> Completed(WithoutNull(c.map), v.map)]
      BY <2>2 DEF MergeValue
    <3>2. DOMAIN v.map \subseteq DOMAIN Completed(WithoutNull(c.map), v.map) BY DEF Completed
    <3> QED BY <2>2, <3>1, <3>2 DEF Kept, ValueKinds
  <2>3. CASE c.kind = "list"
    <3>1. MergeValue(v, c) = c BY <2>3 DEF MergeValue
    <3> QED BY <2>3, <3>1 DEF Kept, ValueKinds
  <2>4. CASE ~(c.kind = "blocks" /\ v.kind = "blocks") /\ ~(c.kind = "map" /\ v.kind = "map")
             /\ c.kind # "list"
    <3>1. MergeValue(v, c) = v BY <2>4 DEF MergeValue
    <3> QED BY <3>1 DEF Kept
  <2> QED BY <2>1, <2>2, <2>3, <2>4
<1>4. \A n \in DOMAIN own : /\ n \in DOMAIN merged /\ Kept(own[n], merged[n])
                            /\ merged[n] = own[n] \/ merged[n].kind \in ValueKinds
  <2>1. ASSUME NEW n \in DOMAIN own
        PROVE  /\ n \in DOMAIN merged /\ Kept(own[n], merged[n])
               /\ merged[n] = own[n] \/ merged[n].kind \in ValueKinds
    <3>1. CASE n \in DOMAIN configured
      <4>1. merged[n] = MergeValue(own[n], configured[n]) /\ n \in DOMAIN merged BY <1>1, <3>1
      <4> QED BY <1>3, <4>1
    <3>2. CASE n \notin DOMAIN configured
      <4>1. merged[n] = own[n] /\ n \in DOMAIN merged BY <1>1, <3>2
      <4>2. Kept(own[n], merged[n]) BY <4>1 DEF Kept
      <4> QED BY <4>1, <4>2
    <3> QED BY <3>1, <3>2
  <2> QED BY <2>1
<1>5. \A n \in DOMAIN merged : n \notin DOMAIN own => n \in DOMAIN configured /\ merged[n] = configured[n]
  BY <1>1, <1>2
<1> QED BY <1>4, <1>5

(* The modules of a part, whose paths are of calls and whose values are no  *)
(* references.                                                              *)
LEMMA ModulesOfPart ==
    ASSUME plan \in Plans, NEW part \in Parts, NEW m \in Range(PartOf(part))
    PROVE  /\ \E C, I : m.path \in Seq([call : C, index : I])
           /\ \A r, s \in m.resources : r.name = s.name /\ r.index = s.index => r = s
           /\ \A r \in m.resources : \A n \in DOMAIN r.values : r.values[n].kind \in ValueKinds
<1>1. PICK s : s = PartOf(part) OBVIOUS
<1>2. plan[part] # Null
  <2>1. CASE plan[part] = Null
    <3>1. s = <<>> BY <1>1, <2>1 DEF PartOf
    <3>2. DOMAIN <<>> = {} OBVIOUS
    <3> QED BY <1>1, <3>1, <3>2 DEF Range
  <2> QED BY <2>1
<1>3. s \in {plan.prior, plan.planned} \ {Null} BY <1>1, <1>2 DEF PartOf, Parts
<1>4. /\ m.path \in Seq([call : {c.call : c \in Range(m.path)}, index : {c.index : c \in Range(m.path)}])
      /\ \A r, q \in m.resources : r.name = q.name /\ r.index = q.index => r = q
      /\ \A r \in m.resources : \A n \in DOMAIN r.values : r.values[n].kind \in ValueKinds
  BY <1>1, <1>3, PlansAssumption
<1>5. \E C, I : m.path \in Seq([call : C, index : I])
  <2>1. PICK C : C = {c.call : c \in Range(m.path)} OBVIOUS
  <2>2. PICK I : I = {c.index : c \in Range(m.path)} OBVIOUS
  <2>3. m.path \in Seq([call : C, index : I]) BY <1>4, <2>1, <2>2
  <2> QED BY <2>3
<1> QED BY <1>4, <1>5

(* `q` is made from the module `m`, all of whose resources have a query. *)
QueriedIn(qs, q, m) ==
    /\ q.address \in Wanted(m)
    /\ q.components = ResourceComponents(Merged(m), Merged(m)[q.address])
    /\ \A a \in Wanted(m) : \E other \in Range(qs) :
          other.address = a /\ other.components.own = Merged(m)[a]
    /\ \A other \in Range(qs) : other.address.path = m.path =>
          other.address \in Wanted(m) /\ other.components.own = Merged(m)[other.address]

(* A query of a part that is over, and its module. *)
LEMMA QueryIs ==
    ASSUME plan \in Plans, NEW part \in Parts, NEW qs, Len(qs) \in Nat, DOMAIN qs = 1..Len(qs),
           QueriesOf(part, Len(PartOf(part)), {}, qs), NEW q \in Range(qs)
    PROVE  \E m \in Range(PartOf(part)) : QueriedIn(qs, q, m)
<1>1. PICK s : s = PartOf(part) OBVIOUS
<1>2. s \in Seq(Range(s)) /\ Len(s) \in Nat /\ \A i \in 1..Len(s) : s[i] \in Range(s) BY <1>1, PartIs
<1>3. \A m : DOMAIN Merged(m) = Wanted(m) BY DEF Merged
<1>4. ASSUME NEW p \in Range(qs)
      PROVE  \E k \in 1..Len(s) :
                /\ p.address \in Wanted(s[k])
                /\ p.components = ResourceComponents(Merged(s[k]), Merged(s[k])[p.address])
  <2>1. PICK i \in 1..Len(qs) : p = qs[i] BY DEF Range
  <2>2. QueryOf(part, Len(s), p) BY <1>1, <2>1 DEF QueriesOf
  <2> QED BY <1>1, <1>3, <2>2 DEF QueryOf
<1>5. PICK k \in 1..Len(s) :
         /\ q.address \in Wanted(s[k])
         /\ q.components = ResourceComponents(Merged(s[k]), Merged(s[k])[q.address])
  BY <1>4
<1>6. PICK m : m = s[k] OBVIOUS
<1>7. m \in Range(s) BY <1>2, <1>6
<1>8. \A all, v : ResourceComponents(all, v).own = v BY DEF ResourceComponents
<1>9. ASSUME NEW a \in Wanted(m)
      PROVE  \E other \in Range(qs) : other.address = a /\ other.components.own = Merged(m)[a]
  <2>1. a \in WantedOf(part, Len(s)) BY <1>1, <1>6 DEF WantedOf
  <2>2. PICK i \in 1..Len(qs) : qs[i].address = a BY <1>1, <2>1 DEF QueriesOf
  <2>3. qs[i] \in Range(qs) BY DEF Range
  <2>4. PICK j \in 1..Len(s) :
           /\ a \in Wanted(s[j])
           /\ qs[i].components = ResourceComponents(Merged(s[j]), Merged(s[j])[a])
    BY <1>4, <2>2, <2>3
  <2>5. j = k BY <1>1, <1>6, <2>4, WantedApart
  <2> QED BY <1>6, <1>8, <2>2, <2>3, <2>4, <2>5
<1>10. ASSUME NEW other \in Range(qs), other.address.path = m.path
       PROVE  other.address \in Wanted(m) /\ other.components.own = Merged(m)[other.address]
  <2>1. PICK j \in 1..Len(s) :
           /\ other.address \in Wanted(s[j])
           /\ other.components = ResourceComponents(Merged(s[j]), Merged(s[j])[other.address])
    BY <1>4
  <2>2. other.address.path = s[j].path
    <3>1. \A r : Address(s[j], r).path = s[j].path BY DEF Address
    <3> QED BY <2>1, <3>1, WantedIs
  <2>3. j = k BY <1>1, <1>6, <1>10, <2>2, PartIs
  <2> QED BY <1>6, <1>8, <2>1, <2>3
<1> QED BY <1>1, <1>5, <1>6, <1>7, <1>9, <1>10 DEF QueriedIn

(* What the values of a query are merged of. *)
LEMMA MergedIs ==
    ASSUME plan \in Plans, NEW part \in Parts, NEW m \in Range(PartOf(part)), NEW a \in Wanted(m)
    PROVE  /\ a.path = m.path
           /\ Merged(m)[a] = Merge(ValuesIn(part, a), ConfiguredValues(a))
           /\ \A n \in DOMAIN ValuesIn(part, a) : ValuesIn(part, a)[n].kind \in ValueKinds
<1>1. PICK r \in m.resources : r.managed /\ a = Address(m, r) /\ Configuring(a) # {} BY WantedIs
<1>2. a.path = m.path BY <1>1 DEF Address
<1>3. \A other \in Range(PartOf(part)) : other.path = a.path => other = m
  <2>1. PICK s : s = PartOf(part) OBVIOUS
  <2>2. s \in Seq(Range(s)) /\ \A i, j \in 1..Len(s) : s[i].path = s[j].path => i = j BY <2>1, PartIs
  <2>3. \A x : x \in Range(s) <=> \E i \in 1..Len(s) : x = s[i] BY <2>2 DEF Range
  <2> QED BY <1>2, <2>1, <2>2, <2>3
<1>4. (CHOOSE other \in Range(PartOf(part)) : other.path = a.path) = m BY <1>2, <1>3
<1>5. \A q \in m.resources : Address(m, q) = a => q = r
  <2>1. ASSUME NEW q \in m.resources, Address(m, q) = a PROVE q = r
    <3>1. /\ Address(m, q).name = q.name /\ Address(m, q).index = q.index
          /\ Address(m, r).name = r.name /\ Address(m, r).index = r.index
      BY DEF Address
    <3>2. q.name = r.name /\ q.index = r.index BY <1>1, <2>1, <3>1
    <3> QED BY <3>2, ModulesOfPart
  <2> QED BY <2>1
<1>6. (CHOOSE q \in m.resources : Address(m, q) = a) = r BY <1>1, <1>5
<1>7. ValuesIn(part, a) = r.values BY <1>4, <1>6 DEF ValuesIn
<1>8. Merged(m)[a] = Merge(r.values, ConfiguredValues(a)) BY <1>6 DEF Merged
<1>9. \A n \in DOMAIN r.values : r.values[n].kind \in ValueKinds BY ModulesOfPart
<1> QED BY <1>2, <1>7, <1>8, <1>9

(* A query is made from the values of its own state, attribute by attribute *)
(* and block by block, but for constant lists and maps; what it refers to   *)
(* is of its own module and state.                                          *)
THEOREM ValuesAreOfTheState == Spec => []ValuesOfTheState
<1>1. IInv => ValuesOfTheState
  <2>1. SUFFICES ASSUME IInv, NEW part \in Over, NEW q \in Range(queries[part])
        PROVE  /\ LET own == ValuesIn(part, q.address)
                  IN \A n \in DOMAIN own : /\ n \in DOMAIN q.components.own
                                           /\ Kept(own[n], q.components.own[n])
               /\ \A values \in Range(q.components.referred) :
                     \E other \in Range(queries[part]) :
                        other.address.path = q.address.path /\ other.components.own = values
    BY DEF ValuesOfTheState
  <2>2. plan \in Plans /\ part \in Parts BY <2>1 DEF IInv, TypeOK, Over, Parts
  <2>3. PICK qs : qs = queries[part] OBVIOUS
  <2>4. Len(qs) \in Nat /\ DOMAIN qs = 1..Len(qs) /\ QueriesOf(part, Len(PartOf(part)), {}, qs)
    BY <2>1, <2>2, <2>3, OverIs
  <2>5. PICK m \in Range(PartOf(part)) :
           /\ q.address \in Wanted(m)
           /\ q.components = ResourceComponents(Merged(m), Merged(m)[q.address])
           /\ \A a \in Wanted(m) : \E other \in Range(qs) :
                 other.address = a /\ other.components.own = Merged(m)[a]
    <3>1. q \in Range(qs) BY <2>1, <2>3
    <3>2. PICK x \in Range(PartOf(part)) : QueriedIn(qs, q, x) BY <2>2, <2>4, <3>1, QueryIs
    <3> QED BY <3>2 DEF QueriedIn
  <2>6. /\ q.components.own = Merged(m)[q.address]
        /\ \A values \in Range(q.components.referred) : \E a \in DOMAIN Merged(m) : values = Merged(m)[a]
    <3>1. PICK all, values : all = Merged(m) /\ values = Merged(m)[q.address] OBVIOUS
    <3>2. DEFINE found == {n \in DOMAIN values : values[n].kind = "ref" /\ values[n].to \in DOMAIN all}
    <3>3. q.components = [own |-> values, referred |-> [n \in found |-> all[values[n].to]]]
      BY <2>5, <3>1 DEF ResourceComponents
    <3>4. \A n \in found : values[n].to \in DOMAIN all OBVIOUS
    <3> HIDE DEF found
    <3>5. q.components.own = values /\ q.components.referred = [n \in found |-> all[values[n].to]]
      BY ONLY <3>3
    <3>6. \A x \in Range(q.components.referred) : \E n \in found : x = all[values[n].to]
      BY ONLY <3>5 DEF Range
    <3> QED BY ONLY <3>1, <3>4, <3>5, <3>6
  <2>7. q.components.own = Merge(ValuesIn(part, q.address), ConfiguredValues(q.address))
    BY <2>2, <2>5, <2>6, MergedIs
  <2>8. DOMAIN Merged(m) = Wanted(m) BY DEF Merged
  <2>9. \A a \in Wanted(m) : a.path = m.path BY <2>2, MergedIs
  <2>10. ASSUME NEW values \in Range(q.components.referred)
         PROVE  \E other \in Range(qs) :
                   other.address.path = q.address.path /\ other.components.own = values
    <3>1. PICK a \in Wanted(m) : values = Merged(m)[a] BY <2>6, <2>8
    <3>2. PICK other \in Range(qs) : other.address = a /\ other.components.own = Merged(m)[a] BY <2>5
    <3> QED BY <2>5, <2>9, <3>1, <3>2
  <2> QED BY <2>3, <2>7, <2>10, MergeIs
<1> QED BY InvHolds, <1>1, PTL

(* A reference among the configured values is to an address in the module. *)
LEMMA ReferenceIs ==
    ASSUME plan \in Plans, NEW a, NEW c \in Configuring(a),
           ~Undeclared(c.expressions, plan.modules[Calls(a.path)].variables),
           NEW n \in DOMAIN ConfiguredValues(a), ConfiguredValues(a)[n].kind = "ref"
    PROVE  \E name, index : ConfiguredValues(a)[n].to =
              [path |-> ReferencePath(Calls(a.path)), name |-> name, index |-> index]
<1>1. PICK path : path = Calls(a.path) OBVIOUS
<1>2. path \in DOMAIN plan.modules /\ c \in plan.modules[path].resources
  BY <1>1, ConfiguringIs DEF Ours
<1>3. PICK exprs : exprs = c.expressions OBVIOUS
<1>4. PICK variables : variables = plan.modules[path].variables OBVIOUS
<1>5. /\ \A k \in DOMAIN exprs : exprs[k].kind = "const" => exprs[k].value.kind \in ValueKinds
      /\ \A k \in DOMAIN variables : variables[k].kind \in ValueKinds
  BY <1>2, <1>3, <1>4, PlansAssumption
<1>6. ConfiguredValues(a) = EvaluateResource(exprs, path, variables)
  <2>1. c = CHOOSE d \in Configuring(a) : TRUE BY ConfiguringIs
  <2> QED BY <1>1, <1>3, <1>4, <2>1 DEF ConfiguredValues
<1> DEFINE lists   == {k \in DOMAIN exprs : exprs[k].kind = "blocks"}
           blocks  == [k \in lists |->
                         [kind |-> "blocks",
                          blocks |-> [j \in DOMAIN exprs[k].blocks |->
                                        EvaluateMap(exprs[k].blocks[j], path, variables)]]]
           others  == EvaluateMap(exprs, path, variables)
<1>7. PICK values : values = Completed(blocks, others) OBVIOUS
<1>8. values = ConfiguredValues(a) BY <1>6, <1>7 DEF EvaluateResource
<1>9. \A k \in lists : blocks[k].kind = "blocks" OBVIOUS
<1>10. DOMAIN blocks = lists OBVIOUS
<1>11. /\ DOMAIN others = {k \in DOMAIN exprs : exprs[k].kind \in Evaluated}
       /\ \A k \in DOMAIN others : others[k] = Evaluate(exprs[k], path, variables)
  BY DEF EvaluateMap
<1> HIDE DEF blocks, others
<1>12. n \in DOMAIN others /\ values[n] = others[n]
  <2>1. n \in DOMAIN blocks \/ n \in DOMAIN others BY <1>7, <1>8 DEF Completed
  <2>2. n \in DOMAIN blocks => values[n] = blocks[n] BY <1>7 DEF Completed
  <2>3. n \notin DOMAIN blocks BY <1>8, <1>9, <1>10, <2>2
  <2> QED BY <1>7, <2>1, <2>3 DEF Completed
<1>13. PICK e : e = exprs[n] OBVIOUS
<1>14. n \in DOMAIN exprs /\ e.kind \in Evaluated /\ Evaluate(e, path, variables).kind = "ref"
  BY <1>8, <1>11, <1>12, <1>13
<1>15. e.kind # "const"
  <2>1. CASE e.kind = "const"
    <3>1. Evaluate(e, path, variables) = e.value BY <2>1 DEF Evaluate
    <3>2. e.value.kind \in ValueKinds BY <1>5, <1>13, <1>14, <2>1
    <3> QED BY <1>14, <3>1, <3>2 DEF ValueKinds
  <2> QED BY <2>1
<1>16. e.kind # "var"
  <2>1. CASE e.kind = "var"
    <3>1. Evaluate(e, path, variables) = variables[e.name] BY <2>1 DEF Evaluate
    <3>2. e.name \in DOMAIN variables BY <1>1, <1>3, <1>4, <1>13, <1>14, <2>1 DEF Undeclared
    <3>3. variables[e.name].kind \in ValueKinds BY <1>5, <3>2
    <3> QED BY <1>14, <3>1, <3>3 DEF ValueKinds
  <2> QED BY <2>1
<1>17. e.kind = "ref" BY <1>14, <1>15, <1>16 DEF Evaluated
<1>18. Evaluate(e, path, variables) =
          [kind |-> "ref", to |-> [path |-> ReferencePath(path), name |-> e.to, index |-> e.index]]
  BY <1>17 DEF Evaluate
<1>19. values[n].to = [path |-> ReferencePath(path), name |-> e.to, index |-> e.index]
  <2>1. values[n] = Evaluate(e, path, variables) BY <1>11, <1>12, <1>13
  <2> QED BY <1>18, <2>1
<1> QED BY <1>1, <1>8, <1>19

(* The path of a reference is that of the module, if no call has an index. *)
LEMMA ReferencePathIs ==
    ASSUME NEW C, NEW I, NEW path \in Seq([call : C, index : I]), path # <<>>,
           \A k \in DOMAIN path : path[k].index = NoIndex
    PROVE  ReferencePath(Calls(path)) = path
<1>1. PICK n \in Nat : n = Len(path) OBVIOUS
<1>2. DOMAIN path = 1..n /\ path = [k \in 1..n |-> path[k]] /\ n # 0 BY <1>1
<1>3. ASSUME NEW k \in 1..n PROVE path[k] = [call |-> path[k].call, index |-> NoIndex]
  <2>1. path[k] \in [call : C, index : I]
    <3>1. PICK R : R = [call : C, index : I] OBVIOUS
    <3>2. path \in Seq(R) /\ k \in 1..Len(path) BY <1>1, <3>1
    <3>3. path[k] \in R BY ONLY <3>2, ElementOfSeq
    <3> QED BY <3>1, <3>3
  <2>2. path[k].index = NoIndex BY <1>2
  <2> QED BY <2>1, <2>2
<1>4. PICK calls : calls = Calls(path) OBVIOUS
<1>5. DOMAIN calls = 1..n /\ \A k \in 1..n : calls[k] = path[k].call BY <1>2, <1>4 DEF Calls
<1>6. calls # <<>>
  <2>1. 1 \in DOMAIN calls BY <1>2, <1>5
  <2>2. DOMAIN <<>> = {} OBVIOUS
  <2> QED BY <2>1, <2>2
<1>7. ReferencePath(calls) = [k \in 1..n |-> [call |-> calls[k], index |-> NoIndex]]
  BY <1>5, <1>6 DEF ReferencePath
<1>8. [k \in 1..n |-> [call |-> calls[k], index |-> NoIndex]] = [k \in 1..n |-> path[k]]
  BY <1>3, <1>5
<1> QED BY <1>2, <1>4, <1>7, <1>8

(* A reference of a new resource in a module that is called once, to a     *)
(* resource of its module with neither count nor for_each, finds the very  *)
(* values the query of the resource it names is made from.                 *)
THEOREM ReferencesAreResolved == Spec => []ReferencesResolve
<1>1. IInv => ReferencesResolve
  <2>1. SUFFICES ASSUME IInv, NEW part \in Over, NEW q \in Range(queries[part]),
                        NEW n \in DOMAIN q.components.own,
                        q.components.own[n].kind = "ref", q.address.path # <<>>,
                        \A k \in DOMAIN q.address.path : q.address.path[k].index = NoIndex,
                        NEW other \in Range(queries[part]),
                        other.address = NamedBy(q, n)
                 PROVE  /\ n \in DOMAIN q.components.referred
                        /\ q.components.referred[n] = other.components.own
    BY DEF ReferencesResolve
  <2>2. plan \in Plans /\ part \in Parts BY <2>1 DEF IInv, TypeOK, Over, Parts
  <2>3. PICK qs : qs = queries[part] OBVIOUS
  <2>4. Len(qs) \in Nat /\ DOMAIN qs = 1..Len(qs) /\ QueriesOf(part, Len(PartOf(part)), {}, qs)
    BY <2>1, <2>2, <2>3, OverIs
  <2>5. PICK m \in Range(PartOf(part)) :
           /\ q.address \in Wanted(m)
           /\ q.components = ResourceComponents(Merged(m), Merged(m)[q.address])
           /\ \A o \in Range(qs) : o.address.path = m.path =>
                 o.address \in Wanted(m) /\ o.components.own = Merged(m)[o.address]
    <3>1. q \in Range(qs) BY <2>1, <2>3
    <3>2. PICK x \in Range(PartOf(part)) : QueriedIn(qs, q, x) BY <2>2, <2>4, <3>1, QueryIs
    <3> QED BY <3>2 DEF QueriedIn
  <2>6. PICK a : a = q.address OBVIOUS
  <2>7. PICK all : all = Merged(m) OBVIOUS
  <2>8. q.components.own = all[a] /\ q.components.referred =
            [k \in {k \in DOMAIN all[a] : all[a][k].kind = "ref" /\ all[a][k].to \in DOMAIN all} |->
                all[all[a][k].to]]
    BY <2>5, <2>6, <2>7 DEF ResourceComponents
  <2>9. /\ a.path = m.path /\ all[a] = Merge(ValuesIn(part, a), ConfiguredValues(a))
        /\ \A k \in DOMAIN ValuesIn(part, a) : ValuesIn(part, a)[k].kind \in ValueKinds
    BY <2>2, <2>5, <2>6, <2>7, MergedIs
  <2>10. n \in DOMAIN ConfiguredValues(a) /\ all[a][n] = ConfiguredValues(a)[n]
    <3>1. n \in DOMAIN all[a] /\ all[a][n].kind = "ref" BY <2>1, <2>8
    <3>2. "ref" \notin ValueKinds BY DEF ValueKinds
    <3>3. PICK own : own = ValuesIn(part, a) OBVIOUS
    <3>4. PICK configured : configured = ConfiguredValues(a) OBVIOUS
    <3>5. PICK merged : merged = Merge(own, configured) OBVIOUS
    <3>6. n \notin DOMAIN own BY <2>9, <3>1, <3>2, <3>3, <3>4, MergeIs
    <3> QED BY <2>9, <3>1, <3>3, <3>4, <3>6, MergeIs
  <2>11. PICK c \in Configuring(a) :
            ~Undeclared(c.expressions, plan.modules[Calls(a.path)].variables)
    <3>1. PICK i \in 1..Len(qs) : q = qs[i] BY <2>1, <2>3, <2>4 DEF Range
    <3>2. QueryOf(part, Len(PartOf(part)), q) BY <2>4, <3>1 DEF QueriesOf
    <3> QED BY <2>6, <3>2 DEF QueryOf
  <2>12. PICK to : to = all[a][n].to OBVIOUS
  <2>13. PICK name, index : to = [path |-> ReferencePath(Calls(a.path)), name |-> name, index |-> index]
    <3>1. ConfiguredValues(a)[n].kind = "ref" BY <2>1, <2>8, <2>10
    <3>2. \E name, index : ConfiguredValues(a)[n].to =
            [path |-> ReferencePath(Calls(a.path)), name |-> name, index |-> index]
      BY <2>2, <2>10, <2>11, <3>1, ReferenceIs
    <3> QED BY <2>10, <2>12, <3>2
  <2>14. ReferencePath(Calls(a.path)) = a.path
    <3>1. \E C, I : m.path \in Seq([call : C, index : I]) BY <2>2, <2>5, ModulesOfPart
    <3>2. PICK C, I : m.path \in Seq([call : C, index : I]) BY <3>1
    <3> QED BY <2>1, <2>6, <2>9, <3>2, ReferencePathIs
  <2>15. other.address = to
    <3>1. PICK r \in m.resources : a = Address(m, r) BY <2>5, <2>6, WantedIs
    <3>2. a = [path |-> a.path, name |-> a.name, index |-> a.index] BY <3>1 DEF Address
    <3>3. other.address = [a EXCEPT !.name = to.name, !.index = to.index]
      BY <2>1, <2>6, <2>8, <2>12 DEF NamedBy
    <3>4. other.address = [path |-> a.path, name |-> to.name, index |-> to.index] BY <3>2, <3>3
    <3> QED BY <2>13, <2>14, <3>4
  <2>16. other.address \in Wanted(m) /\ other.components.own = all[to]
    <3>1. other.address.path = m.path BY <2>9, <2>13, <2>14, <2>15
    <3> QED BY <2>1, <2>3, <2>5, <2>7, <2>15, <3>1
  <2>17. DOMAIN all = Wanted(m) BY <2>7 DEF Merged
  <2>18. n \in DOMAIN all[a] /\ all[a][n].kind = "ref" /\ all[a][n].to \in DOMAIN all
    BY <2>1, <2>8, <2>12, <2>15, <2>16, <2>17
  <2> QED BY <2>8, <2>12, <2>16, <2>18
<1> QED BY InvHolds, <1>1, PTL
=============================================================================
