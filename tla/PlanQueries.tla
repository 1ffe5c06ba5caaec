----------------------------- MODULE PlanQueries -----------------------------
(***************************************************************************)
(* The queries EstimateTerraformPlan extracts from a Terraform plan: first *)
(* of its prior state, then of its planned values.  Each extraction makes  *)
(* the providers of the configuration, walks its modules to learn which    *)
(* provider and which configured values a resource has, and then walks the *)
(* modules of the state, merging both and asking the provider for the      *)
(* components.  Go's maps are iterated in any order.                       *)
(*                                                                         *)
(* An address is a path of module calls, a name and an index; a configured *)
(* resource is known by the address without its indexes.                   *)
(***************************************************************************)
EXTENDS Integers, Sequences, FiniteSets, Functions, SequencesExt

CONSTANTS Plans,        \* what a plan file may hold
          KnownNames,   \* the names the provider initializers match
          NoIndex,      \* of a module call or resource without count, for_each
          Null          \* a value that is not there, or null

(***************************************************************************)
(* A plan:                                                                 *)
(*   providerConfig   key -> [name, region], region an expression; a key   *)
(*                    is the sequence of its parts between colons: that of *)
(*                    a child module's provider has the module before it   *)
(*   variables        name -> value, of the root module                    *)
(*   modules          path of calls -> [resources, variables]; a resource  *)
(*                    is [name, key, expressions], its key that of the     *)
(*                    provider Terraform gives it                          *)
(*   prior, planned   Null or a sequence of [path, resources] in the order *)
(*                    of the walk; a resource is                           *)
(*                    [name, index, managed, values]                       *)
(* Values and expressions are records with a `kind`: a value is "base", a  *)
(* "list" or "map" of such, a "ref" or a list of "blocks".                 *)
(***************************************************************************)
(***************************************************************************)
(* What Terraform guarantees of a plan file: there is a root module, a     *)
(* module is called by another one, the resources of a module have names   *)
(* of their own, no two modules of a state have one path, and no two       *)
(* resources of a module one address.  Only an expression is a reference.  *)
(***************************************************************************)
ValueKinds == {"base", "list", "map", "blocks"}

ASSUME PlansAssumption ==
    \A p \in Plans :
        /\ <<>> \in DOMAIN p.modules
        /\ \A path \in DOMAIN p.modules :
              /\ path \in Seq(Range(path))
              /\ \A k \in 0..Len(path) : SubSeq(path, 1, k) \in DOMAIN p.modules
              /\ \A r, s \in p.modules[path].resources : r.name = s.name => r = s
              /\ \A r \in p.modules[path].resources : \A n \in DOMAIN r.expressions :
                    r.expressions[n].kind = "const" => r.expressions[n].value.kind \in ValueKinds
              /\ \A n \in DOMAIN p.modules[path].variables :
                    p.modules[path].variables[n].kind \in ValueKinds
        /\ \A state \in {p.prior, p.planned} \ {Null} :
              /\ state \in Seq(Range(state))
              /\ \A i, j \in 1..Len(state) : state[i].path = state[j].path => i = j
              /\ \A m \in Range(state) :
                    /\ m.path \in Seq([call : {c.call : c \in Range(m.path)},
                                       index : {c.index : c \in Range(m.path)}])
                    /\ \A r, s \in m.resources : r.name = s.name /\ r.index = s.index => r = s
                    /\ \A r \in m.resources : \A n \in DOMAIN r.values :
                          r.values[n].kind \in ValueKinds

VARIABLES
    plan,
    extracting,   \* "prior", then "planned"
    pc,           \* providers, configuration, modules, resources, or the end
    providers,    \* key -> [name, region]
    toConfigure,  \* paths of configured modules still to be walked
    resourceProviders,  \* configured resource -> [provider, values]
    toExtract,    \* modules of the state still to be walked
    rss,          \* address -> merged values, of the module being walked
    toQuery,      \* its resources that have no query yet
    queries       \* what the two extractions returned or are about to

vars == <<plan, extracting, pc, providers, toConfigure, resourceProviders,
          toExtract, rss, toQuery, queries>>

EmptyFunction == [x \in {} |-> x]

(* The map `f`, and of `g` what `f` has not. *)
Completed(f, g) == [x \in DOMAIN f \cup DOMAIN g |-> IF x \in DOMAIN f THEN f[x] ELSE g[x]]

Base(v)       == [kind |-> "base", value |-> v]
Calls(path)   == [k \in DOMAIN path |-> path[k].call]

(* cleanResourceAddresss *)
Clean(a) == [path |-> Calls(a.path), name |-> a.name]
Address(m, r) == [path |-> m.path, name |-> r.name, index |-> r.index]

-----------------------------------------------------------------------------
(* evaluateProviderConfigExpressions: a constant that is not empty, or     *)
(* else the variable of the root module with the name in the first         *)
(* reference, whatever that refers to: a variable, a local, data.          *)
ProviderRegion(e) ==
    CASE e.kind = "const" -> e.value
      [] e.kind \in {"var", "local", "data"} /\ e.name \in DOMAIN plan.variables ->
            plan.variables[e.name]
      [] OTHER -> Base(Null)

MatchedKeys == {k \in DOMAIN plan.providerConfig :
                  plan.providerConfig[k].name \in KnownNames}

(* The providers of the configuration. *)
Providers == [k \in MatchedKeys |->
                 [name |-> plan.providerConfig[k].name,
                  region |-> ProviderRegion(plan.providerConfig[k].region)]]

BadProvider == \E k \in MatchedKeys : ProviderRegion(plan.providerConfig[k].region) = Base(Null)

(* evaluateResourceExpressions: what is evaluated of the expressions of a  *)
(* resource.  Locals, data and outputs of modules are left out; a          *)
(* reference becomes the address of the resource in the module.            *)
Evaluated == {"const", "var", "ref"}

(* Mutation: the prefix is always put in front. *)
ReferencePathPrefixed(path) ==
    [k \in 1..(Len(path) + 1) |->
        [call |-> (<<"">> \o path)[k], index |-> NoIndex]]

(* "module." and the prefix: for the root module the prefix is empty, and  *)
(* so is the name of the call.                                             *)
ReferencePath(path) ==
    LET calls == IF path = <<>> THEN <<"">> ELSE path
    IN [k \in DOMAIN calls |-> [call |-> calls[k], index |-> NoIndex]]

Evaluate(e, path, variables) ==
    CASE e.kind = "const" -> e.value
      [] e.kind = "var"   -> variables[e.name]
      [] e.kind = "ref"   -> [kind |-> "ref",
                              to |-> [path |-> ReferencePath(path), name |-> e.to,
                                      index |-> e.index]]

EvaluateMap(exprs, path, variables) ==
    LET names == {n \in DOMAIN exprs : exprs[n].kind \in Evaluated}
    IN [n \in names |-> Evaluate(exprs[n], path, variables)]

EvaluateResource(exprs, path, variables) ==
    LET lists == {n \in DOMAIN exprs : exprs[n].kind = "blocks"}
    IN Completed([n \in lists |->
                     [kind |-> "blocks",
                      blocks |-> [k \in DOMAIN exprs[n].blocks |->
                                    EvaluateMap(exprs[n].blocks[k], path, variables)]]],
                 EvaluateMap(exprs, path, variables))

(* A variable the module does not declare is an error. *)
Undeclared(exprs, variables) ==
    LET Bad(e) == e.kind = "var" /\ e.name \notin DOMAIN variables
    IN \E n \in DOMAIN exprs :
          \/ Bad(exprs[n])
          \/ exprs[n].kind = "blocks" /\
             \E k \in DOMAIN exprs[n].blocks : \E s \in DOMAIN exprs[n].blocks[k] :
                Bad(exprs[n].blocks[k][s])

(* The key a resource's provider is looked up with: the last part of that  *)
(* of the configuration, so that the provider of a child module is the     *)
(* root's of the same name.                                                *)
ProviderKey(r) == <<Last(r.key)>>

-----------------------------------------------------------------------------
(* The merge of the configured values into those of the state. *)
NotNull(v) == v # Base(Null)
WithoutNull(values) == [n \in {n \in DOMAIN values : NotNull(values[n])} |-> values[n]]

(* What the configuration has a map or blocks for is none in the state, or *)
(* there are fewer blocks: a type assertion fails, or an index is out of   *)
(* range.                                                                  *)
Unmergeable(own, configured) ==
    \E n \in DOMAIN own \cap DOMAIN configured :
        \/ /\ configured[n].kind = "blocks" /\ configured[n].blocks # <<>>
           /\ own[n].kind # "blocks" \/ Len(configured[n].blocks) > Len(own[n].blocks)
        \/ /\ configured[n].kind = "map" /\ own[n].kind # "map"
           /\ DOMAIN WithoutNull(configured[n].map) # {}

MergeBlocks(own, configured) ==
    [k \in DOMAIN own |->
        IF k \notin DOMAIN configured THEN own[k]
        ELSE Completed(own[k], WithoutNull(configured[k]))]

(* Mutation: the configured value is the one that counts. *)
MergeConfiguredFirst(own, configured) ==
    Completed(WithoutNull(configured), own)

MergeValue(own, configured) ==
    CASE configured.kind = "blocks" /\ own.kind = "blocks" ->
            [kind |-> "blocks", blocks |-> MergeBlocks(own.blocks, configured.blocks)]
      [] configured.kind = "map" /\ own.kind = "map" ->
            [kind |-> "map", map |-> Completed(WithoutNull(configured.map), own.map)]
      [] configured.kind = "list" -> configured
      [] OTHER -> own

(* What the state has stays - but for lists and maps of constants, which   *)
(* are those of the configuration.  What it has not is taken from the      *)
(* configuration, and so are the missing attributes of blocks.             *)
Merge(own, configured) ==
    Completed([n \in DOMAIN own |-> IF n \in DOMAIN configured
                                    THEN MergeValue(own[n], configured[n]) ELSE own[n]],
              WithoutNull(configured))

(* Provider.ResourceComponents, as the estimators use it: components       *)
(* depend on the values of the resource and, by attribute, on those of the *)
(* resource it refers to by its address among those of the module.         *)
ResourceComponents(all, values) ==
    LET found == {n \in DOMAIN values : values[n].kind = "ref" /\ values[n].to \in DOMAIN all}
    IN [own |-> values, referred |-> [n \in found |-> all[values[n].to]]]

-----------------------------------------------------------------------------
State == IF extracting = "prior" THEN plan.prior ELSE plan.planned

(* Mutation: the map of the last module is kept. *)
StartKeepingResources(part) ==
    /\ extracting' = part
    /\ pc' = "providers"
    /\ providers' = EmptyFunction
    /\ toConfigure' = {} /\ resourceProviders' = EmptyFunction
    /\ toExtract' = <<>>
    /\ UNCHANGED <<rss, toQuery>>

(* Where an extraction begins. *)
StartOf(part) ==
    /\ extracting' = part
    /\ pc' = "providers"
    /\ providers' = EmptyFunction
    /\ toConfigure' = {} /\ resourceProviders' = EmptyFunction
    /\ toExtract' = <<>>
    /\ rss' = EmptyFunction /\ toQuery' = {}

Init ==
    /\ plan \in Plans
    /\ extracting = "prior" /\ pc = "providers"
    /\ providers = EmptyFunction
    /\ toConfigure = {} /\ resourceProviders = EmptyFunction
    /\ toExtract = <<>>
    /\ rss = EmptyFunction /\ toQuery = {}
    /\ queries = [part \in {"prior", "planned"} |-> <<>>]

(* There is no prior state: no queries. *)
NoPriorState ==
    /\ pc = "providers" /\ extracting = "prior"
    /\ plan.prior = Null
    /\ StartOf("planned")
    /\ UNCHANGED <<plan, queries>>

(* extractProviders: an expression that cannot be evaluated is an error,   *)
(* and so is a configuration without a provider that is known.             *)
ExtractProviders ==
    /\ pc = "providers"
    /\ State # Null
    /\ IF BadProvider \/ MatchedKeys = {}
       THEN pc' = "failed" /\ UNCHANGED <<providers, toConfigure, toExtract>>
       ELSE /\ providers' = Providers
            /\ pc' = "configuration"
            /\ toConfigure' = {<<>>}
            /\ toExtract' = State
    /\ UNCHANGED <<plan, extracting, resourceProviders, rss, toQuery, queries>>

Children(path) == {p \in DOMAIN plan.modules : Len(p) = Len(path) + 1 /\ IsPrefix(path, p)}

(* Mutation: the children of a module take the place of those waiting. *)
ConfigureModuleOnly ==
    /\ pc = "configuration"
    /\ \E path \in toConfigure :
        LET module == plan.modules[path]
            ours == {r \in module.resources : ProviderKey(r) \in DOMAIN providers}
        IN /\ ~\E r \in ours : Undeclared(r.expressions, module.variables)
           /\ resourceProviders' = Completed(resourceProviders,
                [c \in {[path |-> path, name |-> r.name] : r \in ours} |->
                   LET r == CHOOSE r \in ours : r.name = c.name
                   IN [provider |-> providers[ProviderKey(r)],
                       values |-> EvaluateResource(r.expressions, path, module.variables)]])
           /\ toConfigure' = Children(path)
    /\ UNCHANGED <<plan, extracting, pc, providers, toExtract, rss, toQuery, queries>>

(* extractModuleConfiguration of one module. *)
ConfigureModule ==
    /\ pc = "configuration"
    /\ \E path \in toConfigure :
        LET module == plan.modules[path]
            ours == {r \in module.resources : ProviderKey(r) \in DOMAIN providers}
        IN /\ ~\E r \in ours : Undeclared(r.expressions, module.variables)
           /\ resourceProviders' = Completed(resourceProviders,
                [c \in {[path |-> path, name |-> r.name] : r \in ours} |->
                   LET r == CHOOSE r \in ours : r.name = c.name
                   IN [provider |-> providers[ProviderKey(r)],
                       values |-> EvaluateResource(r.expressions, path, module.variables)]])
           /\ toConfigure' = (toConfigure \ {path}) \cup Children(path)
    /\ UNCHANGED <<plan, extracting, pc, providers, toExtract, rss, toQuery, queries>>

ConfigurationFails ==
    /\ pc = "configuration"
    /\ \E path \in toConfigure : \E r \in plan.modules[path].resources :
          ProviderKey(r) \in DOMAIN providers /\ Undeclared(r.expressions, plan.modules[path].variables)
    /\ pc' = "failed"
    /\ UNCHANGED <<plan, extracting, providers, toConfigure, resourceProviders,
                   toExtract, rss, toQuery, queries>>

Configured ==
    /\ pc = "configuration" /\ toConfigure = {}
    /\ pc' = "modules"
    /\ UNCHANGED <<plan, extracting, providers, toConfigure, resourceProviders,
                   toExtract, rss, toQuery, queries>>

(* The resources of a module that extractModuleQueries takes. *)
Taken(m) == {r \in m.resources : r.managed /\ Clean(Address(m, r)) \in DOMAIN resourceProviders}

(* The first loop of extractModuleQueries. *)
ExtractModule ==
    /\ pc = "modules" /\ toExtract # <<>>
    /\ LET m == Head(toExtract)
       IN /\ \A r \in Taken(m) :
                ~Unmergeable(r.values, resourceProviders[Clean(Address(m, r))].values)
          /\ rss' = [a \in {Address(m, r) : r \in Taken(m)} |->
                LET r == CHOOSE r \in Taken(m) : Address(m, r) = a
                IN Merge(r.values, resourceProviders[Clean(a)].values)]
          /\ toQuery' = DOMAIN rss'
    /\ toExtract' = Tail(toExtract)
    /\ pc' = "resources"
    /\ UNCHANGED <<plan, extracting, providers, toConfigure, resourceProviders, queries>>

(* tfres.Values[k].([]interface{})[i], vv.(map[string]interface{}). *)
BlockPanics ==
    /\ pc = "modules" /\ toExtract # <<>>
    /\ LET m == Head(toExtract)
       IN \E r \in Taken(m) :
             Unmergeable(r.values, resourceProviders[Clean(Address(m, r))].values)
    /\ pc' = "panicked"
    /\ UNCHANGED <<plan, extracting, providers, toConfigure, resourceProviders,
                   toExtract, rss, toQuery, queries>>

(* The second loop, in the order of the map. *)
QueryResource ==
    /\ pc = "resources"
    /\ \E a \in toQuery :
          /\ queries' = [queries EXCEPT ![extracting] = Append(@,
                [address |-> a, provider |-> resourceProviders[Clean(a)].provider,
                 components |-> ResourceComponents(rss, rss[a])])]
          /\ toQuery' = toQuery \ {a}
    /\ UNCHANGED <<plan, extracting, pc, providers, toConfigure, resourceProviders,
                   toExtract, rss>>

ModuleQueried ==
    /\ pc = "resources" /\ toQuery = {}
    /\ pc' = "modules"
    /\ UNCHANGED <<plan, extracting, providers, toConfigure, resourceProviders,
                   toExtract, rss, toQuery, queries>>

(* An extraction returns; the planned values come after the prior state. *)
Extracted ==
    /\ pc = "modules" /\ toExtract = <<>>
    /\ IF extracting = "prior" THEN StartOf("planned")
       ELSE /\ pc' = "done"
            /\ UNCHANGED <<extracting, providers, toConfigure, resourceProviders,
                           toExtract, rss, toQuery>>
    /\ UNCHANGED <<plan, queries>>

Finished == pc \in {"done", "failed", "panicked"} /\ UNCHANGED vars

Next ==
    \/ NoPriorState \/ ExtractProviders
    \/ ConfigureModule \/ ConfigurationFails \/ Configured
    \/ ExtractModule \/ BlockPanics \/ QueryResource \/ ModuleQueried
    \/ Extracted \/ Finished

Spec == Init /\ [][Next]_vars

-----------------------------------------------------------------------------
TypeOK ==
    /\ plan \in Plans
    /\ extracting \in {"prior", "planned"}
    /\ pc \in {"providers", "configuration", "modules", "resources",
               "done", "failed", "panicked"}
    /\ DOMAIN providers \subseteq DOMAIN plan.providerConfig
    /\ toConfigure \subseteq DOMAIN plan.modules
    /\ \A c \in DOMAIN resourceProviders :
          resourceProviders[c].provider \in Range(providers)
    /\ toQuery \subseteq DOMAIN rss
    /\ \A a \in DOMAIN rss : Clean(a) \in DOMAIN resourceProviders

(* The parts of the plan whose extraction is over. *)
Over == IF pc = "done" THEN {"prior", "planned"}
        ELSE IF extracting = "planned" THEN {"prior"} ELSE {}

PartOf(part) == IF plan[part] = Null THEN <<>> ELSE plan[part]

(* The addresses of the managed resources of a state. *)
Managed(part) ==
    UNION {{Address(m, r) : r \in {r \in m.resources : r.managed}} : m \in Range(PartOf(part))}

(* The configured resource an address of the state belongs to, if any. *)
Configuring(a) ==
    {r \in UNION {plan.modules[p].resources : p \in {Calls(a.path)} \cap DOMAIN plan.modules} :
        r.name = a.name /\ ProviderKey(r) \in MatchedKeys}

(* The queries of a state are those of its managed resources that are still *)
(* configured with a key whose last part is that of a known provider of the *)
(* root module: each once, with that provider, in whatever order maps and   *)
(* modules are walked.  (What the plan removes is not configured, and has   *)
(* no prior query; a provider that a child module configures is never that  *)
(* of a query.)                                                             *)
QueriesMatchState ==
    \A part \in Over :
        LET expected == {t \in Managed(part) \X MatchedKeys :
                            \E c \in Configuring(t[1]) : ProviderKey(c) = t[2]}
        IN /\ Len(queries[part]) = Cardinality(expected)
           /\ {<<q.address, q.provider>> : q \in Range(queries[part])} =
              {<<e[1], Providers[e[2]]>> : e \in expected}

ValuesIn(part, a) ==
    LET m == CHOOSE m \in Range(PartOf(part)) : m.path = a.path
    IN (CHOOSE r \in m.resources : Address(m, r) = a).values

(* A value of the state is what it was, or gained what it had not; only a  *)
(* constant list or what it has for a key of a map is replaced.            *)
Kept(own, merged) ==
    \/ merged = own
    \/ merged.kind = "list"
    \/ /\ own.kind = "map" /\ merged.kind = "map"
       /\ DOMAIN own.map \subseteq DOMAIN merged.map
    \/ /\ own.kind = "blocks" /\ merged.kind = "blocks"
       /\ DOMAIN merged.blocks = DOMAIN own.blocks
       /\ \A k \in DOMAIN own.blocks : \A s \in DOMAIN own.blocks[k] :
             /\ s \in DOMAIN merged.blocks[k]
             /\ merged.blocks[k][s] = own.blocks[k][s]

(* A query is made from the values of its own state: the prior one is not  *)
(* priced with values the plan only introduces, attribute by attribute and *)
(* block by block; and what it refers to is of its own module and state.   *)
(* (Lists and maps of constants are those of the configuration.)           *)
ValuesOfTheState ==
    \A part \in Over : \A q \in Range(queries[part]) :
        /\ LET own == ValuesIn(part, q.address)
           IN \A n \in DOMAIN own : /\ n \in DOMAIN q.components.own
                                   /\ Kept(own[n], q.components.own[n])
        /\ \A values \in Range(q.components.referred) :
              \E other \in Range(queries[part]) :
                 other.address.path = q.address.path /\ other.components.own = values

(* What the reference `n` of a query names, in the module of the query.    *)
NamedBy(q, n) == [q.address EXCEPT !.name = q.components.own[n].to.name,
                                   !.index = q.components.own[n].to.index]

(* A reference of a new resource in a module that is called once, to a     *)
(* resource of its module with neither count nor for_each, finds the very  *)
(* values the query of the resource it names is made from.                 *)
ReferencesResolve ==
    \A part \in Over : \A q, other \in Range(queries[part]) :
        \A n \in DOMAIN q.components.own :
            (/\ q.components.own[n].kind = "ref"
             /\ q.address.path # <<>>
             /\ \A k \in DOMAIN q.address.path : q.address.path[k].index = NoIndex
             /\ other.address = NamedBy(q, n))
            => /\ n \in DOMAIN q.components.referred
               /\ q.components.referred[n] = other.components.own

(* terraform/plan.go:62 - "ExtractPriorQueries extracts a query.Resource   *)
(* slice from the `prior_state` part of the Plan": it does not panic.      *)
NeverPanics == pc # "panicked"

(***************************************************************************)
(* Why QueriesMatchState holds: what is known of the configuration when    *)
(* the modules of a state are walked, and that the queries so far are      *)
(* those of the modules begun.                                             *)
(***************************************************************************)
Parts   == {"prior", "planned"}
Working == pc \in {"configuration", "modules", "resources"}

Ours(path) == {r \in plan.modules[path].resources : ProviderKey(r) \in MatchedKeys}

ConfiguredValues(a) ==
    EvaluateResource((CHOOSE c \in Configuring(a) : TRUE).expressions,
                     Calls(a.path), plan.modules[Calls(a.path)].variables)

(* The addresses a module of a state has queries for, and their values. *)
Wanted(m) == {Address(m, r) : r \in {r \in m.resources :
                                        r.managed /\ Configuring(Address(m, r)) # {}}}
Merged(m) == [a \in Wanted(m) |-> Merge((CHOOSE r \in m.resources : Address(m, r) = a).values,
                                        ConfiguredValues(a))]

ProvidersAreKnown ==
    /\ providers \in {EmptyFunction, Providers}
    /\ Working => providers = Providers /\ State # Null
    /\ pc = "providers" => resourceProviders = EmptyFunction /\ rss = EmptyFunction

ConfiguredSoFar ==
    /\ \A c \in DOMAIN resourceProviders : \E p \in DOMAIN plan.modules : \E r \in Ours(p) :
          /\ c = [path |-> p, name |-> r.name]
          /\ ~Undeclared(r.expressions, plan.modules[p].variables)
          /\ resourceProviders[c] =
                [provider |-> Providers[ProviderKey(r)],
                 values   |-> EvaluateResource(r.expressions, p, plan.modules[p].variables)]
    /\ Working => \A p \in DOMAIN plan.modules :
          \/ \A r \in Ours(p) : [path |-> p, name |-> r.name] \in DOMAIN resourceProviders
          \/ \E w \in toConfigure : IsPrefix(w, p)
    /\ pc \in {"modules", "resources"} => toConfigure = {}

(* The modules of the state that were begun. *)
Begun == Len(State) - Len(toExtract)

ExtractedSoFar ==
    /\ Working => /\ toExtract \in Seq(Range(State)) /\ Begun \in 0..Len(State)
                  /\ \A i \in 1..Len(toExtract) : toExtract[i] = State[Begun + i]
    /\ pc = "configuration" => Begun = 0
    /\ pc = "resources" => Begun > 0 /\ rss = Merged(State[Begun])
    /\ pc # "resources" => toQuery = {}

(* The addresses of the first `n` modules of a state. *)
WantedOf(part, n) == UNION {Wanted(PartOf(part)[k]) : k \in 1..n}

QueryOf(part, n, q) ==
    /\ \E c \in Configuring(q.address) :
          /\ q.provider = Providers[ProviderKey(c)]
          /\ ~Undeclared(c.expressions, plan.modules[Calls(q.address.path)].variables)
    /\ \E k \in 1..n : LET all == Merged(PartOf(part)[k]) IN
          /\ q.address \in DOMAIN all
          /\ q.components = ResourceComponents(all, all[q.address])

(* `qs` are the queries of the first `n` modules, but for those waiting. *)
QueriesOf(part, n, waiting, qs) ==
    /\ {qs[i].address : i \in 1..Len(qs)} = WantedOf(part, n) \ waiting
    /\ \A i, j \in 1..Len(qs) : qs[i].address = qs[j].address => i = j
    /\ \A i \in 1..Len(qs) : QueryOf(part, n, qs[i])

Queried(part, n, waiting) == QueriesOf(part, n, waiting, queries[part])

QueriedSoFar ==
    /\ queries = [part \in Parts |-> queries[part]]
    /\ \A part \in Parts : queries[part] \in Seq(Range(queries[part]))
    /\ extracting = "prior" => queries["planned"] = <<>>
    /\ pc \in {"providers", "configuration"} => queries[extracting] = <<>>
    /\ pc \in {"modules", "resources"} => Queried(extracting, Begun, toQuery)
    /\ \A part \in Over : Queried(part, Len(PartOf(part)), {})

IInv == TypeOK /\ ProvidersAreKnown /\ ConfiguredSoFar /\ ExtractedSoFar /\ QueriedSoFar
=============================================================================
