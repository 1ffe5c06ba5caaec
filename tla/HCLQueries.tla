----------------------------- MODULE HCLQueries -----------------------------
(***************************************************************************)
(* ExtractQueriesFromHCL: the queries of a tree of Terraform modules read  *)
(* from their sources.  extractHCLModule expands the resources of a module *)
(* (count, for_each, the count of the module), replaces the references     *)
(* between them in place while it makes their queries, and then calls      *)
(* itself for each child module with the variables the call gives it.      *)
(* Go's maps - resources, elements of for_each, arguments and child        *)
(* modules - are iterated in any order.  What expressions evaluate to is   *)
(* the HCL library's business; here it is a constant, a variable, the      *)
(* element of for_each, or a reference to a resource of the module.        *)
(***************************************************************************)
EXTENDS Integers, Sequences, FiniteSets, Functions, SequencesExt

CONSTANTS Configs,      \* what a directory of sources may hold
          AliasKeys,    \* the keys of providers that have an alias
          NoIndex,      \* of an address without [ ]
          Null          \* not there, or not known

(***************************************************************************)
(* A configuration: `providers` are the keys getHCLProviders makes, and    *)
(* `modules` maps a path of calls to [resources, calls, variables]:        *)
(*   a resource is [name, type, configRef, forEach, count, attributes],    *)
(*     forEach a function from keys to elements if it is a for expression, *)
(*     and Null otherwise; an element that is null is Null;                *)
(*   a call is [providers, arguments]: `providers` maps the keys of the    *)
(*     child to those of the caller, and `arguments` are all the other     *)
(*     attributes of the block, `count` among them;                        *)
(*   variables map names to their defaults: null if there is none.         *)
(* A value is "base" - a string, the number of a count, or null - or a     *)
(* "map" of such; an element of for_each may also be "mixed", something    *)
(* that cannot be converted (a list that is empty or of unlike values).    *)
(***************************************************************************)
(***************************************************************************)
(* What the loader guarantees of sources: there is a root module, a module *)
(* is there if and only if another one calls it, and the resources of a    *)
(* module have names of their own.  Of for_each, no key is empty, which is *)
(* how the code marks the lack of for_each.  No argument is a list of      *)
(* expressions.                                                            *)
(***************************************************************************)
ASSUME ConfigsAssumption ==
    \A cf \in Configs :
        /\ Null \notin cf.providers /\ <<>> \in DOMAIN cf.modules
        /\ \A path \in DOMAIN cf.modules :
              /\ path \in Seq(Range(path))
              /\ \A c \in DOMAIN cf.modules[path].calls : Append(path, c) \in DOMAIN cf.modules
              /\ \A k \in 1..Len(path) :
                    /\ SubSeq(path, 1, k - 1) \in DOMAIN cf.modules
                    /\ path[k] \in DOMAIN cf.modules[SubSeq(path, 1, k - 1)].calls
              /\ \A r, s \in cf.modules[path].resources : r.name = s.name => r = s
              /\ \A r \in cf.modules[path].resources : r.forEach # Null =>
                    /\ IsFiniteSet(DOMAIN r.forEach) /\ "" \notin DOMAIN r.forEach
                    /\ \A key \in DOMAIN r.forEach :
                          r.forEach[key] # Null => r.forEach[key].kind \in {"base", "map", "mixed"}
              /\ \A call \in Range(cf.modules[path].calls) :
                    /\ IsFiniteSet(DOMAIN call.arguments)
                    /\ \A n \in DOMAIN call.arguments :
                          call.arguments[n].kind \in {"base", "var", "each", "ref"}

ASSUME IndexAssumption == NoIndex \notin Nat

VARIABLES
    config,
    pc,         \* what the module on top of the stack is at
    stack,      \* the modules under way: [path, providers, mcount, var, each, toCall]
    toExpand,   \* its resources that are not expanded yet
    cfgs,       \* the values of a resource and element, which instances share
    rss,        \* address -> [type, cfg]
    toResolve,  \* addresses without a query yet
    queries     \* a bag: no one looks at their order

vars == <<config, pc, stack, toExpand, cfgs, rss, toResolve, queries>>

EmptyFunction == [x \in {} |-> x]
Base(v)  == [kind |-> "base", value |-> v]
MapOf(f) == [kind |-> "map", map |-> f]
NotNull(v) == v # Base(Null)

(* The map `f`, and of `g` what `f` has not. *)
Completed(f, g) == [x \in DOMAIN f \cup DOMAIN g |-> IF x \in DOMAIN f THEN f[x] ELSE g[x]]

Frame  == stack[Len(stack)]
Module == config.modules[Frame.path]

-----------------------------------------------------------------------------
(* Expressions: base, var, each, ref, and lists of them.  Null is what     *)
(* cannot be evaluated; a variable that is null evaluates to null.         *)
Lookup(f, n) == IF n \in DOMAIN f THEN f[n] ELSE Null

(* The prefix of references is the path of the module, and a dot even if   *)
(* it is empty: a first call without a name.                               *)
ReferencePath(path) == IF path = <<>> THEN <<"">> ELSE path

Marker(ref, path) ==
    [kind |-> "marker", attr |-> ref.attr,
     to |-> [path |-> ReferencePath(path), call |-> NoIndex, name |-> ref.to, index |-> ref.index]]

EvalScalar(e, f) ==
    CASE e.kind = "base" -> e
      [] e.kind = "var"  -> Lookup(f.var, e.name)
      [] e.kind = "each" -> f.each
      [] e.kind = "ref"  -> Marker(e, f.path)

Plain(v) == v.kind \in {"base", "map"}

PlainVariables(var) == /\ var = [n \in DOMAIN var |-> var[n]]
                       /\ \A n \in DOMAIN var : Plain(var[n])

ASSUME VariablesAssumption ==
    \A cf \in Configs : \A path \in DOMAIN cf.modules : PlainVariables(cf.modules[path].variables)

ASSUME AttributesAssumption ==
    \A cf \in Configs : \A path \in DOMAIN cf.modules :
        \A r \in cf.modules[path].resources : \A n \in DOMAIN r.attributes :
            LET e == r.attributes[n]
            IN /\ e # Null
               /\ e.kind = "list" =>
                     /\ e.items \in Seq(Range(e.items))
                     /\ \A k \in DOMAIN e.items :
                           e.items[k].kind = "ref" => Marker(e.items[k], path) # Null

(* The items that are there, in order. *)
Present(items) ==
    LET present[n \in 0..Len(items)] ==
          IF n = 0 THEN <<>>
          ELSE IF items[n] = Null THEN present[n - 1] ELSE Append(present[n - 1], items[n])
    IN present[Len(items)]

(* In a list, what is not known or no scalar - and a reference never is -  *)
(* becomes the first reference of the whole expression, if it has one.     *)
Eval(e, f) ==
    IF e.kind # "list" THEN EvalScalar(e, f)
    ELSE LET refs  == {k \in DOMAIN e.items : e.items[k].kind = "ref"}
             first == IF refs = {} THEN Null
                      ELSE EvalScalar(e.items[CHOOSE k \in refs : \A l \in refs : k <= l], f)
             items == [k \in DOMAIN e.items |->
                         LET v == EvalScalar(e.items[k], f)
                         IN IF v # Null /\ v.kind = "base" /\ NotNull(v) THEN v ELSE first]
         IN [kind |-> "list", items |-> Present(items)]

(* getBodyJSON: what is not known is left out. *)
EvalBody(attributes, f) ==
    LET known == {a \in DOMAIN attributes : Eval(attributes[a], f) # Null}
    IN [a \in known |-> Eval(attributes[a], f)]

-----------------------------------------------------------------------------
(* Init: ExtractQueriesFromHCL up to its call of extractHCLModule. *)
Init ==
    /\ config \in Configs
    /\ pc = "expand"
    /\ stack = <<[path |-> <<>>,
                  providers |-> [k \in config.providers |-> k],
                  mcount |-> 1, var |-> config.modules[<<>>].variables, each |-> Null,
                  toCall |-> DOMAIN config.modules[<<>>].calls]>>
    /\ toExpand = config.modules[<<>>].resources
    /\ cfgs = EmptyFunction /\ rss = EmptyFunction /\ toResolve = {}
    /\ queries = EmptyBag

ProviderKey(r) == IF r.configRef = Null THEN r.type ELSE r.configRef
Known(r, f) == ProviderKey(r) \in DOMAIN f.providers

IsForEach(r) == r.forEach # Null /\ DOMAIN r.forEach # {}

(* The elements of for_each; "" stands for the only one without it. *)
Elements(r) == IF IsForEach(r) THEN r.forEach ELSE [key \in {""} |-> Null]

(* each.value of an element that is not null: what can be converted of a   *)
(* map, a scalar as a map of its key, and nothing if it is mixed.          *)
EachOf(key, v) ==
    CASE v.kind = "map"  -> MapOf([n \in {n \in DOMAIN v.map : v.map[n].kind = "base" /\ NotNull(v.map[n])}
                                     |-> v.map[n]])
      [] v.kind = "base" -> MapOf([k \in {key} |-> v])
      [] OTHER           -> Null

(* The elements the body is evaluated for: not those that are mixed. *)
Convertible(r) ==
    {key \in DOMAIN Elements(r) : Elements(r)[key] = Null \/ Elements(r)[key].kind # "mixed"}

CallIndexes(mcount) == IF mcount = 1 THEN {NoIndex} ELSE 0..(mcount - 1)
Indexes(r, key) == IF key # "" THEN {key}
                   ELSE IF r.count = Null \/ r.count = 1 THEN {NoIndex}
                   ELSE 0..(r.count - 1)

AddressesOf(r, f) ==
    {[path |-> f.path, call |-> c, name |-> r.name, index |-> i] :
        c \in CallIndexes(f.mcount),
        i \in UNION {Indexes(r, key) : key \in Convertible(r)}}

(* The element an address is an instance of. *)
KeyOf(r, a) == IF IsForEach(r) THEN a.index ELSE ""

(* Mutation: `each` is set once, before the elements are gone through. *)
ElementContextOnce(f, r, order, n) ==
    LET v == Elements(r)[order[1]]
    IN IF v = Null THEN f ELSE [f EXCEPT !.each = EachOf(order[1], v)]

(* The context in which the n-th element is evaluated: `each` is replaced  *)
(* by an element that is not null - deleted, if that is mixed - and        *)
(* otherwise as it was left.                                               *)
ElementContext(f, r, order, n) ==
    LET set == {k \in 1..n : Elements(r)[order[k]] # Null}
        key == order[CHOOSE k \in set : \A l \in set : l <= k]
    IN IF set = {} THEN f ELSE [f EXCEPT !.each = EachOf(key, Elements(r)[key])]

(* A resource is expanded: its body evaluated once for each element that   *)
(* is not mixed, its instances entered if its provider is known.  `each`   *)
(* stays in the context.                                                   *)
ExpandResource ==
    /\ pc = "expand"
    /\ \E r \in toExpand : \E order \in SetToSeqs(DOMAIN Elements(r)) :
        LET last == ElementContext(Frame, r, order, Len(order))
        IN /\ cfgs' = Completed([c \in {<<r.name, key>> : key \in Convertible(r)} |->
                                   LET n == CHOOSE n \in DOMAIN order : order[n] = c[2]
                                   IN EvalBody(r.attributes, ElementContext(Frame, r, order, n))],
                                cfgs)
           /\ rss' = IF ~Known(r, Frame) THEN rss
                     ELSE Completed([a \in AddressesOf(r, Frame) |->
                                       [type |-> r.type, cfg |-> <<r.name, KeyOf(r, a)>>]],
                                    rss)
           /\ stack' = [stack EXCEPT ![Len(stack)] = last]
           /\ toExpand' = toExpand \ {r}
    /\ UNCHANGED <<config, pc, toResolve, queries>>

Expanded ==
    /\ pc = "expand" /\ toExpand = {}
    /\ pc' = "resolve"
    /\ toResolve' = DOMAIN rss
    /\ UNCHANGED <<config, stack, toExpand, cfgs, rss, queries>>

-----------------------------------------------------------------------------
(* Mutation: only what has no query yet is looked up. *)
FollowWaiting(v) ==
    IF v.to \in toResolve /\ v.attr \in DOMAIN cfgs[rss[v.to].cfg]
    THEN cfgs[rss[v.to].cfg][v.attr]
    ELSE [kind |-> "address", value |-> v.to]

(* A reference is replaced by the attribute it names if that resource and  *)
(* attribute are known, and otherwise by the address it names.             *)
Follow(v) ==
    IF v.to \in DOMAIN rss /\ v.attr \in DOMAIN cfgs[rss[v.to].cfg]
    THEN cfgs[rss[v.to].cfg][v.attr]
    ELSE [kind |-> "address", value |-> v.to]

(* Of a list, plain strings are left out: those of the source, and those   *)
(* an earlier instance with the same values was given.                     *)
IsString(v) == v.kind \in {"base", "address"} /\ NotNull(v)

ResolveList(items) ==
    Present([k \in DOMAIN items |-> CASE IsString(items[k]) -> Null
                                      [] items[k].kind = "marker" -> Follow(items[k])
                                      [] OTHER -> items[k]])

Resolve(v) ==
    CASE v.kind = "marker" -> Follow(v)
      [] v.kind = "list"   -> [kind |-> "list", items |-> ResolveList(v.items)]
      [] OTHER             -> v

Resolved(values) == [n \in DOMAIN values |-> Resolve(values[n])]

(* The query of a resource is made once its own values are resolved, from  *)
(* whatever those of the others are by then.  The provider is looked up    *)
(* again, by type this time.                                               *)
QueryResource ==
    /\ pc = "resolve"
    /\ \E a \in toResolve :
        LET own == Resolved(cfgs[rss[a].cfg])
        IN /\ rss[a].type \in DOMAIN Frame.providers
           /\ cfgs' = [cfgs EXCEPT ![rss[a].cfg] = own]
           /\ queries' = queries (+) SetToBag({[address |-> a, type |-> rss[a].type, values |-> own,
                                                provider |-> Frame.providers[rss[a].type]]})
           /\ toResolve' = toResolve \ {a}
    /\ UNCHANGED <<config, pc, stack, toExpand, rss>>

(* ... and a resource whose provider is known by its alias only has none:  *)
(* ResourceComponents is called on nil.                                    *)
NilProvider ==
    /\ pc = "resolve"
    /\ \E a \in toResolve : rss[a].type \notin DOMAIN Frame.providers
    /\ pc' = "panicked"
    /\ UNCHANGED <<config, stack, toExpand, cfgs, rss, toResolve, queries>>

ModuleQueried ==
    /\ pc = "resolve" /\ toResolve = {}
    /\ pc' = "children"
    /\ UNCHANGED <<config, stack, toExpand, cfgs, rss, toResolve, queries>>

-----------------------------------------------------------------------------
(* The value of an argument, which may be null: a reference to a resource  *)
(* cannot be evaluated there, and the argument is left out.                *)
Given(e, var, each) ==
    CASE e.kind = "var"  -> Lookup(var, e.name)
      [] e.kind = "each" -> each
      [] e.kind = "ref"  -> Null
      [] OTHER           -> e

With(f, name, v) == [x \in DOMAIN f \cup {name} |-> IF x = name THEN v ELSE f[x]]

(* The name an expression uses after a dot, if it uses one without index:  *)
(* that of a variable, of a resource, or the `value` of each.value.        *)
Used(e) ==
    CASE e.kind = "var"  -> e.name
      [] e.kind = "each" -> "value"
      [] e.kind = "ref" /\ e.index = NoIndex -> e.to
      [] OTHER -> Null

(* What an argument uses has the name of one that is evaluated already:    *)
(* that one's value is put in the context of the caller, where it stays -  *)
(* under `var` or `each`, or else under something that is not there.       *)
UseArgument(e, s) ==
    LET v == s.args[Used(e)]
    IN CASE e.kind = "var" -> [s EXCEPT !.var = With(@, e.name, v)]
         [] e.kind = "each" /\ s.each # Null -> [s EXCEPT !.each = v]
         [] OTHER -> [s EXCEPT !.panics = TRUE]

(* An argument of a call is evaluated.  A variable it uses that has the    *)
(* name of another argument is given that argument's value first.          *)
Argument(arguments, s, name) ==
    LET e == arguments[name]
        given == Given(arguments[e.name], s.var, s.each)
        s1 == IF Used(e) \in DOMAIN s.args THEN UseArgument(e, s)
              ELSE IF e.kind = "var" /\ e.name \in DOMAIN arguments /\ given # Null
              THEN [s EXCEPT !.var = With(@, e.name, given), !.args = With(@, e.name, given)]
              ELSE s
        v == Given(e, s1.var, s1.each)
    IN IF name \in DOMAIN s.args THEN s
       ELSE IF v = Null THEN s1
       ELSE [s1 EXCEPT !.args = With(@, name, v)]

(* The context of the caller, and the arguments, once all are evaluated. *)
Arguments(arguments, order, f) ==
    LET s[n \in 0..Len(order)] ==
          IF n = 0 THEN [var |-> f.var, each |-> f.each, args |-> EmptyFunction, panics |-> FALSE]
          ELSE Argument(arguments, s[n - 1], order[n])
    IN s[Len(order)]

(* `providers` is looked at like an argument: aws.west uses `west`, which  *)
(* is none here, and a key without an alias has no second part.            *)
ProvidersPanic(call) == \E key \in DOMAIN call.providers : call.providers[key] \notin AliasKeys

(* The count of a call is read in the context of the child. *)
CallCount(call, var) ==
    LET e == Lookup(call.arguments, "count")
        n == IF e = Null THEN Null ELSE Given(e, var, Null)
    IN IF n # Null /\ n.kind = "base" /\ NotNull(n) THEN n.value ELSE 1

(* Mutation: the providers block adds to what the child inherits. *)
ChildProvidersAdded(call, inherited) ==
    IF DOMAIN call.providers = {} THEN inherited
    ELSE Completed([k \in {k \in DOMAIN call.providers : call.providers[k] \in DOMAIN inherited} |->
                      inherited[call.providers[k]]], inherited)

(* A `providers` block that is not empty takes the place of what the child *)
(* would inherit.                                                          *)
ChildProviders(call, inherited) ==
    IF DOMAIN call.providers = {} THEN inherited
    ELSE [k \in {k \in DOMAIN call.providers : call.providers[k] \in DOMAIN inherited} |->
            inherited[call.providers[k]]]

(* Mutation: the resources of the caller stay in the map. *)
CallKeepingResources ==
    /\ pc = "children"
    /\ \E c \in Frame.toCall :
        LET call == Module.calls[c]
            path == Append(Frame.path, c)
            child == config.modules[path]
        IN \E order \in SetToSeqs(DOMAIN call.arguments) :
            LET s == Arguments(call.arguments, order, Frame)
                var == Completed(s.args, child.variables)
            IN /\ ~s.panics /\ ~ProvidersPanic(call)
               /\ stack' = Append([stack EXCEPT ![Len(stack)] =
                                     [Frame EXCEPT !.var = s.var, !.each = s.each, !.toCall = @ \ {c}]],
                             [path |-> path, mcount |-> CallCount(call, var),
                              providers |-> ChildProviders(call, Frame.providers),
                              var |-> var, each |-> Null, toCall |-> DOMAIN child.calls])
               /\ toExpand' = child.resources
    /\ pc' = "expand"
    /\ UNCHANGED <<config, cfgs, rss, toResolve, queries>>

(* A child module is loaded and extractHCLModule called for it. *)
CallChild ==
    /\ pc = "children"
    /\ \E c \in Frame.toCall :
        LET call == Module.calls[c]
            path == Append(Frame.path, c)
            child == config.modules[path]
        IN \E order \in SetToSeqs(DOMAIN call.arguments) :
            LET s == Arguments(call.arguments, order, Frame)
                var == Completed(s.args, child.variables)
            IN /\ ~s.panics /\ ~ProvidersPanic(call)
               /\ stack' = Append([stack EXCEPT ![Len(stack)] =
                                     [Frame EXCEPT !.var = s.var, !.each = s.each, !.toCall = @ \ {c}]],
                             [path |-> path, mcount |-> CallCount(call, var),
                              providers |-> ChildProviders(call, Frame.providers),
                              var |-> var, each |-> Null, toCall |-> DOMAIN child.calls])
               /\ toExpand' = child.resources
    /\ pc' = "expand"
    /\ cfgs' = EmptyFunction /\ rss' = EmptyFunction
    /\ UNCHANGED <<config, toResolve, queries>>

(* A panic over the attributes of a call: sv[1] of a provider without an   *)
(* alias, or appendToCtx of what is not in the context.                    *)
CallPanics ==
    /\ pc = "children"
    /\ \E c \in Frame.toCall :
        LET call == Module.calls[c]
        IN \/ ProvidersPanic(call)
           \/ \E order \in SetToSeqs(DOMAIN call.arguments) : Arguments(call.arguments, order, Frame).panics
    /\ pc' = "panicked"
    /\ UNCHANGED <<config, stack, toExpand, cfgs, rss, toResolve, queries>>

(* A remote module cannot be installed, or a module not be loaded. *)
CallFails ==
    /\ pc = "children"
    /\ Frame.toCall # {}
    /\ pc' = "failed"
    /\ UNCHANGED <<config, stack, toExpand, cfgs, rss, toResolve, queries>>

(* extractHCLModule returns; validateProviders wants one query of a        *)
(* provider the root module has.                                           *)
ModuleReturns ==
    /\ pc = "children"
    /\ Frame.toCall = {}
    /\ IF Len(stack) > 1 THEN stack' = Front(stack) /\ UNCHANGED pc
       ELSE /\ pc' = IF \E q \in BagToSet(queries) : q.type \in DOMAIN Frame.providers
                     THEN "done" ELSE "failed"
            /\ UNCHANGED stack
    /\ UNCHANGED <<config, toExpand, cfgs, rss, toResolve, queries>>

Finished == pc \in {"done", "failed", "panicked"} /\ UNCHANGED vars

Next ==
    \/ ExpandResource \/ Expanded \/ QueryResource \/ NilProvider
    \/ ModuleQueried \/ CallChild \/ CallPanics \/ CallFails \/ ModuleReturns \/ Finished

Spec == Init /\ [][Next]_vars

-----------------------------------------------------------------------------
StackTypeOK ==
    /\ stack # <<>>
    /\ \A k \in DOMAIN stack :
          /\ DOMAIN stack[k] = {"path", "providers", "mcount", "var", "each", "toCall"}
          /\ stack[k].path \in DOMAIN config.modules
          /\ Range(stack[k].providers) \subseteq config.providers
          /\ stack[k].toCall \subseteq DOMAIN config.modules[stack[k].path].calls
          /\ k > 1 => stack[k].path = Append(stack[k - 1].path, Last(stack[k].path))

TypeOK ==
    /\ config \in Configs
    /\ pc \in {"expand", "resolve", "children", "done", "failed", "panicked"}
    /\ StackTypeOK
    /\ toExpand \subseteq Module.resources
    /\ \A a \in DOMAIN rss : /\ rss[a].cfg \in DOMAIN cfgs
                             /\ pc \in {"expand", "resolve"} => a.path = Frame.path
    /\ toResolve \subseteq DOMAIN rss

(* What Terraform makes of the configuration, to compare with: the call of *)
(* each module on a path, the provider a key of a module stands for, and   *)
(* the values of its variables.                                            *)
CallOn(path, k) == config.modules[SubSeq(path, 1, k - 1)].calls[path[k]]

ProviderNames ==
    config.providers \cup
    UNION {UNION {DOMAIN call.providers \cup Range(call.providers) : call \in Range(m.calls)}
           : m \in Range(config.modules)}

(* The provider `name` of the root module is `key` in a module: each call  *)
(* on the way has handed it down, under whatever name.                     *)
HandedDown(path, key, name) ==
    \E names \in [0..Len(path) -> ProviderNames] :
        /\ names[0] = name /\ names[Len(path)] = key
        /\ \A k \in 1..Len(path) :
              LET passed == CallOn(path, k).providers
              IN IF DOMAIN passed = {} THEN names[k - 1] = names[k]
                 ELSE names[k] \in DOMAIN passed /\ names[k - 1] = passed[names[k]]

Provided(path, key) == \E name \in config.providers : HandedDown(path, key, name)

(* The arguments of a call as they are given, of the variables `var`. *)
AsGiven(arguments, var) ==
    LET given == {n \in DOMAIN arguments : Given(arguments[n], var, Null) # Null}
    IN [n \in given |-> Given(arguments[n], var, Null)]

Variables(path) ==
    LET var[k \in 0..Len(path)] ==
          IF k = 0 THEN config.modules[<<>>].variables
          ELSE Completed(AsGiven(CallOn(path, k).arguments, var[k - 1]),
                         config.modules[SubSeq(path, 1, k)].variables)
    IN var[Len(path)]

Resource(a) == CHOOSE r \in config.modules[a.path].resources : r.name = a.name
CountGiven(path) == IF path = <<>> THEN Null ELSE Lookup(CallOn(path, Len(path)).arguments, "count")
CountOf(path) == IF CountGiven(path) \in {Null, Base(Null)} THEN 1 ELSE CountGiven(path).value

(* The modules whose count, if any, is a constant. *)
ConstantCount(path) == CountGiven(path) = Null \/ CountGiven(path).kind = "base"

(* Whatever the order in which resources, elements and modules come, there *)
(* is one query for each instance of each resource the sources define      *)
(* whose provider is known, and no other: of a module whose count is a     *)
(* constant.  (The count of the modules around it is not applied, a        *)
(* for_each over nothing makes one instance, and an element of for_each    *)
(* that is mixed makes none.)                                              *)
InstancesOf(path, r) ==
    {[path |-> path, call |-> c, name |-> r.name, index |-> i] :
        c \in (IF CountOf(path) = 1 THEN {NoIndex} ELSE 0..(CountOf(path) - 1)),
        i \in (IF IsForEach(r) THEN Convertible(r)
               ELSE IF r.count = Null \/ r.count = 1 THEN {NoIndex} ELSE 0..(r.count - 1))}

Instances(path) ==
    UNION {InstancesOf(path, r) :
              r \in {r \in config.modules[path].resources : Provided(path, ProviderKey(r))}}

InstancesMatchConfiguration ==
    pc = "done" =>
        LET ours == {p \in DOMAIN config.modules : ConstantCount(p)}
            expected == UNION {Instances(p) : p \in ours}
            made == {q \in BagToSet(queries) : q.address.path \in ours}
        IN /\ {q.address : q \in made} = expected
           /\ Cardinality(made) = Cardinality(expected)
           /\ \A q \in made : queries[q] = 1

(* A resource without a provider of its own is priced with the provider    *)
(* the calls on the way to its module hand down: a `providers` block is    *)
(* all a module has.                                                       *)
ProvidersAreHandedDown ==
    \A q \in BagToSet(queries) :
        Resource(q.address).configRef = Null =>
            /\ q.provider \in config.providers
            /\ HandedDown(q.address.path, q.type, q.provider)

(* The argument of a call does not use a variable that has the name of     *)
(* another argument, nor `each`.                                           *)
NotCrossed(call) ==
    \A n \in DOMAIN call.arguments :
        /\ call.arguments[n].kind # "each"
        /\ call.arguments[n].kind = "var" =>
              call.arguments[n].name \notin DOMAIN call.arguments \ {n}

Uncrossed(path) ==
    \A k \in 1..Len(path) :
        \A c \in Range(config.modules[SubSeq(path, 1, k - 1)].calls) : NotCrossed(c)

OwnValue(path, r, key, e, v) ==
    /\ e.kind = "base" => v = e
    /\ (e.kind = "var" /\ Uncrossed(path)) => v = Lookup(Variables(path), e.name)
    /\ (e.kind = "each" /\ IsForEach(r) /\ r.forEach[key] # Null) => v = EachOf(key, r.forEach[key])

(* The values of an instance are those of its own module, call and element *)
(* of for_each, although all elements of a module are evaluated in one     *)
(* context and share its `each`, and the evaluation of a call changes that *)
(* of the caller: a variable that the call gives as null is null, whatever *)
(* its default, and each.value is the element, a scalar in a map under its *)
(* key.  (Calls whose arguments cross do mix variables up, and a resource  *)
(* without for_each that uses `each` finds that of another.)               *)
ValuesAreOwn ==
    \A q \in BagToSet(queries) :
        LET r == Resource(q.address)
        IN \A n \in DOMAIN r.attributes :
             OwnValue(q.address.path, r, q.address.index, r.attributes[n], Lookup(q.values, n))

(* `ref` names an attribute of the only instance of `r`, a plain value.    *)
PlainIn(path, ref, r) ==
    /\ r.name = ref.to /\ ref.index = NoIndex
    /\ Provided(path, ProviderKey(r))
    /\ ~IsForEach(r) /\ r.count \in {Null, 1}
    /\ ref.attr \in DOMAIN r.attributes /\ r.attributes[ref.attr].kind = "base"

ListOfReference(e) == e.kind = "list" /\ Len(e.items) = 1 /\ e.items[1].kind = "ref"

FollowedIn(path, alone, e, v) ==
    \A r \in config.modules[path].resources :
        /\ (e.kind = "ref" /\ PlainIn(path, e, r)) => v = r.attributes[e.attr]
        /\ (ListOfReference(e) /\ alone /\ PlainIn(path, e.items[1], r)) =>
              v.items = <<r.attributes[e.items[1].attr]>>

(* A reference to an attribute whose value is plain, of an only instance   *)
(* in a module that is called once, has become that value in every query,  *)
(* whichever of the two resources came first; in a list, in the query of   *)
(* an only instance.  (In the root module no reference is ever found, and  *)
(* a list that two instances share is emptied by the first.)               *)
ReferencesAreFollowed ==
    \A q \in BagToSet(queries) : \A n \in DOMAIN q.values :
        (q.address.path # <<>> /\ q.address.call = NoIndex) =>
            FollowedIn(q.address.path, q.address.index = NoIndex,
                       Resource(q.address).attributes[n], q.values[n])

(***************************************************************************)
(* Why ProvidersAreHandedDown and InstancesMatchConfiguration hold: what   *)
(* the frames of the stack are, and that the queries so far are those of   *)
(* the modules that do not wait to be called.                              *)
(***************************************************************************)
StackIsPath ==
    /\ stack \in Seq(Range(stack)) /\ Len(stack) = Len(Frame.path) + 1
    /\ \A k \in 1..Len(stack) : stack[k].path = SubSeq(Frame.path, 1, k - 1)
    /\ \A k \in 1..(Len(stack) - 1) : Frame.path[k] \notin stack[k].toCall

(* A frame has what the calls on its way hand down. *)
FrameIsCalled(f) ==
    /\ DOMAIN f.providers \subseteq ProviderNames
    /\ \A key, name \in ProviderNames :
          (key \in DOMAIN f.providers /\ f.providers[key] = name) <=>
             (name \in config.providers /\ HandedDown(f.path, key, name))
    /\ ConstantCount(f.path) => f.mcount = CountOf(f.path)

FramesAreCalled == \A f \in Range(stack) : FrameIsCalled(f)

(* The instances of the module at hand that are entered so far. *)
Entered ==
    UNION {AddressesOf(r, Frame) : r \in {r \in Module.resources \ toExpand : Known(r, Frame)}}

EnteredSoFar ==
    /\ pc \in {"expand", "resolve"} => DOMAIN rss = Entered
    /\ pc # "expand" => toExpand = {}
    /\ pc = "children" => toResolve = {}

(* A module under a call that is still to be made. *)
Waits(path) ==
    \E k \in 1..Len(stack) :
        /\ Len(path) >= k /\ SubSeq(path, 1, k - 1) = stack[k].path
        /\ path[k] \in stack[k].toCall

AtHand(path) == pc \in {"expand", "resolve"} /\ path = Frame.path

QueriedIn(path) == {a \in {q.address : q \in DOMAIN queries} : a.path = path}

EachOnce ==
    /\ IsFiniteSet(DOMAIN queries)
    /\ \A q \in DOMAIN queries :
          /\ queries[q] = 1
          /\ q.address.path \in DOMAIN config.modules /\ ~Waits(q.address.path)
          /\ q.provider \in config.providers /\ HandedDown(q.address.path, q.type, q.provider)
    /\ \A q, s \in DOMAIN queries : q.address = s.address => q = s

QueriedSoFar ==
    /\ pc = "expand"  => QueriedIn(Frame.path) = {}
    /\ pc = "resolve" => QueriedIn(Frame.path) = DOMAIN rss \ toResolve
    /\ pc \in {"expand", "resolve", "children", "done"} =>
          \A path \in DOMAIN config.modules :
             ConstantCount(path) /\ ~Waits(path) /\ ~AtHand(path) =>
                QueriedIn(path) = Instances(path)
    /\ pc = "done" => Len(stack) = 1 /\ Frame.toCall = {}

IInv == /\ TypeOK /\ StackIsPath /\ FramesAreCalled
        /\ EnteredSoFar /\ EachOnce /\ QueriedSoFar

(***************************************************************************)
(* Why ValuesAreOwn and ReferencesAreFollowed hold: the variables of the   *)
(* modules under way, and the values of the resources of the one at hand.  *)
(***************************************************************************)
PlainContexts ==
    \A f \in Range(stack) : PlainVariables(f.var) /\ (f.each # Null => Plain(f.each))

(* A module has its variables until it makes a call whose arguments cross. *)
HasItsVariables(f) ==
    LET calls == config.modules[f.path].calls
    IN (/\ Uncrossed(f.path)
        /\ f.toCall = DOMAIN calls \/ \A call \in Range(calls) : NotCrossed(call))
       => f.var = Variables(f.path)

VariablesAreOwn ==
    /\ pc \in {"expand", "resolve"} => Frame.toCall = DOMAIN Module.calls
    /\ \A f \in Range(stack) : HasItsVariables(f)

(* No instance with these values has its query. *)
Unqueried(c) == pc = "expand" \/ \A a \in DOMAIN rss : rss[a].cfg = c => a \in toResolve

(* A reference is either still to be followed, or replaced by the value it *)
(* names, in a module in which references are found.                       *)
Findable == Frame.path # <<>> /\ Frame.mcount = 1

MarkerAlone(ref, path) == [kind |-> "list", items |-> <<Marker(ref, path)>>]

ToFollow(c, e, v) ==
    \A r \in Module.resources :
        /\ (Findable /\ e.kind = "ref" /\ PlainIn(Frame.path, e, r)) =>
              v \in {Marker(e, Frame.path), r.attributes[e.attr]}
        /\ (ListOfReference(e) /\ Unqueried(c)) =>
              v = MarkerAlone(e.items[1], Frame.path)

ExpandedValues(r, key) ==
    LET c == <<r.name, key>>
    IN /\ c \in DOMAIN cfgs /\ DOMAIN cfgs[c] \subseteq DOMAIN r.attributes
       /\ \A n \in DOMAIN r.attributes :
             LET e == r.attributes[n]
             IN /\ OwnValue(Frame.path, r, key, e, Lookup(cfgs[c], n))
                /\ n \in DOMAIN cfgs[c] =>
                      /\ e.kind \in {"base", "var", "each"} => Plain(cfgs[c][n])
                      /\ ToFollow(c, e, cfgs[c][n])

ExpandedSoFar ==
    pc \in {"expand", "resolve"} =>
        /\ \A a \in DOMAIN rss :
              \E r \in Module.resources \ toExpand :
                  a.name = r.name /\ rss[a].cfg = <<r.name, KeyOf(r, a)>>
        /\ \A r \in Module.resources \ toExpand : \A key \in Convertible(r) :
              ExpandedValues(r, key)

VInv == /\ PlainContexts /\ VariablesAreOwn /\ ExpandedSoFar
        /\ ValuesAreOwn /\ ReferencesAreFollowed
=============================================================================
