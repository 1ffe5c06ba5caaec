---------------------------- MODULE MCPlanQueries ----------------------------
(* Small plans for PlanQueries: a root module and a child module called by   *)
(* for_each or once, aliased and unknown providers, new, changed and removed *)
(* resources, references, variables and blocks.                              *)
EXTENDS PlanQueries

CONSTANTS aws, null, east, west, old, new

Const(v) == [kind |-> "const", value |-> Base(v)]
Var(n)   == [kind |-> "var", name |-> n]
Ref(n)   == [kind |-> "ref", to |-> n, index |-> NoIndex]
Local(n) == [kind |-> "local", name |-> n]
Nothing  == [kind |-> "none"]
Blocks(bs) == [kind |-> "blocks", blocks |-> bs]
List(v)  == [kind |-> "list", value |-> v]
Map(f)   == [kind |-> "map", map |-> f]

Res(name, key, exprs) == [name |-> name, key |-> key, expressions |-> exprs]
Inst(name, index, vals) == [name |-> name, index |-> index, managed |-> TRUE, values |-> vals]
Module(rs, vars1) == [resources |-> rs, variables |-> vars1]
At(path, rs) == [path |-> path, resources |-> rs]
Call(c, i) == [call |-> c, index |-> i]

\* OfRoot(k) is the key of a provider of the root module, InApp(k) that of one
\* the module "app" configures itself.
OfRoot(k) == <<k>>
InApp(k)  == <<"module.app", k>>

MCProviders == OfRoot("aws") :> [name |-> aws, region |-> Const(east)]
            @@ OfRoot("aws.west") :> [name |-> aws, region |-> Var("region")]
            @@ OfRoot("null") :> [name |-> null, region |-> Nothing]

Size(v) == "size" :> Base(v)
Disks(bs) == "disks" :> [kind |-> "blocks", blocks |-> bs]

\* The child module: a template, and a group that refers to it.
Child == Module({Res("template", OfRoot("aws"), "size" :> Const(new) @@ "zones" :> [kind |-> "const", value |-> List(new)]),
                 Res("group", OfRoot("aws.west"), "template" :> Ref("template") @@ "tags" :> [kind |-> "const", value |-> Map("a" :> Base(new))]),
                 Res("noise", OfRoot("null"), EmptyFunction)},
                "size" :> Base(Null))
Root == Module({Res("disk", OfRoot("aws"), "size" :> Var("size") @@ "local" :> Local("zone")
                       @@ "disks" :> Blocks(<<"size" :> Const(new) @@ "type" :> Const(new)>>)),
                Res("volume", OfRoot("aws"), "template" :> Ref("disk"))},
               "size" :> Base(new))

Plan(prior, planned) ==
    [providerConfig |-> MCProviders, variables |-> "region" :> Base(west),
     modules |-> <<>> :> Root @@ <<"app">> :> Child,
     prior |-> prior, planned |-> planned]

RootNow   == At(<<>>, {Inst("disk", NoIndex, Size(old) @@ Disks(<<"size" :> Base(old)>>)),
                       Inst("volume", NoIndex, EmptyFunction)})
RootThen  == At(<<>>, {Inst("disk", NoIndex, Disks(<<"size" :> Base(new)>>)),
                       Inst("removed", NoIndex, Size(old)),
                       [Inst("disk", 1, Size(old)) EXCEPT !.managed = FALSE]})
App(i)    == At(<<Call("app", i)>>, {Inst("template", NoIndex, "zones" :> List(old)),
                                     Inst("group", NoIndex, "tags" :> Map("a" :> Base(old))),
                                     Inst("noise", NoIndex, EmptyFunction)})
AppCounted == At(<<Call("app", NoIndex)>>, {Inst("template", 0, EmptyFunction),
                                            Inst("template", 1, Size(old)),
                                            Inst("group", NoIndex, "template" :> Base(old))})
AppNull(v) == At(<<Call("app", NoIndex)>>, {Inst("template", NoIndex, "zones" :> Base(Null)),
                                            Inst("group", NoIndex, v)})
Fewer     == At(<<>>, {Inst("disk", NoIndex, Disks(<<>>))})

Once     == Plan(<<RootThen, App(NoIndex)>>, <<RootNow, App(NoIndex)>>)
ForEach  == Plan(Null, <<RootNow, App("x"), App("y")>>)
Counted  == Plan(<<RootNow, AppCounted>>, <<AppCounted>>)
Zoned    == Plan(<<RootThen, AppNull(EmptyFunction)>>, <<RootNow, App(NoIndex)>>)
Tagged   == Plan(<<AppNull("tags" :> Base(Null))>>, <<App(NoIndex)>>)
Block    == Plan(<<Fewer>>, <<RootNow>>)
Deep     == [Plan(<<>>, <<At(<<Call("app", NoIndex), Call("sub", 0)>>, {Inst("disk", 0, Size(old))})>>)
               EXCEPT !.modules = @ @@ <<"app", "sub">> :> Root]
Siblings == [Plan(Null, <<App(NoIndex), At(<<Call("web", NoIndex)>>, {Inst("disk", 0, Size(old))})>>)
               EXCEPT !.modules = @ @@ <<"web">> :> Root]
\* Providers of the child module: a name the root has too, with another region
\* that a local of the name of a variable gives, and one it has not.
Nested   == [Plan(Null, <<RootNow, App(NoIndex)>>)
               EXCEPT !.modules[<<"app">>] =
                        Module({Res("template", InApp("aws"), "size" :> Const(new)),
                                Res("group", InApp("aws.own"), "template" :> Ref("template"))},
                               EmptyFunction),
                      !.providerConfig = @ @@ InApp("aws") :> [name |-> aws, region |-> Local("region")]
                                           @@ InApp("aws.own") :> [name |-> aws, region |-> Const(west)]]
NoRegion == [Plan(Null, <<RootNow>>) EXCEPT !.variables = EmptyFunction]
NoKnown  == [Plan(Null, <<RootNow>>) EXCEPT !.providerConfig = OfRoot("null") :> MCProviders[OfRoot("null")]]
NoVar    == [Plan(Null, <<RootNow>>) EXCEPT !.modules[<<>>].variables = EmptyFunction]

MCPlans == {Once, ForEach, Counted, Zoned, Tagged, Block, Deep, Siblings, Nested, NoRegion, NoKnown, NoVar}
=============================================================================
