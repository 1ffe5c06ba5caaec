---------------------------- MODULE MCHCLQueries ----------------------------
(* Small trees of sources for HCLQueries: count, for_each with elements of   *)
(* every kind, references in both directions and in lists, aliased, missing  *)
(* and passed providers, modules called with a count, twice, with each       *)
(* other's names and with null, and calls that panic.                        *)
EXTENDS HCLQueries, TLC

Val(v)   == Base(v)
Var(n)   == [kind |-> "var", name |-> n]
Each     == [kind |-> "each"]
Ref(n)   == [kind |-> "ref", to |-> n, attr |-> "size", index |-> NoIndex]
List(is) == [kind |-> "list", items |-> is]

Res(name, attributes) == [name |-> name, type |-> "aws", configRef |-> Null,
                          forEach |-> Null, count |-> Null, attributes |-> attributes]
None == EmptyFunction
Call(arguments) == [providers |-> None, arguments |-> arguments]
Mod(rs, calls, var) == [resources |-> rs, calls |-> calls, variables |-> var]

Template == Res("template", "size" :> Val("s"))
Volume   == Res("volume", "size" :> Var("size") @@ "type" :> Var("type") @@ "from" :> Ref("template"))
Group    == Res("group", "from" :> Ref("template") @@ "zones" :> List(<<Ref("template"), Val("z")>>)
                         @@ "one" :> List(<<Ref("template")>>) @@ "next" :> Ref("volume"))
Disks    == [Res("disk", "size" :> Each @@ "own" :> Val("o")) EXCEPT
                !.forEach = "a" :> Val("a") @@ "n" :> Null @@ "x" :> [kind |-> "mixed"]
                            @@ "m" :> MapOf("size" :> Val("m") @@ "none" :> Base(Null))]
Stray    == Res("stray", "size" :> Each @@ "list" :> List(<<Var("none"), Val("z")>>))
Counted  == [Group EXCEPT !.name = "counted", !.count = 2]
NoDisk   == [Disks EXCEPT !.name = "nodisk", !.forEach = None]
Unknown  == [Res("unknown", None) EXCEPT !.type = "null"]
Aliased  == [Res("aliased", None) EXCEPT !.configRef = "aws.west"]

(* Two calls of a child with arguments, one of which is null and not the     *)
(* child's default, and the other call counted by a variable of the child.   *)
Calls ==
    [providers |-> {"aws", "aws.west"},
     modules |->
        <<>> :> Mod({Template, Aliased},
                    "one" :> Call("size" :> Var("size") @@ "zone" :> Ref("template") @@ "type" :> Var("type"))
                    @@ "two" :> Call("size" :> Val("t") @@ "count" :> Var("n")),
                    "size" :> Val("d") @@ "type" :> Base(Null) @@ "n" :> Val(1))
        @@ <<"one">> :> Mod({Template, Volume, Group}, "deep" :> Call(None),
                            "size" :> Val("x") @@ "type" :> Val("y"))
        @@ <<"one", "deep">> :> Mod({Stray}, None, None)
        @@ <<"two">> :> Mod({Volume}, None, "size" :> Val("x") @@ "n" :> Val(2))]

(* for_each, and the resources that come before or after it. *)
ForEach ==
    [providers |-> {"aws"},
     modules |-> <<>> :> Mod({Disks, Stray, NoDisk}, "app" :> Call("count" :> Val(2)), None)
                 @@ <<"app">> :> Mod({Template, Counted, Unknown}, None, None)]

(* Arguments that use each other's names, and providers that are passed. *)
Passed ==
    [providers |-> {"aws", "aws.west"},
     modules |->
        <<>> :> Mod({}, "west" :> [Call("size" :> Var("name") @@ "name" :> Val("n")) EXCEPT
                                    !.providers = "aws" :> "aws.west"]
                        @@ "named" :> Call("size" :> Var("name"))
                        @@ "none" :> [Call(None) EXCEPT !.providers = "other" :> "other.x"]
                        @@ "zero" :> Call("count" :> Val(0)),
                    "name" :> Val("d"))
        @@ <<"west">>  :> Mod({Volume}, "in" :> Call("name" :> Var("size")), None)
        @@ <<"west", "in">> :> Mod({Res("named", "name" :> Var("name"))}, None, None)
        @@ <<"named">> :> Mod({Volume}, None, None)
        @@ <<"none">>  :> Mod({Template}, None, None)
        @@ <<"zero">>  :> Mod({Template}, None, None)]

(* Arguments named like what another one uses: a resource, and each.value.   *)
Using(rs) ==
    [providers |-> {"aws"},
     modules |-> <<>> :> Mod(rs, "ref" :> Call("template" :> Val("t") @@ "size" :> Ref("template"))
                                 @@ "each" :> Call("value" :> Val("v") @@ "size" :> Each), None)
                 @@ <<"ref">>  :> Mod({Template}, None, None)
                 @@ <<"each">> :> Mod({Volume}, None, "size" :> Val("x"))]
One == [Res("one", "size" :> Each) EXCEPT !.forEach = "a" :> Val("a")]

(* A provider that is passed without an alias. *)
Same == [providers |-> {"aws"},
         modules |-> <<>> :> Mod({}, "same" :> [Call(None) EXCEPT !.providers = "aws" :> "aws"], None)
                     @@ <<"same">> :> Mod({Template}, None, None)]

AliasOnly == [providers |-> {"aws.west"}, modules |-> <<>> :> Mod({Template, Aliased}, None, None)]
Empty     == [providers |-> {"aws"}, modules |-> <<>> :> Mod({Unknown}, None, None)]

MCConfigs == {Calls, ForEach, Passed, Using({}), Using({One}), Same, AliasOnly, Empty}
=============================================================================
