----------------------------- MODULE MCCostPlan -----------------------------
(* Plans that create, change, keep and destroy resources, some of them      *)
(* skipped on one side, with hourly, monthly, free and mixed components.    *)
EXTENDS CostPlan

CONSTANTS web, disk, cpu, ram, f, g

Comp(label, filter, hourly, monthly) ==
    [label |-> label, filter |-> filter, hourly |-> hourly, monthly |-> monthly]
Query(address, components) == [address |-> address, components |-> components]

Web    == Query(web, <<Comp(cpu, f, 1, 0), Comp(ram, g, 2, 3)>>)
WebBig == Query(web, <<Comp(cpu, f, 2, 0)>>)
Disk   == Query(disk, <<Comp(ram, g, 0, 2)>>)
Unused == Query(disk, <<Comp(ram, g, 0, 0)>>)
Other  == Query(disk, <<>>)

MCRequests ==
    {[prior |-> <<>>, planned |-> <<Web, Disk>>],
     [prior |-> <<Web, Other>>, planned |-> <<WebBig, Disk>>],
     [prior |-> <<Disk>>, planned |-> <<Unused, Web>>],
     [prior |-> <<Disk, Web>>, planned |-> <<Web, Other>>],
     [prior |-> <<Disk>>, planned |-> <<>>]}
=============================================================================
