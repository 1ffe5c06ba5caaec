------------------------------ MODULE AwsCompute ------------------------------
(***************************************************************************)
(* The AWS estimators of what runs on EC2: instances, volumes, auto        *)
(* scaling groups with their launch configurations and templates, and EKS  *)
(* clusters and node groups.                                               *)
(***************************************************************************)
EXTENDS QueryComponents

CONSTANT AwsRegions     \* the codes of regions.go that can come up

(* region.NewFromZone, and Valid. *)
NewFromZone(zone) == IF Len(zone) < 1 THEN "" ELSE SubSeq(zone, 1, Len(zone) - 1)

(* `if reg := region.NewFromZone(zone); reg.Valid()` *)
InZone(region, zone) == IF NewFromZone(zone) \in AwsRegions THEN NewFromZone(zone) ELSE region

EC2(family, region, attributes) == Product("AmazonEC2", family, region, attributes)
PerHour == Price("Hrs", OnDemand)

-----------------------------------------------------------------------------
(* aws_ebs_volume *)
VolumeValues == [availability_zone |-> "", type |-> "", size |-> 0, iops |-> 0]

NewVolume(region, vals) ==
    [region |-> InZone(region, vals.availability_zone),
     type   |-> Default(vals.type, "", "gp3"),
     size   |-> Positive(vals.size, 8),
     iops   |-> Positive(vals.iops, 16000)]

VolumeStorage(v) ==
    Monthly("Storage", v.size, EC2("Storage", v.region, "VolumeAPIName" :> Is(v.type)), NoPriceFilter)

VolumeIOPS(v) ==
    Monthly("Provisioned IOPS", v.iops,
            EC2("System Operation", v.region,
                "VolumeAPIName" :> Is(v.type) @@ "UsageType" :> Like("^EBS:VolumeP-IOPS")),
            NoPriceFilter)

VolumeComponents(v) ==
    <<VolumeStorage(v)>> \o Where(v.type \in {"io1", "io2"}, VolumeIOPS(v))

-----------------------------------------------------------------------------
(* aws_instance *)
InstanceValues ==
    [instance_type |-> "", tenancy |-> "", availability_zone |-> "", ebs_optimized |-> FALSE,
     monitoring |-> FALSE, credit_specification |-> <<>>, root_block_device |-> <<>>]

RootDevice == [volume_type |-> "", volume_size |-> 0, iops |-> 0]
Credits    == [cpu_credits |-> ""]

RootVolumeOf(region, zone, device) ==
    NewVolume(region, [availability_zone |-> zone, type |-> device.volume_type,
                       size |-> device.volume_size, iops |-> device.iops])

(* An Instance before its values are looked at; rootVolume <<>> is nil. *)
EmptyInstance(region) ==
    [region |-> region, tenancy |-> "Shared", instanceType |-> "", instanceCount |-> 1,
     ebsOptimized |-> FALSE, cpuCredits |-> FALSE, enableMonitoring |-> FALSE, rootVolume |-> <<>>]

NewInstance(region, vals) ==
    [EmptyInstance(region) EXCEPT
        !.region           = InZone(region, vals.availability_zone),
        !.tenancy          = IF vals.tenancy = "dedicated" THEN "Dedicated" ELSE @,
        !.instanceType     = vals.instance_type,
        !.ebsOptimized     = vals.ebs_optimized,
        !.cpuCredits       = FirstBlock(Credits, vals.credit_specification).cpu_credits = "unlimited",
        !.enableMonitoring = vals.monitoring,
        !.rootVolume       = <<RootVolumeOf(region, vals.availability_zone,
                                            FirstBlock(RootDevice, vals.root_block_device))>>]

(* The region's part of a usage type is in capitals in the code. *)
RegionPart(inst) == Before(inst.region, "-")

CPUCreditCost(inst) ==
    Hourly("CPUCreditCost", inst.instanceCount,
           EC2("CPU Credits", inst.region,
               "OperatingSystem" :> Is("Linux")
               @@ "UsageType" :> Is(RegionPart(inst) \o "-CPUCredits:" \o Before(inst.instanceType, "."))),
           Price("vCPU-Hours", OnDemand))

DetailedMonitoringCost(inst) ==
    Monthly("EC2 detailed monitoring", 7 * inst.instanceCount,
            Product("AmazonCloudWatch", "Metric", inst.region, Nothing),
            Price("Metrics", OnDemand @@ StartingAt("0")))

EBSOptimizedCost(inst) ==
    Hourly("EBS-optimized usage", inst.instanceCount,
           EC2("Compute Instance", inst.region,
               "InstanceType" :> Is(inst.instanceType)
               @@ "UsageType" :> Is(RegionPart(inst) \o "-EBSOptimized:" \o inst.instanceType)),
           PerHour)

Compute(inst) ==
    Hourly("Compute", inst.instanceCount,
           EC2("Compute Instance", inst.region,
               "CapacityStatus" :> Is("Used") @@ "InstanceType" :> Is(inst.instanceType)
               @@ "Tenancy" :> Is(inst.tenancy) @@ "OperatingSystem" :> Is("Linux")
               @@ "PreInstalledSW" :> Is("NA")),
           PerHour)

RootVolumeComponents(inst) ==
    IF inst.rootVolume = <<>> THEN <<>>
    ELSE LET own == VolumeComponents(inst.rootVolume[1])
         IN  [i \in DOMAIN own |-> [own[i] EXCEPT !.name = "Root volume: " \o @]]

InstanceComponents(inst) ==
    <<Compute(inst)>>
    \o RootVolumeComponents(inst)
    \o Where(inst.cpuCredits, CPUCreditCost(inst))
    \o Where(inst.enableMonitoring, DetailedMonitoringCost(inst))
    \o Where(inst.ebsOptimized, EBSOptimizedCost(inst))

-----------------------------------------------------------------------------
(* Launch configurations and templates, of the resources of the same       *)
(* module.  The values of a resource that is not there are nil, which      *)
(* decodes into the zero value.                                            *)
ValuesAt(rss, ref) == IF ref \in DOMAIN rss THEN rss[ref].values ELSE Nothing

LaunchConfigurationValues ==
    [instance_type |-> "", placement_tenancy |-> "", ebs_optimized |-> FALSE,
     enable_monitoring |-> FALSE, root_block_device |-> <<>>]

LaunchTemplateValues ==
    [instance_type |-> "", placement |-> <<>>, ebs_optimized |-> FALSE, monitoring |-> <<>>,
     credit_specification |-> <<>>, block_device_mappings |-> <<>>]

Placement      == [tenancy |-> "", availability_zone |-> ""]
Monitoring     == [enabled |-> FALSE]
DeviceMapping  == [ebs |-> <<>>]
TemplateRef    == [id |-> "", name |-> ""]

(* The size of a group: an explicit zero is as no size. *)
GroupSize(desired, minimum) == Positive(desired, Positive(minimum, 1))

RefOf(template) == Default(template.id, "", template.name)

(* Mutation: the zone of the group and not of its template. *)
ZoneOfGroup(lt, zone) == zone

ZoneOf(lt, zone) == Default(FirstBlock(Placement, lt.placement).availability_zone, "", zone)

(* What an auto scaling group and a node group take of a launch template.  *)
Launch(region, inst, lt, zone) ==
    LET ebs == FirstBlock(DeviceMapping, lt.block_device_mappings).ebs
    IN  [inst EXCEPT
            !.tenancy = IF FirstBlock(Placement, lt.placement).tenancy = "dedicated"
                        THEN "Dedicated" ELSE @,
            !.ebsOptimized = @ \/ lt.ebs_optimized,
            !.cpuCredits = @ \/ FirstBlock(Credits, lt.credit_specification).cpu_credits = "unlimited",
            !.enableMonitoring = @ \/ FirstBlock(Monitoring, lt.monitoring).enabled,
            !.rootVolume = IF ebs = <<>> THEN @
                           ELSE <<RootVolumeOf(region, ZoneOf(lt, zone), FirstBlock(RootDevice, ebs))>>]

Relocate(inst, zone) == [inst EXCEPT !.region = InZone(@, zone)]

-----------------------------------------------------------------------------
(* aws_autoscaling_group *)
AutoscalingGroupValues ==
    [availability_zones |-> <<>>, launch_configuration |-> "", launch_template |-> <<>>,
     mixed_instances_policy |-> <<>>, min_size |-> 0, desired_capacity |-> 0]

(* What the launch configuration says of the instances. *)
Configure(region, inst, lc, zone) ==
    [inst EXCEPT
        !.instanceType = lc.instance_type,
        !.tenancy = IF lc.placement_tenancy = "dedicated" THEN "Dedicated" ELSE @,
        !.ebsOptimized = lc.ebs_optimized,
        !.enableMonitoring = lc.enable_monitoring,
        !.rootVolume = IF lc.root_block_device = <<>> THEN @
                       ELSE <<RootVolumeOf(region, zone, FirstBlock(RootDevice, lc.root_block_device))>>]

(* The template of a policy for mixed instances goes before the group's,   *)
(* and its first override before the template's type.  A policy is         *)
(* [specification |-> a reference, overrides |-> instance types].          *)
GroupTemplate(vals) ==
    IF vals.mixed_instances_policy # <<>>
    THEN LET spec == Decode(TemplateRef, vals.mixed_instances_policy[1].specification)
         IN  [ref |-> RefOf(spec),
              override |-> IF vals.mixed_instances_policy[1].overrides = <<>> THEN ""
                           ELSE vals.mixed_instances_policy[1].overrides[1]]
    ELSE [ref |-> RefOf(FirstBlock(TemplateRef, vals.launch_template)), override |-> ""]

NewAutoscalingGroup(region, rss, vals) ==
    LET zone  == IF vals.availability_zones = <<>> THEN "" ELSE vals.availability_zones[1]
        empty == [EmptyInstance(region) EXCEPT
                    !.instanceCount = GroupSize(vals.desired_capacity, vals.min_size)]
        lc    == ValuesAt(rss, vals.launch_configuration)
        configured == IF vals.launch_configuration = "" THEN empty
                      ELSE Configure(region, empty, Decode(LaunchConfigurationValues, lc), zone)
        template   == GroupTemplate(vals)
        lt    == ValuesAt(rss, template.ref)
        known == Decode(LaunchTemplateValues, lt)
        typed == [configured EXCEPT
                    !.instanceType = Default(template.override, "", known.instance_type)]
    IN  IF vals.launch_configuration # "" /\ lc = Undecodable THEN empty
        ELSE IF vals.launch_template = <<>> /\ vals.mixed_instances_policy = <<>>
        THEN Relocate(configured, zone)
        ELSE IF lt = Undecodable THEN configured
        ELSE Relocate(Launch(region, typed, known, zone), ZoneOf(known, zone))

-----------------------------------------------------------------------------
(* aws_eks_node_group *)
EKSNodeGroupValues ==
    [scaling_config |-> <<>>, instance_types |-> <<>>, disk_size |-> 0, launch_template |-> <<>>]

ScalingConfig == [min_size |-> 0, desired_size |-> 0]

(* Without a template the nodes have a volume of 20 GB; without the        *)
(* template the values name they have a type and nothing else.             *)
NewEKSNodeGroup(region, rss, vals) ==
    LET zone    == region \o "a"
        scaling == FirstBlock(ScalingConfig, vals.scaling_config)
        empty   == [EmptyInstance(region) EXCEPT
                      !.instanceCount = IF vals.scaling_config = <<>> THEN 0
                                        ELSE GroupSize(scaling.desired_size, scaling.min_size)]
        typed   == [empty EXCEPT
                      !.instanceType = IF vals.instance_types = <<>> THEN "t3.medium"
                                       ELSE vals.instance_types[1]]
        device  == [RootDevice EXCEPT !.volume_type = "gp3", !.volume_size = Positive(vals.disk_size, 20)]
        ref     == RefOf(FirstBlock(TemplateRef, vals.launch_template))
        known   == Decode(LaunchTemplateValues, rss[ref].values)
    IN  IF vals.launch_template = <<>>
        THEN Relocate([typed EXCEPT !.rootVolume = <<RootVolumeOf(region, zone, device)>>], zone)
        ELSE IF ref \notin DOMAIN rss THEN typed
        ELSE IF rss[ref].values = Undecodable THEN empty
        ELSE Relocate(Launch(region, [empty EXCEPT !.instanceType = known.instance_type], known, zone),
                      ZoneOf(known, zone))

-----------------------------------------------------------------------------
(* aws_eks_cluster.  The region's part of the usage type is its three      *)
(* parts cut short, or only the first for eu-west-1.                       *)
EKSRegionPart(region) ==
    LET first == Before(region, "-")
        last  == Len(region)
    IN  IF region = "eu-west-1" THEN first
        ELSE first \o SubSeq(region, Len(first) + 2, Len(first) + 2) \o SubSeq(region, last, last)

EKSClusterComponents(region) ==
    <<Hourly("EKS Cluster", 1,
             Product("AmazonEKS", "Compute", region,
                     "UsageType" :> Is(EKSRegionPart(region) \o "-AmazonEKS-Hours:perCluster")),
             Price(Unfiltered, OnDemand))>>
=============================================================================
