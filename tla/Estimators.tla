------------------------------- MODULE Estimators -------------------------------
(***************************************************************************)
(* The providers' ResourceComponents, asked about one resource after the   *)
(* other in the order of a map, that is in any.  Before its query a        *)
(* resource is given the usage of its type; the values of a resource are   *)
(* shared by the queries of those that refer to it.                        *)
(*                                                                         *)
(* A resource is [type, name, values]; `resources` are those of a module   *)
(* by address, and a reference in the values is an address.                *)
(***************************************************************************)
EXTENDS AwsServices, AzureServices

CONSTANTS Worlds      \* the modules: sets of [provider, region, resources, usage]

VARIABLES provider,   \* the provider of the resources
          region,     \* the region it was made with
          resources,  \* the resources of the module
          usage,      \* ResourceDefaultTypeUsage, by type
          queries     \* the components of those queried so far

vars == <<provider, region, resources, usage, queries>>

ASSUME WorldsAssumption ==
    \A w \in Worlds : w.provider = "aws" => w.region \in AwsRegions

-----------------------------------------------------------------------------
(* aws/terraform: ResourceComponents where the values decode. *)
AwsComponents(reg, rss, type, values) ==
    LET decode(zero) == Decode(zero, values)
    IN  CASE type = "aws_instance" -> InstanceComponents(NewInstance(reg, decode(InstanceValues)))
          [] type = "aws_autoscaling_group" ->
                InstanceComponents(NewAutoscalingGroup(reg, rss, decode(AutoscalingGroupValues)))
          [] type = "aws_cloudwatch_log_group" -> CloudwatchLogGroupComponents(reg, decode(UsageValues))
          [] type = "aws_cloudwatch_metric_alarm" ->
                CloudwatchMetricAlarmComponents(
                    NewCloudwatchMetricAlarm(reg, decode(CloudwatchMetricAlarmValues)))
          [] type = "aws_db_instance" -> DBInstanceComponents(NewDBInstance(reg, decode(DBInstanceValues)))
          [] type = "aws_ebs_volume" -> VolumeComponents(NewVolume(reg, decode(VolumeValues)))
          [] type = "aws_efs_file_system" ->
                EFSComponents(NewEFSFileSystem(reg, decode(EFSFileSystemValues)))
          [] type = "aws_elasticache_cluster" ->
                ElastiCacheComponents(NewElastiCache(reg, decode(ElastiCacheValues)))
          [] type = "aws_elasticache_replication_group" ->
                ElastiCacheReplicationComponents(
                    NewElastiCacheReplication(reg, decode(ElastiCacheReplicationValues)))
          [] type = "aws_eip" -> ElasticIPComponents(reg, decode(ElasticIPValues))
          [] type = "aws_elb" -> LBComponents(reg, [load_balancer_type |-> "classic"])
          [] type = "aws_eks_cluster" -> EKSClusterComponents(reg)
          [] type = "aws_eks_node_group" ->
                InstanceComponents(NewEKSNodeGroup(reg, rss, decode(EKSNodeGroupValues)))
          [] type = "aws_fsx_lustre_file_system" ->
                FSxComponents(NewFSxLustre(reg, decode(FSxLustreValues)))
          [] type = "aws_fsx_ontap_file_system" -> FSxComponents(NewFSxOntap(reg, decode(FSxValues)))
          [] type = "aws_fsx_openzfs_file_system" -> FSxComponents(NewFSxOpenzfs(reg, decode(FSxValues)))
          [] type = "aws_fsx_windows_file_system" -> FSxComponents(NewFSxWindows(reg, decode(FSxValues)))
          [] type = "aws_kms_key" -> KMSKeyComponents(reg, decode(KMSKeyValues))
          [] type \in {"aws_lb", "aws_alb"} -> LBComponents(reg, decode(LBValues))
          [] type = "aws_nat_gateway" -> NatGatewayComponents(reg, decode(UsageValues))
          [] type = "aws_rds_cluster" ->
                RDSClusterComponents(NewRDSCluster(reg, decode(RDSClusterValues)))
          [] type = "aws_rds_cluster_instance" ->
                RDSClusterInstanceComponents(
                    NewRDSClusterInstance(reg, decode(RDSClusterInstanceValues)))
          [] type = "aws_s3_bucket" -> S3BucketComponents(NewS3Bucket(reg, decode(UsageValues)))
          [] type = "aws_s3_bucket_analytics_configuration" ->
                S3AnalyticsComponents(reg, decode(UsageValues))
          [] type = "aws_s3_bucket_inventory" -> S3InventoryComponents(reg, decode(UsageValues))
          [] type = "aws_secretsmanager_secret" -> SecretComponents(reg, decode(UsageValues))
          [] type = "aws_sqs_queue" -> SQSQueueComponents(reg, decode(SQSQueueValues))
          [] OTHER -> <<>>

(* azurerm/terraform: ResourceComponents where the values decode. *)
AzureComponents(rss, type, values) ==
    LET decode(zero) == Decode(zero, values)
    IN  CASE type = "azurerm_bastion_host" -> BastionHostComponents(decode(BastionHostValues))
          [] type = "azurerm_linux_virtual_machine" ->
                VirtualMachineComponents(NewLinuxVirtualMachine(decode(LinuxVirtualMachineValues)))
          [] type = "azurerm_windows_virtual_machine" ->
                VirtualMachineComponents(NewWindowsVirtualMachine(decode(WindowsVirtualMachineValues)))
          [] type = "azurerm_managed_disk" ->
                ManagedDiskComponents(NewManagedDisk(decode(ManagedDiskValues)))
          [] type = "azurerm_nat_gateway" -> AzureNatGatewayComponents(decode(AzureNatGatewayValues))
          [] type = "azurerm_dns_zone" -> DNSZoneComponents(rss, decode(DNSZoneValues), "Public")
          [] type = "azurerm_private_dns_zone" ->
                DNSZoneComponents(rss, decode(DNSZoneValues), "Private")
          [] type = "azurerm_virtual_machine" ->
                VirtualMachineComponents(NewVirtualMachine(decode(VirtualMachineValues)))
          [] type = "azurerm_virtual_network_gateway" ->
                VirtualNetworkGatewayComponents(
                    NewVirtualNetworkGateway(decode(VirtualNetworkGatewayValues)))
          [] type = "azurerm_virtual_network_gateway_connection" ->
                VirtualNetworkGatewayComponents(
                    NewVirtualNetworkGatewayConnection(rss, decode(GatewayConnectionValues)))
          [] type = "azurerm_storage_share" ->
                StorageShareComponents(NewStorageShare(rss, decode(StorageShareValues)))
          [] type = "azurerm_public_ip" -> PublicIPComponents(decode(PublicIPValues))
          [] type = "azurerm_private_endpoint" -> PrivateEndpointComponents(decode(UsageValues))
          [] type = "azurerm_postgresql_flexible_server" ->
                PostgreSQLComponents(NewPostgreSQL(decode(PostgreSQLValues)))
          [] OTHER -> <<>>     \* azurerm_storage_account among them

(* google/terraform: ResourceComponents where the values decode. *)
GoogleComponents(reg, type, values) ==
    IF type = "google_compute_instance"
    THEN ComputeInstanceComponents(reg, Decode(ComputeInstanceValues, values)) ELSE <<>>

(* Values that do not decode have no components: a resource that is        *)
(* skipped, as one of a type the provider does not know.  Those of an      *)
(* aws_elb are not looked at.                                              *)
ResourceComponents(rss, resource) ==
    CASE resource.values = Undecodable /\ resource.type # "aws_elb" -> <<>>
      [] provider = "aws"     -> AwsComponents(region, rss, resource.type, resource.values)
      [] provider = "azurerm" -> AzureComponents(rss, resource.type, resource.values)
      [] provider = "google"  -> GoogleComponents(region, resource.type, resource.values)

-----------------------------------------------------------------------------
Init ==
    \E w \in Worlds :
        /\ provider = w.provider
        /\ region = w.region
        /\ resources = w.resources
        /\ usage = w.usage
        /\ queries = Nothing

(* Usage.GetUsage *)
GetUsage(type) == LookUp(usage, type, Nothing)

WithUsage(resource) ==
    IF resource.values = Undecodable THEN resource
    ELSE [resource EXCEPT !.values = "tc_usage" :> GetUsage(resource.type) @@ @]

QueryResource(a) ==
    /\ a \notin DOMAIN queries
    /\ resources' = [resources EXCEPT ![a] = WithUsage(@)]
    /\ queries' = a :> ResourceComponents(resources', resources'[a]) @@ queries
    /\ UNCHANGED <<provider, region, usage>>

Finished ==
    /\ DOMAIN queries = DOMAIN resources
    /\ UNCHANGED vars

Next == (\E a \in DOMAIN resources : QueryResource(a)) \/ Finished

Spec == Init /\ [][Next]_vars

-----------------------------------------------------------------------------
(* The filters of ingestion, over a price with the service, family and     *)
(* attributes of its product.                                              *)
MinimalFilterEC2(pp) ==
    \/ /\ pp.family = "Compute Instance"
       /\ pp.attributes.CapacityStatus = "Used"
       /\ pp.attributes.OperatingSystem = "Linux"
       /\ pp.attributes.PreInstalledSW = "NA"
       /\ pp.attributes.Tenancy \in {"Shared", "Dedicated"}
    \/ pp.family \in {"Storage", "System Operation", "NAT Gateway"}

AwsMinimalFilter(pp) ==
    \/ pp.service \in {"AmazonEFS", "AmazonEKS", "AmazonElastiCache", "AmazonFSx", "AWSDataTransfer",
                       "AWSELB", "awskms", "AWSQueueService", "AWSSecretsManager"}
    \/ pp.service = "AmazonEC2" /\ MinimalFilterEC2(pp)
    \/ /\ pp.service = "AmazonCloudWatch"
       /\ pp.family \in {"Data Payload", "Storage Snapshot", "Alarm"}
    \/ /\ pp.service = "AmazonRDS"
       /\ pp.family \in {"Database Instance", "Database Storage", "Provisioned IOPS", "Serverless",
                         "ServerlessV2", "System Operation", "Storage Snapshot", "Performance Insights"}
    \/ /\ pp.service = "AmazonS3"
       /\ pp.family \in {"Storage", "API Request", "Fee"}

AzureMinimalFilter(pp) ==
    IF pp.service = "Virtual Machines" /\ pp.family = "Compute"
    THEN /\ ~HasSuffix(pp.attributes.meterName, " Spot")
         /\ ~HasSuffix(pp.attributes.meterName, " Low Priority")
         /\ pp.type \in {"Consumption", "DevTestConsumption"}
    ELSE pp.type = "Consumption"

GoogleMinimalFilter(pp) == pp.family = "Compute"

MinimalFilter(pp) ==
    CASE provider = "aws"     -> AwsMinimalFilter(pp)
      [] provider = "azurerm" -> AzureMinimalFilter(pp)
      [] provider = "google"  -> GoogleMinimalFilter(pp)

(* A price that answers a query, and is in all the query leaves open what  *)
(* the filters ask for.                                                    *)
Answer(component) ==
    LET asked == component.product.attributes
        exact == {k \in DOMAIN asked : "is" \in DOMAIN asked[k]}
    IN  [service |-> component.product.service, family |-> component.product.family,
         attributes |-> [k \in exact |-> asked[k].is]
                        @@ [CapacityStatus |-> "Used", OperatingSystem |-> "Linux",
                            PreInstalledSW |-> "NA", Tenancy |-> "Shared", meterName |-> ""],
         type |-> "Consumption"]

-----------------------------------------------------------------------------
(* The components of a resource are kept by name (cost/state.go), where    *)
(* the second of two replaces the first, and two that ask for the same     *)
(* price of the same product would be the same cost twice: no resource,    *)
(* whatever its values, its references and its usage, has either.          *)
ComponentsAreDistinct ==
    \A a \in DOMAIN queries : \A i, j \in DOMAIN queries[a] :
        i # j => /\ queries[a][i].name # queries[a][j].name
                 /\ \/ queries[a][i].product # queries[a][j].product
                    \/ queries[a][i].price # queries[a][j].price

(* The values an instance would have that is made by hand as a group makes *)
(* it from its template.                                                   *)
InstanceLike(template, zone) ==
    LET placement == FirstBlock(Placement, template.placement)
    IN  [instance_type        |-> template.instance_type,
         tenancy              |-> placement.tenancy,
         availability_zone    |-> Default(placement.availability_zone, "", zone),
         ebs_optimized        |-> template.ebs_optimized,
         monitoring           |-> FirstBlock(Monitoring, template.monitoring).enabled,
         credit_specification |-> template.credit_specification,
         root_block_device    |-> FirstBlock(DeviceMapping, template.block_device_mappings).ebs]

(* The components of so many instances, with one root volume. *)
Instances(components, count) ==
    [i \in DOMAIN components |->
        IF HasPrefix(components[i].name, "Root volume: ") THEN components[i]
        ELSE [components[i] EXCEPT !.quantity = count * @]]

(* A group with its size and the zone of its instances. *)
Group(type, values) ==
    LET asg == Decode(AutoscalingGroupValues, values)
        eks == FirstBlock(ScalingConfig, Decode(EKSNodeGroupValues, values).scaling_config)
    IN  IF type = "aws_eks_node_group"
        THEN [size |-> GroupSize(eks.desired_size, eks.min_size), zone |-> region \o "a",
              template |-> RefOf(FirstBlock(TemplateRef, Decode(EKSNodeGroupValues, values).launch_template))]
        ELSE [size |-> GroupSize(asg.desired_capacity, asg.min_size),
              zone |-> IF asg.availability_zones = <<>> THEN "" ELSE asg.availability_zones[1],
              template |-> RefOf(FirstBlock(TemplateRef, asg.launch_template))]

(* A group whose launch template is in the module, is its only template    *)
(* and says what the root volume is is estimated as the instance with the  *)
(* template's values in the template's zone, or in the group's: the same   *)
(* products in the same region, as often as the group has instances.  Two  *)
(* estimators and three structs have to agree on it.  The root volume is   *)
(* counted once.                                                           *)
GroupsScale ==
    \A a \in DOMAIN queries :
        LET type   == resources[a].type
            values == resources[a].values
            group  == Group(type, values)
            template == Decode(LaunchTemplateValues, resources[group.template].values)
        IN  /\ type \in {"aws_autoscaling_group", "aws_eks_node_group"}
            /\ values # Undecodable
            /\ group.template \in DOMAIN resources
            /\ resources[group.template].values # Undecodable
            /\ template.block_device_mappings # <<>>
            /\ {"launch_configuration", "mixed_instances_policy"} \cap DOMAIN values = {}
            /\ type = "aws_eks_node_group" =>
                    Decode(EKSNodeGroupValues, values).scaling_config # <<>>
            => queries[a] = Instances(AwsComponents(region, resources, "aws_instance",
                                                    InstanceLike(template, group.zone)),
                                      group.size)

(* The sum of the quantities of the components called so. *)
TotalOf(components, prefix) ==
    LET total[i \in 0..Len(components)] ==
            IF i = 0 THEN 0
            ELSE total[i - 1] + (IF HasPrefix(components[i].name, prefix) THEN components[i].quantity ELSE 0)
    IN  total[Len(components)]

(* The size of a disk whose type has tiers, with the default. *)
SizeAsked(values) == Positive(Decode(ManagedDiskValues, values).disk_size_gb, 30)

(* A disk has the price of a tier that holds it, and not of a larger one   *)
(* than it needs.                                                          *)
DisksFit ==
    \A a \in DOMAIN queries :
        LET values == resources[a].values
            type   == values.storage_account_type[1]
            name(i) == "Storage - " \o DiskLetters[type] \o DiskLevels[i] \o " "
                       \o values.storage_account_type[2]
        IN  /\ resources[a].type = "azurerm_managed_disk"
            /\ values # Undecodable
            /\ type \in DOMAIN DiskLetters
            /\ SizeAsked(values) =< 32767
            => \E i \in DiskTiers(type) :
                  /\ queries[a][1].name = name(i)
                  /\ DiskSizes[i] >= SizeAsked(values)
                  /\ i - 1 \in DiskTiers(type) => DiskSizes[i - 1] < SizeAsked(values)

(* The tiers of a bucket's storage add up to what is stored, and those of  *)
(* what leaves it to what leaves it, up to the first tier and beyond the   *)
(* third; between them they do not, see S3OutboundTiers.                   *)
BucketsAddUp ==
    \A a \in DOMAIN queries :
        LET used == Decode(S3BucketUsage, GetUsage("aws_s3_bucket"))
            out  == used.monthly_outbound_data_gb
        IN  resources[a].type = "aws_s3_bucket" /\ resources[a].values # Undecodable
            => /\ TotalOf(queries[a], "Storage ") = used.storage_gb
               /\ out =< 10240 \/ out > 153600 =>
                    TotalOf(queries[a], "Outbound Data Transfer ") = out

(* What is cut into tiers is priced whole: DisksFit and BucketsAddUp.      *)
SizesAreCovered == DisksFit /\ BucketsAddUp

(* aws/filter.go:16, "MinimalFilter only ingests the supported records,    *)
(* skipping those that would never be used": a price that answers a query  *)
(* of an estimator is not skipped.                                         *)
UsedPricesAreIngested ==
    \A a \in DOMAIN queries : \A i \in DOMAIN queries[a] : MinimalFilter(Answer(queries[a][i]))
=============================================================================
