------------------------------ MODULE AwsServices ------------------------------
(***************************************************************************)
(* The AWS estimators of storage (S3, EFS, FSx), monitoring, networks,     *)
(* keys, secrets and queues.                                               *)
(***************************************************************************)
EXTENDS AwsDatabases

CONSTANT ShortName    \* codeToShortName of regions.go: AwsRegions -> name

-----------------------------------------------------------------------------
(* aws_s3_bucket *)
S3BucketUsage  == [monthly_outbound_data_gb |-> 0, storage_gb |-> 0]

NewS3Bucket(region, vals) == [region |-> region, usage |-> Decode(S3BucketUsage, vals.tc_usage)]

S3Storage(v, startingRange, storage) ==
    OfUsage(Monthly("Storage " \o startingRange, storage,
                    Product("AmazonS3", "Storage", v.region,
                            UsageLike(".*TimedStorage-ByteHrs$") @@ "VolumeType" :> Is("Standard")),
                    Price("GB-Mo", OnDemand @@ StartingAt(startingRange))))

S3OutboundDataTransfer(v, startingRange, outboundGB) ==
    LET short == LookUp(ShortName, v.region, "")
        used  == IF short = "" THEN "DataTransfer-Out-Bytes" ELSE short \o "-DataTransfer-Out-Bytes"
    IN  OfUsage(Monthly("Outbound Data Transfer " \o startingRange, outboundGB,
                        Product("AWSDataTransfer", "Data Transfer", "", "UsageType" :> Is(used)),
                        Price("GB", OnDemand @@ StartingAt(startingRange))))

(* Mutation: the second tier asks for the price of the first. *)
S3StorageTiersFromZero(v) ==
    LET gb == v.usage.storage_gb
    IN  IF gb > 512000
        THEN <<S3Storage(v, "0", 51200), S3Storage(v, "51200", 460800),
               S3Storage(v, "512000", gb - 512000)>>
        ELSE IF gb > 51200
        THEN <<S3Storage(v, "0", 51200), S3Storage(v, "0", gb - 51200)>>
        ELSE <<S3Storage(v, "0", gb)>>

(* The tiers of the storage. *)
S3StorageTiers(v) ==
    LET gb == v.usage.storage_gb
    IN  IF gb > 512000
        THEN <<S3Storage(v, "0", 51200), S3Storage(v, "51200", 460800),
               S3Storage(v, "512000", gb - 512000)>>
        ELSE IF gb > 51200
        THEN <<S3Storage(v, "0", 51200), S3Storage(v, "51200", gb - 51200)>>
        ELSE <<S3Storage(v, "0", gb)>>

(* The tiers of what leaves the bucket: between the first and the last the *)
(* first tier of 10240 is counted as 51200.                                *)
S3OutboundTiers(v) ==
    LET gb == v.usage.monthly_outbound_data_gb
        out(range, n) == S3OutboundDataTransfer(v, range, n)
    IN  IF gb > 153600
        THEN <<out("0", 10240), out("10240", 40960), out("51200", 102400), out("153600", gb - 153600)>>
        ELSE IF gb > 51200
        THEN <<out("0", 51200), out("10240", 40960), out("51200", gb - 51200)>>
        ELSE IF gb > 10240
        THEN <<out("0", 51200), out("10240", gb - 10240)>>
        ELSE <<out("0", gb)>>

S3BucketComponents(v) == S3StorageTiers(v) \o S3OutboundTiers(v)

(* aws_s3_bucket_analytics_configuration, aws_s3_bucket_inventory *)
S3Objects(name, objects, region, used) ==
    OfUsage(Monthly(name, objects, Product("AmazonS3", "Fee", region, UsageLike(used)),
                    FromZero("Objects")))

S3AnalyticsUsage == [monthly_monitored_objects |-> 0]

S3AnalyticsComponents(region, vals) ==
    <<S3Objects("Objects monitored", Decode(S3AnalyticsUsage, vals.tc_usage).monthly_monitored_objects,
                region, ".*StorageAnalytics-ObjCount$")>>

S3InventoryUsage == [monthly_listed_objects |-> 0]

S3InventoryComponents(region, vals) ==
    <<S3Objects("Objects listed", Decode(S3InventoryUsage, vals.tc_usage).monthly_listed_objects,
                region, ".*Inventory-ObjectsListed$")>>

-----------------------------------------------------------------------------
(* aws_efs_file_system *)
EFSFileSystemValues ==
    [availability_zone_name |-> "", lifecycle_policy |-> <<>>, throughput_mode |-> "",
     provisioned_throughput_in_mibps |-> 0, tc_usage |-> Nothing]

EFSUsage ==
    [storage_gb |-> 0, infrequent_access_storage_gb |-> 0, monthly_infrequent_access_read_gb |-> 0,
     monthly_infrequent_access_write_gb |-> 0]

(* What is provisioned over the throughput that comes with the storage,    *)
(* 730 / 20 for each GB and month.  The code divides exactly.              *)
ProvisionedThroughput(storageGB, throughput) == Positive(throughput - storageGB \div 20, 0)

NewEFSFileSystem(region, vals) ==
    LET usage == Decode(EFSUsage, vals.tc_usage)
    IN  [region |-> InZone(region, vals.availability_zone_name),
         oneZone |-> NewFromZone(vals.availability_zone_name) \in AwsRegions,
         hasLifecyclePolicy |-> vals.lifecycle_policy # <<>>,
         provisionedThroughput |->
            IF vals.throughput_mode = "provisioned" /\ vals.provisioned_throughput_in_mibps > 0
            THEN ProvisionedThroughput(usage.storage_gb, vals.provisioned_throughput_in_mibps)
            ELSE 0,
         usage |-> usage]

EFS(family, v, attributes) == Product("AmazonEFS", family, v.region, attributes)

EFSStorage(v, usageType, storageGB) ==
    OfUsage(Monthly("Storage " \o usageType, storageGB,
                    EFS("Storage", v, UsageLike(usageType)), NoPriceFilter))

EFSThroughput(v) ==
    OfUsage(Monthly("Provisioned throughput", v.provisionedThroughput,
                    EFS("Provisioned Throughput", v, UsageLike("ProvisionedTP-MiBpsHrs")), NoPriceFilter))

EFSRequests(v, accessType, requestsGB) ==
    OfUsage(Monthly("Requests " \o accessType, requestsGB,
                    EFS("Storage", v, "AccessType" :> Is(accessType)
                                      @@ "StorageClass" :> Is("Infrequent Access")),
                    NoPriceFilter))

EFSComponents(v) ==
    LET bytes(class) == IF v.oneZone THEN ".*-" \o class \o "TimedStorage-Z-ByteHrs"
                        ELSE ".*-" \o class \o "TimedStorage-ByteHrs"
        infrequent == v.usage.infrequent_access_storage_gb
        read       == v.usage.monthly_infrequent_access_read_gb
        write      == v.usage.monthly_infrequent_access_write_gb
    IN  <<EFSStorage(v, bytes(""), v.usage.storage_gb)>>
        \o Where(v.provisionedThroughput > 0, EFSThroughput(v))
        \o Where(v.hasLifecyclePolicy /\ infrequent > 0, EFSStorage(v, bytes("IA"), infrequent))
        \o Where(v.hasLifecyclePolicy /\ read > 0, EFSRequests(v, "Read", read))
        \o Where(v.hasLifecyclePolicy /\ write > 0, EFSRequests(v, "Write", write))

-----------------------------------------------------------------------------
(* aws_fsx_*_file_system.  The size of the backups in the usage is kept by *)
(* the code and not used; it is left out of the struct.                    *)
FSxLustreValues ==
    [storage_capacity |-> 0, storage_type |-> "", deployment_type |-> "",
     per_unit_storage_throughput |-> 0, automatic_backup_retention_days |-> 0]

FSxValues ==
    [storage_capacity |-> 0, storage_type |-> "", deployment_type |-> "",
     throughput_capacity |-> 0, automatic_backup_retention_days |-> 0]

(* The default of the throughput is chosen before the type of the storage  *)
(* is looked at, and is always that of an SSD.                             *)
NewFSxLustre(region, vals) ==
    [region |-> region, fsxType |-> "Lustre", deploymentOption |-> "Persistent",
     storageCapacity |-> Positive(vals.storage_capacity, 1200),
     storageType |-> Default(vals.storage_type, "", "SSD"),
     throughputCapacity |->
        Positive(vals.per_unit_storage_throughput,
                 IF vals.deployment_type \in {"", "PERSISTENT_1"} THEN 50 ELSE 125),
     automaticBackupRetentionDays |-> Positive(vals.automatic_backup_retention_days, 0)]

(* getOntapDeployOption, getOpenzfsDeployOption, getWindowsDeployOption;   *)
(* they compare whatever the case.                                         *)
OntapDeployOption(type) ==
    CASE type = "single_az_1" -> "Single-AZ" [] type = "single_az_2" -> "Single-AZ_2N"
      [] OTHER -> "Multi-AZ"

OpenzfsDeployOption(type) ==
    CASE type = "single_az_1" -> "Single-AZ" [] type = "single_az_2" -> "Single-AZ_2"
      [] OTHER -> "Multi-AZ"

WindowsDeployOption(type) ==
    CASE type = "single_az_1" -> "Single-AZ" [] type = "single_az_2" -> "Single-AZ_2N"
      [] OTHER -> "Multi-AZ"

NewFSx(region, fsxType, option, vals) ==
    [region |-> region, fsxType |-> fsxType,
     deploymentOption |-> IF vals.deployment_type = "" THEN "Single-AZ" ELSE option,
     storageCapacity |-> Positive(vals.storage_capacity, 32),
     storageType |-> Default(vals.storage_type, "", "SSD"),
     throughputCapacity |-> vals.throughput_capacity,
     automaticBackupRetentionDays |-> Positive(vals.automatic_backup_retention_days, 0)]

NewFSxOntap(region, vals)   == NewFSx(region, "ONTAP", OntapDeployOption(vals.deployment_type), vals)
NewFSxOpenzfs(region, vals) == NewFSx(region, "OpenZFS", OpenzfsDeployOption(vals.deployment_type), vals)
NewFSxWindows(region, vals) == NewFSx(region, "Windows", WindowsDeployOption(vals.deployment_type), vals)

FSx(family, v, option, attributes) ==
    Product("AmazonFSx", family, v.region,
            "Deployment_option" :> Is(option) @@ "FileSystemType" :> Is(v.fsxType) @@ attributes)

FSxThroughput(v) ==
    Monthly("Throughput capacity", v.throughputCapacity,
            FSx("Provisioned Throughput", v, v.deploymentOption, Nothing), NoPriceFilter)

FSxStorage(v) ==
    Monthly(v.fsxType \o " Storage " \o v.storageType, v.storageCapacity,
            FSx("Storage", v, v.deploymentOption,
                "StorageType" :> Is(v.storageType)
                @@ (IF v.fsxType = "Lustre" THEN "ThroughputCapacity" :> Is(ToString(v.throughputCapacity))
                    ELSE Nothing)),
            NoPriceFilter)

(* Backups are as large as the file system. *)
FSxBackup(v) ==
    LET option == CASE v.fsxType = "ONTAP" -> "N/A"
                    [] v.fsxType = "OpenZFS" -> IF v.deploymentOption = "Multi-AZ" THEN "Multi-AZ" ELSE "N/A"
                    [] v.fsxType = "Windows" -> IF v.deploymentOption = "Multi-AZ" THEN "Multi-AZ"
                                                ELSE "Single-AZ"
                    [] OTHER -> v.deploymentOption
    IN  OfUsage(Monthly(v.fsxType \o " Backup storage", v.storageCapacity,
                        FSx("Storage", v, option, UsageLike(".*-BackupUsage")), NoPriceFilter))

FSxComponents(v) ==
    <<FSxStorage(v)>>
    \o Where(v.fsxType # "Lustre", FSxThroughput(v))
    \o Where(v.automaticBackupRetentionDays > 0, FSxBackup(v))

-----------------------------------------------------------------------------
(* aws_cloudwatch_log_group *)
CloudwatchLogGroupUsage ==
    [monthly_data_ingested_gb |-> 0, storage_gb |-> 0, monthly_data_scanned_insights_gb |-> 0]

CloudWatch(family, region, attributes) == Product("AmazonCloudWatch", family, region, attributes)

LogsIngested(region, usage) ==
    OfUsage(Monthly("Data ingested", usage.monthly_data_ingested_gb,
                    CloudWatch("Data Payload", region, UsageLike(".*-DataProcessing-Bytes")), FromZero("GB")))

LogsArchived(region, usage) ==
    OfUsage(Monthly("Archival Storage", usage.storage_gb,
                    CloudWatch("Storage Snapshot", region, UsageLike(".*-TimedStorage-ByteHrs")),
                    FromZero("GB-Mo")))

LogsScanned(region, usage) ==
    OfUsage(Monthly("Insights queries data scanned", usage.monthly_data_scanned_insights_gb,
                    CloudWatch("Data Payload", region, UsageLike(".*-DataScanned-Bytes")), FromZero("GB")))

CloudwatchLogGroupComponents(region, vals) ==
    LET usage == Decode(CloudwatchLogGroupUsage, vals.tc_usage)
    IN  <<LogsIngested(region, usage), LogsArchived(region, usage), LogsScanned(region, usage)>>

(* aws_cloudwatch_metric_alarm.  A metric is the record of its period.     *)
CloudwatchMetricAlarmValues == [comparison_operator |-> "", period |-> 0, metric_query |-> <<>>]

(* The longest of the periods, and 60 where the alarm itself has none.     *)
NewCloudwatchMetricAlarm(region, vals) ==
    LET queries == vals.metric_query
        count[k \in 0..Len(queries)] == IF k = 0 THEN 0 ELSE count[k - 1] + Len(queries[k].metric)
        periods == {Positive(vals.period, 60)}
                   \cup UNION {{queries[k].metric[i].period : i \in DOMAIN queries[k].metric}
                               : k \in DOMAIN queries}
    IN  [region |-> region, comparisonOperator |-> vals.comparison_operator,
         metricsCount |-> Positive(count[Len(queries)], 1),
         period |-> CHOOSE p \in periods : \A q \in periods : q =< p]

CloudwatchMetricAlarmComponents(v) ==
    LET anomaly == v.comparisonOperator \in {"LessThanLowerOrGreaterThanUpperThreshold",
                                             "LessThanLowerThreshold", "GreaterThanUpperThreshold"}
        high    == v.period < 60
    IN  <<OfUsage(Monthly(IF ~high THEN "Standard resolution"
                          ELSE "High resolution" \o (IF anomaly THEN " anomaly detection" ELSE ""),
                          IF anomaly THEN 3 * v.metricsCount ELSE v.metricsCount,
                          CloudWatch("Alarm", v.region,
                                     UsageLike(".*AlarmMonitorUsage")
                                     @@ "AlarmType" :> Is(IF high THEN "High Resolution" ELSE "Standard")),
                          FromZero("Alarms")))>>

-----------------------------------------------------------------------------
(* aws_kms_key *)
KMSKeyValues == [customer_master_key_spec |-> ""]

KMS(name, family, region, used, unit) ==
    Monthly(name, 1, Product("awskms", family, region, UsageLike(used)), FromZero(unit))

KMSKeyComponents(region, vals) ==
    LET spec == Default(vals.customer_master_key_spec, "", "SYMMETRIC_DEFAULT")
        requests(name, used, family) == KMS(name, family, region, used, "Requests")
        ofKind ==
            CASE spec = "RSA_2048" ->
                    <<requests("Requests (RSA 2048)", ".*KMS-Requests-Asymmetric-RSA_2048$", "")>>
              [] spec \in {"RSA_3072", "RSA_4096", "ECC_NIST_P256", "ECC_NIST_P384", "ECC_NIST_P521",
                           "ECC_SECG_P256K1"} ->
                    <<requests("Requests (asymmetric)", ".*KMS-Requests-Asymmetric$", "")>>
              [] OTHER ->
                    <<requests("Requests", ".*KMS-Requests$", "API Request"),
                      requests("ECC GenerateDataKeyPair requests",
                               ".*KMS-Requests-GenerateDatakeyPair-ECC$", ""),
                      requests("RSA GenerateDataKeyPair requests",
                               ".*KMS-Requests-GenerateDatakeyPair-RSA$", "")>>
    IN  <<KMS("Customer master key", "Encryption Key", region, ".*KMS-Keys", "Keys")>> \o ofKind

(* aws_nat_gateway *)
NatGatewayUsage == [monthly_data_processed_gb |-> 0]

NatGatewayInstance(region) ==
    Hourly("NAT gateway", 1, EC2("NAT Gateway", region, UsageLike(".*NatGateway-Hours")), PerHour)

NatGatewayDataProcessed(region, usage) ==
    OfUsage(Monthly("NAT Data processed", usage.monthly_data_processed_gb,
                    EC2("NAT Gateway", region, UsageLike(".*NatGateway-Bytes")), Price("GB", OnDemand)))

NatGatewayComponents(region, vals) ==
    <<NatGatewayInstance(region),
      NatGatewayDataProcessed(region, Decode(NatGatewayUsage, vals.tc_usage))>>

(* aws_eip: an address costs only while nothing uses it.                   *)
ElasticIPValues == [customer_owned_ipv4_pool |-> "", instance |-> "", network_interface |-> ""]

ElasticIPComponents(region, vals) ==
    Where(vals.customer_owned_ipv4_pool = "" /\ vals.instance = "" /\ vals.network_interface = "",
          Hourly("Elastic IP", 1, EC2("IP Address", region, "Group" :> Is("ElasticIP:IdleAddress")),
                 Price("Hrs", OnDemand @@ StartingAt("1"))))

(* aws_lb, aws_alb and, with the type "classic", aws_elb *)
LBValues == [load_balancer_type |-> ""]

LBComponents(region, vals) ==
    LET lb(name, family) ==
            Hourly(name, 1, Product("AWSELB", family, region, UsageLike("LoadBalancerUsage")),
                   Price("Hrs", Nothing))
    IN  <<CASE vals.load_balancer_type = "network" -> lb("Network Load Balancer", "Load Balancer-Network")
            [] vals.load_balancer_type = "gateway" -> lb("Gateway Load Balancer", "Load Balancer-Gateway")
            [] vals.load_balancer_type = "classic" -> lb("Classic Load Balancer", "Load Balancer")
            [] OTHER -> lb("Application Load Balancer", "Load Balancer-Application")>>

(* aws_secretsmanager_secret *)
SecretUsage == [monthly_requests |-> 0]

SecretKept(region) ==
    OfUsage(Monthly("Secret", 1,
                    Product("AWSSecretsManager", "Secret", region, UsageLike(".*-AWSSecretsManager-Secrets")),
                    FromZero("Secrets")))

SecretRequests(region, usage) ==
    OfUsage(Monthly("API Request", usage.monthly_requests,
                    Product("AWSSecretsManager", "API Request", region,
                            UsageLike(".*-AWSSecretsManager[-]?APIRequest[s]?")),
                    FromZero("API Requests")))

SecretComponents(region, vals) ==
    <<SecretKept(region), SecretRequests(region, Decode(SecretUsage, vals.tc_usage))>>

(* aws_sqs_queue: each 64 KB of a request counts as one.                   *)
SQSQueueValues == [fifo_queue |-> FALSE, tc_usage |-> Nothing]
SQSQueueUsage  == [monthly_requests |-> 0, request_size_kb |-> 0]

SQSQueueComponents(region, vals) ==
    LET usage == Decode(SQSQueueUsage, vals.tc_usage)
        type  == IF vals.fifo_queue THEN ".*Requests-FIFO.*" ELSE ".*Requests-[^F].*"
    IN  <<OfUsage(Monthly("Requests " \o type,
                          ((usage.request_size_kb + 63) \div 64) * usage.monthly_requests,
                          Product("AWSQueueService", "API Request", region, UsageLike(type)),
                          FromZero("Requests")))>>
=============================================================================
