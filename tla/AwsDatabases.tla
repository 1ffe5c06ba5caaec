----------------------------- MODULE AwsDatabases -----------------------------
(***************************************************************************)
(* The AWS estimators of databases and caches: RDS clusters with their     *)
(* instances, single RDS instances, ElastiCache clusters and replication   *)
(* groups.                                                                 *)
(***************************************************************************)
EXTENDS AwsCompute

RDS(family, region, attributes) == Product("AmazonRDS", family, region, attributes)
Engine(engine)   == "DatabaseEngine" :> Is(engine)
EngineLike(text) == "DatabaseEngine" :> Like(text)
UsageLike(text)  == "UsageType" :> Like(text)
FromZero(unit)   == Price(unit, OnDemand @@ StartingAt("0"))

-----------------------------------------------------------------------------
(* aws_rds_cluster *)
RDSClusterValues ==
    [engine_mode |-> "", engine |-> "", storage_type |-> "", backup_retention_period |-> 0,
     serverlessv2_scaling_configuration |-> <<>>, tc_usage |-> Nothing]

RDSClusterUsage ==
    [write_requests_per_sec |-> 0, read_requests_per_sec |-> 0, change_records_per_statement |-> 0,
     storage_gb |-> 0, average_statements_per_hr |-> 0, backtrack_window_hrs |-> 0,
     snapshot_export_size_gb |-> 0, capacity_units_per_hr |-> 0, backup_snapshot_size_gb |-> 0]

NewRDSCluster(region, vals) ==
    LET v2   == vals.serverlessv2_scaling_configuration # <<>>
        mode == Default(vals.engine_mode, "", "provisioned")
    IN  [region |-> region, engine |-> vals.engine, storageType |-> vals.storage_type,
         backupRetentionPeriod |-> IF vals.backup_retention_period > 1
                                   THEN vals.backup_retention_period ELSE 1,
         isServerless |-> v2 \/ mode = "serverless",
         serverlessVersion |-> IF v2 THEN "v2" ELSE "v1",
         usage |-> Decode(RDSClusterUsage, vals.tc_usage)]

AuroraServerless(v, engine, isIOOptimized) ==
    LET family == IF v.serverlessVersion = "v2" THEN "ServerlessV2" ELSE "Serverless"
        used   == IF v.serverlessVersion = "v1" THEN ".*Aurora:ServerlessUsage$"
                  ELSE IF isIOOptimized THEN ".*Aurora:ServerlessV2IOOptimizedUsage$"
                  ELSE ".*Aurora:ServerlessV2Usage$"
    IN  OfUsage(Monthly("Aurora " \o family, v.usage.capacity_units_per_hr,
                        RDS(family, v.region, Engine(engine) @@ UsageLike(used)),
                        FromZero("ACU-Hr")))

(* MySQL's requests, and its storage unless it is I/O-optimized, have the  *)
(* price of any engine.                                                    *)
AuroraStorage(v, engine, isIOOptimized) ==
    LET ofRequests == IF engine = "Aurora PostgreSQL" THEN engine ELSE "Any"
        ofStorage  == IF isIOOptimized THEN engine ELSE ofRequests
        perSecond  == v.usage.write_requests_per_sec + v.usage.read_requests_per_sec
    IN  <<OfUsage(Monthly(IF isIOOptimized THEN "Storage (I/O-optimized)" ELSE "Storage",
                          v.usage.storage_gb,
                          RDS("Database Storage", v.region,
                              EngineLike(ofStorage)
                              @@ UsageLike(IF isIOOptimized THEN ".*Aurora:IO-OptimizedStorageUsage$"
                                           ELSE ".*Aurora:StorageUsage$")),
                          FromZero("GB-Mo"))),
          OfUsage(Monthly("I/O requests", perSecond * 730 * 60 * 60,
                          RDS("System Operation", v.region,
                              EngineLike(ofRequests) @@ UsageLike(".*Aurora:StorageIOUsage$")),
                          FromZero("IOs")))>>

AuroraBackup(v, totalBackupStorageGB, engine) ==
    OfUsage(Monthly("Backup storage", totalBackupStorageGB,
                    RDS("Storage Snapshot", v.region,
                        Engine(engine) @@ UsageLike(".*Aurora:BackupUsage$")),
                    FromZero("GB-Mo")))

AuroraBacktrack(v, totalBacktrackChangeRecords) ==
    OfUsage(Monthly("Backtrack", totalBacktrackChangeRecords,
                    RDS("System Operation", v.region, UsageLike(".*Aurora:BacktrackUsage$")),
                    FromZero("CR-Hr")))

AuroraSnapshotExport(v, engine) ==
    OfUsage(Monthly("Snapshot export", v.usage.snapshot_export_size_gb,
                    RDS("System Operation", v.region,
                        Engine(engine) @@ UsageLike(".*Aurora:SnapshotExportToS3$")),
                    FromZero("GB")))

RDSClusterComponents(v) ==
    LET isIOOptimized == v.storageType = "aurora-iopt1"
        engine == IF v.engine = "aurora-postgresql" THEN "Aurora PostgreSQL" ELSE "Aurora MySQL"
        backup == v.usage.backup_snapshot_size_gb * (v.backupRetentionPeriod - 1)
        changes == v.usage.average_statements_per_hr * 730 * v.usage.change_records_per_statement
                   * v.usage.backtrack_window_hrs
    IN  AuroraStorage(v, engine, isIOOptimized)
        \o Where(v.isServerless, AuroraServerless(v, engine, isIOOptimized))
        \o Where(v.backupRetentionPeriod > 1, AuroraBackup(v, backup, engine))
        \o Where(~v.isServerless /\ ~Contains(v.engine, "postgresql"), AuroraBacktrack(v, changes))
        \o <<AuroraSnapshotExport(v, engine)>>

-----------------------------------------------------------------------------
(* aws_rds_cluster_instance *)
RDSClusterInstanceValues ==
    [cluster_identifier |-> "", instance_class |-> "", storage_type |-> "", engine |-> "",
     engine_version |-> "", performance_insights_enabled |-> FALSE,
     performance_insights_retention_period |-> 0, tc_usage |-> Nothing]

RDSClusterInstanceUsage ==
    [monthly_additional_performance_insights_requests |-> 0, capacity_units_per_hr |-> 0]

(* The storage type of the values is not kept, and no instance is ever     *)
(* I/O-optimized.  The class is compared whatever its case.                *)
NewRDSClusterInstance(region, vals) ==
    [region |-> region, engine |-> vals.engine, instanceClass |-> vals.instance_class,
     performanceInsightsEnabled |-> vals.performance_insights_enabled,
     performanceInsightsRetentionPeriod |-> vals.performance_insights_retention_period,
     isServerless |-> vals.instance_class = "db.serverless",
     isIOOptimized |-> FALSE,
     usage |-> Decode(RDSClusterInstanceUsage, vals.tc_usage)]

ServerlessV2Cost(v, engine) ==
    OfUsage(Hourly(IF v.isIOOptimized THEN "Aurora serverless v2 (I/O-optimized)"
                   ELSE "Aurora serverless v2",
                   v.usage.capacity_units_per_hr,
                   RDS("ServerlessV2", v.region,
                       Engine(engine)
                       @@ UsageLike(IF v.isIOOptimized THEN ".*Aurora:ServerlessV2IOOptimizedUsage$"
                                    ELSE ".*Aurora:ServerlessV2Usage$")),
                   FromZero("ACU-Hr")))

ClusterInstanceCost(v, engine) ==
    Hourly("Database instance", 1,
           RDS("Database Instance", v.region,
               "InstanceType" :> Is(v.instanceClass) @@ Engine(engine)
               @@ UsageLike(IF v.isIOOptimized THEN ".*InstanceUsageIOOptimized:.*"
                            ELSE ".*InstanceUsage:.*")),
           FromZero("Hrs"))

InsightsLongTermRetention(v, engine) ==
    OfUsage(Monthly("Performance Insights Long Term Retention (serverless)",
                    v.usage.capacity_units_per_hr,
                    RDS("Performance Insights", v.region,
                        Engine(engine) @@ UsageLike(".*PI_LTR_FMR:Serverless$")),
                    FromZero("ACU-Months")))

InsightsAPIRequest(v) ==
    OfUsage(Monthly("Performance Insights API",
                    v.usage.monthly_additional_performance_insights_requests,
                    RDS("Performance Insights", v.region, UsageLike(".*PI_API$")),
                    FromZero("API Calls")))

RDSClusterInstanceComponents(v) ==
    LET engine == IF v.engine = "aurora-postgresql" THEN "Aurora PostgreSQL" ELSE "Aurora MySQL"
    IN  <<IF v.isServerless THEN ServerlessV2Cost(v, engine) ELSE ClusterInstanceCost(v, engine)>>
        \o Where(v.performanceInsightsEnabled /\ v.performanceInsightsRetentionPeriod > 7,
                 InsightsLongTermRetention(v, engine))
        \o Where(v.performanceInsightsEnabled, InsightsAPIRequest(v))

-----------------------------------------------------------------------------
(* aws_db_instance *)
DBInstanceValues ==
    [instance_class |-> "", availability_zone |-> "", engine |-> "", license_model |-> "",
     multi_az |-> FALSE, allocated_storage |-> 0, storage_type |-> "", iops |-> 0]

DBTypeMap ==
    LET type(engine, edition) == [engine |-> engine, edition |-> edition]
    IN  "aurora" :> type("Aurora MySQL", "") @@ "aurora-mysql" :> type("Aurora MySQL", "")
        @@ "mariadb" :> type("MariaDB", "") @@ "mysql" :> type("MySQL", "")
        @@ "postgres" :> type("PostgreSQL", "")
        @@ "oracle-se" :> type("Oracle", "Standard") @@ "oracle-se1" :> type("Oracle", "Standard One")
        @@ "oracle-se2" :> type("Oracle", "Standard Two") @@ "oracle-ee" :> type("Oracle", "Enterprise")
        @@ "sqlserver-se" :> type("SQL Server", "Standard")
        @@ "sqlserver-ee" :> type("SQL Server", "Enterprise")
        @@ "sqlserver-ex" :> type("SQL Server", "Express")
        @@ "sqlserver-web" :> type("SQL Server", "Web")

LicenseModelMap ==
    "license-included" :> "License included" @@ "bring-your-own-license" :> "Bring your own license"

NewDBInstance(region, vals) ==
    [region |-> InZone(region, vals.availability_zone),
     instanceType |-> vals.instance_class,
     database |-> LookUp(DBTypeMap, vals.engine, [engine |-> "", edition |-> ""]),
     licenseModel |-> LookUp(LicenseModelMap, vals.license_model, ""),
     deploymentOption |-> IF vals.multi_az THEN "Multi-AZ" ELSE "Single-AZ",
     allocatedStorage |-> vals.allocated_storage,
     storageType |-> vals.storage_type,
     storageIOPS |-> vals.iops]

DatabaseInstance(inst) ==
    Hourly("Database instance", 1,
           RDS("Database Instance", inst.region,
               "InstanceType" :> Is(inst.instanceType)
               @@ "DeploymentOption" :> Is(inst.deploymentOption)
               @@ Engine(inst.database.engine)
               @@ (IF inst.database.edition = "" THEN Nothing
                   ELSE "DatabaseEdition" :> Is(inst.database.edition))
               @@ (IF inst.licenseModel = "" THEN Nothing
                   ELSE "LicenseModel" :> Is(inst.licenseModel))),
           PerHour)

DatabaseStorage(inst) ==
    LET volume == CASE inst.storageType = "standard" -> "Magnetic"
                    [] inst.storageType \in {"io1", "io2"} -> "Provisioned IOPS"
                    [] OTHER -> "General Purpose"
    IN  Monthly("Database storage", inst.allocatedStorage,
                RDS("Database Storage", inst.region,
                    "DeploymentOption" :> Is(inst.deploymentOption) @@ "VolumeType" :> Is(volume)),
                NoPriceFilter)

DatabaseIOPS(inst) ==
    Monthly("Database IOPS", inst.storageIOPS,
            RDS("Provisioned IOPS", inst.region, "DeploymentOption" :> Is(inst.deploymentOption)),
            NoPriceFilter)

DBInstanceComponents(inst) ==
    <<DatabaseInstance(inst), DatabaseStorage(inst)>>
    \o Where(HasPrefix(inst.storageType, "io"), DatabaseIOPS(inst))

-----------------------------------------------------------------------------
(* aws_elasticache_cluster; one of a replication group is priced there.    *)
ElastiCacheValues ==
    [node_type |-> "", availability_zone |-> "", engine |-> "", replication_group_id |-> "",
     num_cache_nodes |-> 0, snapshot_retention_limit |-> 0]

CacheTypeMap == "memcached" :> "Memcached" @@ "redis" :> "Redis"

NewElastiCache(region, vals) ==
    [region |-> InZone(region, vals.availability_zone),
     instanceType |-> vals.node_type,
     cacheEngine |-> LookUp(CacheTypeMap, vals.engine, ""),
     numCacheNodes |-> vals.num_cache_nodes,
     replicationGroupID |-> vals.replication_group_id,
     snapshotRetentionLimit |-> vals.snapshot_retention_limit]

ElastiCacheInstance(inst) ==
    Hourly("Cache instance", inst.numCacheNodes,
           Product("AmazonElastiCache", "Cache Instance", inst.region,
                   "InstanceType" :> Is(inst.instanceType) @@ "CacheEngine" :> Is(inst.cacheEngine)),
           PerHour)

(* The size of a snapshot is not known and counts as 0. *)
ElastiCacheBackup(inst) ==
    Monthly("Backup storage", 0 * inst.snapshotRetentionLimit,
            Product("AmazonElastiCache", "Storage Snapshot", inst.region, Nothing),
            Price("GB-Mo", OnDemand))

CacheBackups(inst) ==
    Where(inst.snapshotRetentionLimit > 0 /\ HasPrefix(inst.cacheEngine, "Redis"),
          ElastiCacheBackup(inst))

ElastiCacheComponents(inst) ==
    IF inst.replicationGroupID # "" THEN <<>>
    ELSE <<ElastiCacheInstance(inst)>> \o CacheBackups(inst)

-----------------------------------------------------------------------------
(* aws_elasticache_replication_group; one of a global group has no cost.   *)
ElastiCacheReplicationValues ==
    [node_type |-> "", availability_zones |-> <<>>, engine |-> "", num_node_groups |-> 0,
     replicas_per_node_group |-> 0, cluster_mode |-> <<>>, num_cache_clusters |-> 0,
     snapshot_retention_limit |-> 0, global_replication_group_id |-> ""]

ClusterMode == [num_node_groups |-> 0, replicas_per_node_group |-> 0]

NewElastiCacheReplication(region, vals) ==
    LET nodes(groups, replicas) == groups * replicas + groups
        mode == FirstBlock(ClusterMode, vals.cluster_mode)
    IN  [region |-> IF vals.availability_zones = <<>> THEN region
                    ELSE InZone(region, vals.availability_zones[1]),
         instanceType |-> vals.node_type,
         cacheEngine |-> IF vals.engine = "" THEN "Redis" ELSE LookUp(CacheTypeMap, vals.engine, ""),
         numCacheNodes |->
            IF vals.cluster_mode # <<>>
            THEN nodes(mode.num_node_groups, mode.replicas_per_node_group)
            ELSE IF vals.num_node_groups > 0
            THEN nodes(vals.num_node_groups, vals.replicas_per_node_group)
            ELSE vals.num_cache_clusters,
         snapshotRetentionLimit |-> vals.snapshot_retention_limit,
         globalReplicationGroupID |-> vals.global_replication_group_id]

ElastiCacheReplicationComponents(inst) ==
    IF inst.globalReplicationGroupID # "" THEN <<>>
    ELSE <<ElastiCacheInstance(inst)>> \o CacheBackups(inst)
=============================================================================
