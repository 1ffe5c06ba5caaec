------------------------------ MODULE MCEstimators ------------------------------
(* The estimators on small modules of resources.  A usage or a size is at a *)
(* limit of a tier or beside it; a group, a share or a zone has its         *)
(* template, account or resource group, or names one that is not there.     *)
EXTENDS Estimators

MCAwsRegions   == {"eu-west-1", "us-east-1"}
MCShortName    == "eu-west-1" :> "EU" @@ "us-east-1" :> ""
MCLocationName == "UK West" :> "ukwest"
MCVNETZone     == "ukwest" :> "Zone 1" @@ "brazilsouth" :> "Zone 3"

Values(type, name, values) == [type |-> type, name |-> name, values |-> values]

World(p, r, rss, u) == [provider |-> p, region |-> r, resources |-> rss, usage |-> u]

(* One resource with one of the values and one of the usages of its type.  *)
Single(p, r, type, valueSet, usageSet) ==
    {World(p, r, "one" :> Values(type, "one", v), type :> u) : v \in valueSet, u \in usageSet}

Aws(type, valueSet, usageSet)   == Single("aws", "eu-west-1", type, valueSet, usageSet)
Azure(type, valueSet, usageSet) == Single("azurerm", "", type, valueSet, usageSet)

NoValues == {Nothing}
Blocks(S) == {<<>>} \cup {<<b>> : b \in S}

-----------------------------------------------------------------------------
Zones   == {"", "eu-west-1b", "us-east-1a", "xx-none-1a"}
Devices == [volume_type : {"io1"}, volume_size : {0, 50}, iops : {0, 100}]
Templates ==
    [instance_type : {"m5.large", "t3.micro"},
     placement : Blocks([tenancy : {"", "dedicated"}, availability_zone : {"", "us-east-1a"}]),
     monitoring : Blocks({[enabled |-> TRUE]}),
     ebs_optimized : {TRUE},
     credit_specification : Blocks({[cpu_credits |-> "unlimited"]}),
     block_device_mappings : Blocks([ebs : {<<[volume_type |-> "gp2", volume_size |-> 40]>>}])]
    \cup {Undecodable}

InstanceWorlds ==
    Aws("aws_instance",
        [instance_type : {"t3.micro"}, tenancy : {"default", "dedicated"}, availability_zone : Zones,
         monitoring : BOOLEAN, ebs_optimized : BOOLEAN,
         credit_specification : Blocks({[cpu_credits |-> "unlimited"]}),
         root_block_device : Blocks(Devices)] \cup {Undecodable}, NoValues)
    \cup Aws("aws_ebs_volume",
             [type : {"", "io1", "io2", "gp2"}, size : {0, 1, 8}, iops : {0, 100},
              availability_zone : Zones], NoValues)

Reference == {<<[id |-> "lt"]>>, <<[name |-> "lt"]>>, <<[id |-> "missing"]>>}

(* Groups with a template, or with a launch configuration, or a policy. *)
Groups ==
    {"aws_autoscaling_group"} \X
        [desired_capacity : {0, 3}, min_size : {0, 2},
         availability_zones : {<<>>, <<"us-east-1a", "us-east-1b">>}, launch_template : Reference]
    \cup {"aws_autoscaling_group"} \X
        [min_size : {2}, availability_zones : {<<"us-east-1a">>},
         mixed_instances_policy :
            {<<p>> : p \in [specification : {[id |-> "lt"], [name |-> "missing"]},
                            overrides : {<<>>, <<"c5.large">>}]}]
    \cup {"aws_eks_node_group"} \X
        [scaling_config : Blocks([desired_size : {0, 3}, min_size : {1}]),
         instance_types : {<<>>, <<"m5.large">>}, disk_size : {0, 40},
         launch_template : Reference \cup {<<>>}]

GroupWorlds ==
    {World("aws", "eu-west-1",
           "group" :> Values(g[1], "group", g[2]) @@ "lt" :> Values("aws_launch_template", "lt", t),
           Nothing) : g \in Groups, t \in Templates}
    \cup {World("aws", "eu-west-1",
                "group" :> Values("aws_autoscaling_group", "group",
                                  [launch_configuration |-> "lc", desired_capacity |-> 2,
                                   availability_zones |-> z])
                @@ name :> Values("aws_launch_configuration", name, lc), Nothing)
          : z \in {<<>>, <<"us-east-1a">>}, name \in {"lc", "other"},
            lc \in [instance_type : {"m5.large"}, placement_tenancy : {"", "dedicated"},
                    ebs_optimized : {TRUE}, enable_monitoring : BOOLEAN,
                    root_block_device : Blocks(Devices)] \cup {Undecodable}}

-----------------------------------------------------------------------------
Few == {0, 3}

DatabaseWorlds ==
    Aws("aws_rds_cluster",
        [engine_mode : {"", "serverless"}, engine : {"aurora-mysql", "aurora-postgresql"},
         storage_type : {"", "aurora-iopt1"}, backup_retention_period : {0, 7},
         serverlessv2_scaling_configuration : {<<>>, <<Nothing>>}],
        [write_requests_per_sec : Few, read_requests_per_sec : {1}, storage_gb : Few,
         average_statements_per_hr : {2}, change_records_per_statement : {1},
         backtrack_window_hrs : {4}, capacity_units_per_hr : {1}, backup_snapshot_size_gb : Few])
    \cup Aws("aws_rds_cluster_instance",
             [engine : {"aurora-mysql", "aurora-postgresql"},
              instance_class : {"db.r5.large", "db.serverless"},
              performance_insights_enabled : BOOLEAN,
              performance_insights_retention_period : {0, 7, 31}],
             [capacity_units_per_hr : Few])
    \cup Aws("aws_db_instance",
             [instance_class : {"db.t3.small"}, engine : {"mysql", "oracle-se2", "other"},
              license_model : {"", "license-included"}, multi_az : BOOLEAN,
              availability_zone : Zones, storage_type : {"standard", "gp2", "io1"},
              allocated_storage : {10}, iops : {100}], NoValues)
    \cup Aws("aws_elasticache_cluster",
             [engine : {"redis", "memcached"}, replication_group_id : {"", "group"},
              num_cache_nodes : {2}, snapshot_retention_limit : {0, 1}], NoValues)
    \cup Aws("aws_elasticache_replication_group",
             [engine : {"", "redis"}, num_node_groups : Few, replicas_per_node_group : {2},
              cluster_mode : Blocks({[num_node_groups |-> 2, replicas_per_node_group |-> 1]}),
              num_cache_clusters : {4}, snapshot_retention_limit : {0, 1},
              global_replication_group_id : {"", "global"}], NoValues)

StorageWorlds ==
    Aws("aws_s3_bucket", NoValues,
        [storage_gb : {0, 51200, 51201, 512000, 512001}, monthly_outbound_data_gb : {10240}]
        \cup [storage_gb : {100},
              monthly_outbound_data_gb : {0, 10240, 10241, 51200, 51201, 153600, 153601}])
    \cup Aws("aws_s3_bucket_analytics_configuration", NoValues, {[monthly_monitored_objects |-> 5]})
    \cup Aws("aws_s3_bucket_inventory", NoValues, {[monthly_listed_objects |-> 5]})
    \cup Aws("aws_efs_file_system",
             [availability_zone_name : Zones, lifecycle_policy : {<<>>, <<Nothing>>},
              throughput_mode : {"", "provisioned"}, provisioned_throughput_in_mibps : {5}],
             [storage_gb : {20, 100}, infrequent_access_storage_gb : Few,
              monthly_infrequent_access_read_gb : Few, monthly_infrequent_access_write_gb : Few])
    \cup Aws("aws_fsx_lustre_file_system",
             [storage_capacity : Few, storage_type : {"", "HDD"}, per_unit_storage_throughput : Few,
              deployment_type : {"", "PERSISTENT_2"}, automatic_backup_retention_days : Few], NoValues)
    \cup UNION {Aws(type,
                    [storage_capacity : Few, storage_type : {"", "HDD"}, throughput_capacity : {8},
                     deployment_type : {"", "single_az_1", "single_az_2", "multi_az_1"},
                     automatic_backup_retention_days : Few], NoValues)
                : type \in {"aws_fsx_ontap_file_system", "aws_fsx_openzfs_file_system",
                            "aws_fsx_windows_file_system"}}

ServiceWorlds ==
    Aws("aws_cloudwatch_log_group", NoValues, {[storage_gb |-> 3]})
    \cup Aws("aws_cloudwatch_metric_alarm",
             [comparison_operator : {"LessThanThreshold", "GreaterThanUpperThreshold"},
              period : {0, 30},
              metric_query : {<<>>, <<[metric |-> <<[period |-> 30], [period |-> 90]>>]>>}], NoValues)
    \cup Aws("aws_kms_key", [customer_master_key_spec : {"", "RSA_2048", "RSA_4096"}], NoValues)
    \cup Aws("aws_nat_gateway", NoValues, {[monthly_data_processed_gb |-> 3]})
    \cup Aws("aws_eip", [instance : {"", "i"}, network_interface : {"", "n"},
                         customer_owned_ipv4_pool : {"", "pool"}], NoValues)
    \cup Aws("aws_elb", {Nothing, Undecodable}, NoValues)
    \cup UNION {Aws(type, [load_balancer_type : {"", "network", "gateway", "classic"}], NoValues)
                : type \in {"aws_lb", "aws_alb"}}
    \cup Aws("aws_secretsmanager_secret", NoValues, {[monthly_requests |-> 3]})
    \cup Aws("aws_sqs_queue", [fifo_queue : BOOLEAN],
             [monthly_requests : {2}, request_size_kb : {0, 1, 64, 65}])
    \cup Aws("aws_eks_cluster", NoValues, NoValues)
    \cup Aws("aws_unknown", NoValues, NoValues)
    \cup Single("google", "europe-west1", "google_compute_instance",
                [machine_type : {"n1-standard-1"}], NoValues)

-----------------------------------------------------------------------------
DiskTypes == {"Standard", "StandardSSD", "Premium", "PremiumV2", "UltraSSD", "standardssd"} \X {"LRS"}

MachineWorlds ==
    Azure("azurerm_managed_disk",
          [location : {"UK West", "ukwest"}, storage_account_type : DiskTypes,
           disk_size_gb : {0, 1, 4, 5, 30, 32, 33, 16384, 16385, 32767, 32768},
           disk_iops_read_write : {0, 500}, disk_mbps_read_write : {0}],
          {[monthly_disk_operations |-> 20000]})
    \cup UNION {Azure(type,
                      [location : {"UK West"}, size : {<<"Basic", "A1">>, <<"Standard", "D2">>, <<"D2">>},
                       additional_capabilities : Blocks([ultra_ssd_enabled : BOOLEAN]),
                       os_disk : Blocks([storage_account_type : DiskTypes, disk_size_gb : {0, 64}])],
                      {Nothing, [os_disk |-> [monthly_disk_operations |-> 10000]]})
                : type \in {"azurerm_linux_virtual_machine", "azurerm_windows_virtual_machine"}}
    \cup Azure("azurerm_virtual_machine",
               [location : {"UK West"}, vm_size : {<<"Standard", "D2">>},
                storage_os_disk : Blocks([os_type : {"", "Linux", "Windows"},
                                          managed_disk_type : DiskTypes, disk_size_gb : {64}])], NoValues)

PostgreSQLSkus ==
    {[tier |-> t[1], family |-> t[2], cores |-> t[3], suffix |-> t[4], version |-> t[5]]
     : t \in {<<"B", "B", "1", "ms", "">>, <<"B", "B", "4", "ms", "">>, <<"GP", "D", "2", "s", "v3">>,
              <<"GP", "D", "2", "ds", "v5">>, <<"MO", "E", "4", "s", "v3">>}}

Account(kind, replication) ==
    [name |-> "account", location |-> "UK West", account_kind |-> kind,
     account_replication_type |-> replication]

ShareWorlds ==
    {World("azurerm", "",
           "share" :> Values("azurerm_storage_share", "share",
                             [access_tier |-> tier, quota |-> 3, storage_account_name |-> name])
           @@ "account" :> Values("azurerm_storage_account", "account", account),
           "azurerm_storage_share" :> [monthly_read_transactions |-> 2])
     : tier \in {"", "Hot", "Cool", "Premium", "TransactionOptimized"}, name \in {"account", "missing"},
       account \in {Account(kind, replication)
                    : kind \in {"", "Storage", "StorageV2", "FileStorage", "BlobStorage"},
                      replication \in {"LRS", "RAGRS", "ZRS"}} \cup {Nothing, Undecodable}}

(* A zone and its resource group, a connection and its gateway. *)
ReferringWorlds ==
    {World("azurerm", "",
           "zone" :> Values(type, "zone", [resource_group_name |-> name])
           @@ "group" :> Values("azurerm_resource_group", "group", values), Nothing)
     : type \in {"azurerm_dns_zone", "azurerm_private_dns_zone"}, name \in {"group", "missing"},
       values \in {[location |-> "brazilsouth"], Nothing, Undecodable}}
    \cup {World("azurerm", "",
                "connection" :> Values("azurerm_virtual_network_gateway_connection", "connection",
                                       [location |-> "ukwest", virtual_network_gateway_id |-> ref])
                @@ "gateway" :> Values("azurerm_virtual_network_gateway", "gateway",
                                       [location |-> "ukwest", sku |-> sku]),
                "azurerm_virtual_network_gateway" :> [monthly_data_transfer_gb |-> 3])
          : ref \in {"gateway", "missing"}, sku \in {"Basic", "VpnGw1"}}

NetworkWorlds ==
    Azure("azurerm_postgresql_flexible_server",
          [location : {"ukwest"}, sku_name : PostgreSQLSkus, storage_mb : {0, 65536},
           high_availability : {<<>>, <<Nothing>>}, geo_redundant_backup_enabled : BOOLEAN],
          {[monthly_hours |-> 730, additional_backup_storage_gb |-> 50]})
    \cup Azure("azurerm_public_ip",
               [location : {"ukwest"}, sku : {"", "Basic", "Standard"}, sku_tier : {"", "Global"},
                allocation_method : {"Static", "Dynamic"}], {[monthly_hours |-> 730]})
    \cup Azure("azurerm_private_endpoint", NoValues, {[monthly_hours |-> 730]})
    \cup Azure("azurerm_bastion_host", [location : {"ukwest"}, sku : {"", "Standard"}],
               {[monthly_outbound_data_gb |-> 3]})
    \cup Azure("azurerm_nat_gateway", [location : {"ukwest"}, sku_name : {"", "Premium"}],
               {[monthly_data_processed_gb |-> 3]})

MCWorlds == InstanceWorlds \cup GroupWorlds \cup DatabaseWorlds \cup StorageWorlds \cup ServiceWorlds
            \cup MachineWorlds \cup ShareWorlds \cup ReferringWorlds \cup NetworkWorlds
=============================================================================
