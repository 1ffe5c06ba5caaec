----------------------------- MODULE AzureServices -----------------------------
(***************************************************************************)
(* The Azure estimators of databases, shares and networks, and the one of  *)
(* Google.                                                                 *)
(***************************************************************************)
EXTENDS AzureCompute

-----------------------------------------------------------------------------
(* azurerm_postgresql_flexible_server.  A SKU tier_Standard_D2s_v3 is      *)
(* [tier, family |-> "D", cores |-> "2", suffix |-> "s", version |-> "v3"].*)
PostgreSQLValues ==
    [location |-> "", sku_name |-> [tier |-> "", family |-> "", cores |-> "", suffix |-> "", version |-> ""],
     storage_mb |-> 0, high_availability |-> <<>>, geo_redundant_backup_enabled |-> FALSE,
     tc_usage |-> Nothing]

PostgreSQLUsage == [monthly_hours |-> 0, additional_backup_storage_gb |-> 0]

(* A second server, and a second copy of the backups, cost as the first.   *)
NewPostgreSQL(vals) ==
    LET usage == Decode(PostgreSQLUsage, vals.tc_usage)
        twice(condition, n) == IF condition THEN 2 * n ELSE n
    IN  [location |-> GetLocationName(vals.location), sku |-> vals.sku_name,
         storageMB |-> Default(vals.storage_mb, 0, 32768),
         monthlyHours |-> twice(vals.high_availability # <<>>, usage.monthly_hours),
         backupStorageGB |-> twice(vals.geo_redundant_backup_enabled, usage.additional_backup_storage_gb)]

PostgreSQLProduct(inst, attributes) ==
    Product("Azure Database for PostgreSQL", "Databases", inst.location, attributes)

PostgreSQLCompute(inst, skuName, meterName, productName) ==
    Monthly("Compute Flexible PostgreSQL Server", inst.monthlyHours,
            PostgreSQLProduct(inst, ProductName(productName) @@ Meter(meterName) @@ Sku(skuName)),
            Consumption("1 Hour"))

PostgreSQLStorage(inst) ==
    Monthly("Storage Flexible PostgreSQL Server", inst.storageMB \div 1024,
            PostgreSQLProduct(inst, ProductName("Az DB for PostgreSQL Flexible Server Storage")
                                    @@ Meter("Storage Data Stored")),
            Consumption("1 GB/Month"))

PostgreSQLBackup(inst) ==
    OfUsage(Monthly("Backup Storage Flexible PostgreSQL Server", inst.backupStorageGB,
                    PostgreSQLProduct(inst,
                        ProductName("Azure Database for PostgreSQL Flexible Server Backup Storage")
                        @@ Meter("Backup Storage LRS Data Stored")),
                    Consumption("1 GB/Month")))

PostgreSQLComponents(inst) ==
    LET sku      == inst.sku
        burst    == sku.family \o sku.cores \o sku.suffix
        capitals == LookUp("B2s" :> "B2S" @@ "B1ms" :> "B1MS", burst, "")
        series   == sku.family \o sku.suffix \o sku.version
        flexible == "Azure Database for PostgreSQL Flexible Server "
        compute  ==
            CASE sku.tier = "B" ->
                    PostgreSQLCompute(inst, Default(capitals, "", burst),
                                      Default(capitals, "", burst \o " vCore"),
                                      flexible \o "Burstable BS Series Compute")
              [] sku.tier = "GP" ->
                    PostgreSQLCompute(inst, sku.cores \o " vCore", "vCore",
                                      flexible \o "General Purpose "
                                      \o (IF series = "Ddsv5" THEN "- " ELSE "") \o series \o " Series Compute")
              [] sku.tier = "MO" ->
                    PostgreSQLCompute(inst, sku.cores \o " vCore", "vCore",
                                      flexible \o "Memory Optimized " \o series \o " Series Compute")
              [] OTHER -> PostgreSQLCompute(inst, sku.cores \o " vCore", "vCore", "")
    IN  <<compute, PostgreSQLStorage(inst), PostgreSQLBackup(inst)>>

-----------------------------------------------------------------------------
(* azurerm_storage_account has no cost of its own; azurerm_storage_share   *)
(* takes where and how it is kept from the account of its name.            *)
StorageAccountValues ==
    [name |-> "", location |-> "", account_tier |-> "", account_replication_type |-> "",
     account_kind |-> "", access_tier |-> ""]

StorageShareValues ==
    [access_tier |-> "", quota |-> 0, storage_account_name |-> "", tc_usage |-> Nothing]

StorageShareUsage ==
    [monthly_write_transactions |-> 0, monthly_list_transactions |-> 0,
     monthly_read_transactions |-> 0, monthly_other_transactions |-> 0]

WithoutPrefix(text, prefix) ==
    IF HasPrefix(text, prefix) THEN SubSeq(text, Len(prefix) + 1, Len(text)) ELSE text

(* Only the kind of no account is the default: that of an account that     *)
(* does not name its kind is "".  An account is looked for by the name of  *)
(* its block, resource.Name.                                               *)
NewStorageShare(rss, vals) ==
    LET accounts == {a \in DOMAIN rss : /\ rss[a].type = "azurerm_storage_account"
                                        /\ rss[a].name = vals.storage_account_name}
        found    == rss[CHOOSE a \in accounts : TRUE].values
        account  == Decode(StorageAccountValues, found)
        share    == [location |-> "", kind |-> "StorageV2", replication |-> "",
                     accessTier |-> IF vals.access_tier \in {"", "TransactionOptimized"} THEN "Standard"
                                    ELSE vals.access_tier,
                     quota |-> vals.quota, usage |-> Decode(StorageShareUsage, vals.tc_usage)]
    IN  IF accounts = {} THEN share
        ELSE IF found = Undecodable \/ account = StorageAccountValues
        THEN [share EXCEPT !.kind = "", !.accessTier = ""]
        ELSE [share EXCEPT !.location = account.location, !.kind = account.account_kind,
                           !.replication = WithoutPrefix(account.account_replication_type, "RA")]

StorageShare(inst, name, meter, quantity, unit) ==
    Monthly(name, quantity,
            Storage(inst.location, Meter(meter) @@ Sku(inst.accessTier \o " " \o inst.replication)),
            Consumption(unit))

(* The kinds, tiers and replications that have a price.  The last of the   *)
(* guards is about every kind but Storage, of which its comment speaks.    *)
HasShares(inst) ==
    /\ inst.kind \in {"FileStorage", "Storage", "StorageV2"}
    /\ inst.kind = "FileStorage" => inst.accessTier = "Premium" /\ inst.replication \in {"LRS", "ZRS"}
    /\ inst.kind # "Storage" => inst.replication \in {"GRS", "LRS"}

(* What the meters of a share are called; the metadata have no name.  The  *)
(* names for replications that HasShares leaves out are left out too.      *)
StorageShareComponents(inst) ==
    LET r        == inst.replication
        usage    == inst.usage
        stored(meter)     == StorageShare(inst, "Storage GB/Month Used", meter, inst.quota, "1 GB/Month")
        metadata          == StorageShare(inst, "", r \o " Metadata", inst.quota, "1 GB/Month")
        per10K(kind, meter, n) == StorageShare(inst, kind \o " Transactions per 10K", meter, n, "10K")
        transactions(list, read, write, other) ==
            <<per10K("List", list, usage.monthly_list_transactions),
              per10K("Read", read, usage.monthly_read_transactions),
              per10K("Write", write, usage.monthly_write_transactions),
              per10K("Other", other, usage.monthly_other_transactions)>>
        ofTier(tier) == transactions(tier \o r \o " List Operations", tier \o "Read Operations",
                                     tier \o r \o " Write Operations", tier \o "Other Operations")
        ofAccount == transactions("List Operations", "Read Operations", r \o " Write Operations",
                                  "Protocol Operations")
    IN  CASE ~HasShares(inst) -> <<>>
          [] inst.kind = "Storage" -> <<stored(r \o " Data Stored")>> \o ofAccount
          [] inst.kind = "FileStorage" ->
                <<stored("Premium " \o r \o " Provisioned"),
                  StorageShare(inst, "Snapshot GB/Month Used", "Premium " \o r \o " Snapshots",
                               inst.quota, "1 GB/Month")>>
          [] inst.accessTier = "Hot" ->
                <<stored("Hot " \o r \o " Data Stored"), metadata>> \o ofTier("Hot ")
          [] inst.accessTier = "Cool" ->
                <<stored("Cool " \o r \o " Data Stored"),
                  StorageShare(inst, "Cool Data Retrieval GB", "Cool Data Retrieval", inst.quota, "1 GB"),
                  metadata>> \o ofTier("Cool ")
          [] inst.accessTier = "Standard" ->
                <<stored("Cool " \o r \o " Data Stored"), metadata>> \o ofAccount
          [] OTHER -> <<>>

-----------------------------------------------------------------------------
(* azurerm_public_ip *)
PublicIPValues ==
    [location |-> "", allocation_method |-> "", sku |-> "", sku_tier |-> "", tc_usage |-> Nothing]

HoursUsage == [monthly_hours |-> 0]

PublicIPComponents(vals) ==
    LET skuName == IF vals.sku_tier = "Global" THEN "Global" ELSE vals.sku
        hours   == Decode(HoursUsage, vals.tc_usage).monthly_hours
    IN  Where(~(vals.sku = "Standard" /\ vals.allocation_method = "Dynamic"),
              Monthly("IP adress", hours,
                      Networking("Virtual Network", GetLocationName(vals.location),
                                 Meter(skuName \o " IPv4 " \o vals.allocation_method \o " Public IP")
                                 @@ Sku(skuName)),
                      Consumption("1 Hour")))

(* azurerm_private_endpoint *)
PrivateEndpointComponents(vals) ==
    <<Monthly("Private Endpoint", Decode(HoursUsage, vals.tc_usage).monthly_hours,
              Networking("Virtual Network", "Global",
                         ProductName("Virtual Network Private Link") @@ Meter("Standard Private Endpoint")),
              Consumption("1 Hour"))>>

(* azurerm_bastion_host *)
BastionHostValues == [location |-> "", sku |-> "", tc_usage |-> Nothing]
BastionHostUsage  == [monthly_outbound_data_gb |-> 0]

BastionHostComponents(vals) ==
    LET sku == Default(vals.sku, "", "Basic")
        bastion(meter) == Networking("Azure Bastion", GetLocationName(vals.location), Sku(sku) @@ Meter(meter))
    IN  <<Hourly("Bastion host", 1, bastion(sku \o " Gateway"), Consumption("1 Hour")),
          OfUsage(Monthly("Bastion Outbound Data Transfer " \o sku,
                          Decode(BastionHostUsage, vals.tc_usage).monthly_outbound_data_gb,
                          bastion(sku \o " Data Transfer Out"), Consumption("1 GB")))>>

(* azurerm_nat_gateway: its price is the same everywhere. *)
AzureNatGatewayValues == [location |-> "", sku_name |-> "", tc_usage |-> Nothing]
AzureNatGatewayUsage  == [monthly_data_processed_gb |-> 0]

AzureNatGatewayComponents(vals) ==
    LET sku == Default(vals.sku_name, "", "Standard")
        nat(meter) == Networking("NAT Gateway", "Global", Meter(meter) @@ Sku(sku))
    IN  <<Hourly("NAT Gateway", 1, nat(sku \o " Gateway"), Consumption("1 Hour")),
          Monthly("NAT Gateway Data Processed",
                  Decode(AzureNatGatewayUsage, vals.tc_usage).monthly_data_processed_gb,
                  nat(sku \o " Data Processed"), Consumption("1 GB"))>>

(* azurerm_dns_zone, azurerm_private_dns_zone: where the resource group is.*)
DNSZoneValues       == [location |-> "", resource_group_name |-> ""]
ResourceGroupValues == [location |-> ""]

ZoneOfResourceGroup(rss, name) ==
    LET values == IF name \in DOMAIN rss THEN rss[name].values ELSE Nothing
        group  == Decode(ResourceGroupValues, values)
    IN  IF values = Undecodable \/ group.location = "" THEN "Zone 1"
        ELSE GetRegionToVNETZone(GetLocationName(group.location))

DNSZoneComponents(rss, vals, zoneType) ==
    <<Monthly("Hosted zone " \o zoneType, 1,
              Networking("Azure DNS", ZoneOfResourceGroup(rss, vals.resource_group_name),
                         Meter(zoneType \o " Zone") @@ "tierMinimumUnits" :> Is("0")),
              Consumption("1"))>>

(* azurerm_virtual_network_gateway *)
VirtualNetworkGatewayValues == [sku |-> "", location |-> "", type |-> "", tc_usage |-> Nothing]
VirtualNetworkGatewayUsage  == [monthly_data_transfer_gb |-> 0]

NewVirtualNetworkGateway(vals) ==
    [location |-> GetLocationName(vals.location), sku |-> vals.sku,
     meterName |-> IF LowerCase(vals.sku) = "basic" THEN "Basic Gateway" ELSE vals.sku,
     monthlyDataTransferGB |-> Decode(VirtualNetworkGatewayUsage, vals.tc_usage).monthly_data_transfer_gb]

VPNGateway(inst, attributes) == Networking("VPN Gateway", inst.location, attributes)

VPNGatewayCost(inst) ==
    Hourly("VPN gateway (" \o inst.sku \o ")", 1, VPNGateway(inst, Meter(inst.meterName)),
           Consumption("1 Hour"))

VPNGatewayP2S(inst) ==
    Hourly("VPN gateway P2S tunnels (over 128)", 1,
           VPNGateway(inst, Sku(inst.sku) @@ Meter("P2S Connection")), Consumption("1 Hour"))

VPNGatewayDataTransfers(inst) ==
    OfUsage(Monthly("VPN gateway data tranfer", inst.monthlyDataTransferGB,
                    Networking("VPN Gateway", GetRegionToVNETZone(inst.location),
                               ProductName("VPN Gateway Bandwidth")
                               @@ Meter("Standard Inter-Virtual Network Data Transfer Out")),
                    Consumption("1 GB")))

VirtualNetworkGatewayComponents(inst) ==
    <<VPNGatewayCost(inst), VPNGatewayP2S(inst), VPNGatewayDataTransfers(inst)>>

(* azurerm_virtual_network_gateway_connection is priced as a gateway that  *)
(* has no meter: the provider does not call connectionComponent.           *)
GatewayConnectionValues == [virtual_network_gateway_id |-> "", location |-> "", type |-> ""]

NewVirtualNetworkGatewayConnection(rss, vals) ==
    LET ref    == vals.virtual_network_gateway_id
        values == IF ref \in DOMAIN rss THEN rss[ref].values ELSE Nothing
    IN  [location |-> GetLocationName(vals.location), meterName |-> "", monthlyDataTransferGB |-> 0,
         sku |-> IF values = Undecodable THEN "Basic"
                 ELSE Default(Decode(VirtualNetworkGatewayValues, values).sku, "", "Basic")]

-----------------------------------------------------------------------------
(* google_compute_instance *)
ComputeInstanceValues == [machine_type |-> ""]

ComputeInstanceComponents(region, vals) ==
    <<Hourly("Compute", 1,
             Product("Compute Engine", "Compute", region, "machine_type" :> Is(vals.machine_type)),
             Price("h", Nothing))>>
=============================================================================
