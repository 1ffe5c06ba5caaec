---------------------------- MODULE AzureCompute ----------------------------
(***************************************************************************)
(* The Azure estimators of machines and their disks.                       *)
(*                                                                         *)
(* A name that the code cuts at "_" is the sequence of its parts, and the  *)
(* name of a database's SKU the record of what its expressions find in it. *)
(* Names come in capitals or not as Azure writes them, so that the code's  *)
(* conversions of case change only what LowerCase says.                    *)
(***************************************************************************)
EXTENDS QueryComponents

CONSTANTS LocationName,  \* region.locationDisplayToName: display name -> name
          VNETZone       \* region.GetRegionToVNETZone: name -> zone

GetLocationName(l)       == LookUp(LocationName, l, l)
GetRegionToVNETZone(reg) == LookUp(VNETZone, reg, "")

Consumption(unit) == Price(unit, "type" :> Is("Consumption"))
Meter(name)       == "meterName" :> Is(name)
MeterLike(text)   == "meterName" :> Like(text)
Sku(name)         == "skuName" :> Is(name)
ProductName(name) == "productName" :> Is(name)

Storage(location, attributes)    == Product("Storage", "Storage", location, attributes)
Networking(service, location, attributes) == Product(service, "Networking", location, attributes)

LowerCase(text) ==
    LookUp("Standard" :> "standard" @@ "StandardSSD" :> "standardssd" @@ "Premium" :> "premium"
           @@ "PremiumV2" :> "premiumv2" @@ "UltraSSD" :> "ultrassd" @@ "Linux" :> "linux"
           @@ "Windows" :> "windows" @@ "Basic" :> "basic", text, text)

-----------------------------------------------------------------------------
(* azurerm_managed_disk *)
ManagedDiskValues ==
    [location |-> "", disk_size_gb |-> 0, disk_iops_read_write |-> 0, disk_mbps_read_write |-> 0,
     storage_account_type |-> <<"">>, tc_usage |-> Nothing]

DiskUsage == [monthly_disk_operations |-> 0]

NewManagedDisk(vals) ==
    [location |-> GetLocationName(vals.location),
     diskSizeGB |-> vals.disk_size_gb,
     diskIOPSReadWrite |-> vals.disk_iops_read_write,
     diskMBPSReadWrite |-> vals.disk_mbps_read_write,
     storageAccountType |-> vals.storage_account_type,
     monthlyDiskOperations |-> Decode(DiskUsage, vals.tc_usage).monthly_disk_operations]

(* diskSizeMap: the tiers of a type of disk are a letter, a level and the  *)
(* GB it holds; those of Standard begin with the fourth.                   *)
DiskLetters == "Standard" :> "S" @@ "StandardSSD" :> "E" @@ "Premium" :> "P"
DiskLevels  == <<"1", "2", "3", "4", "6", "10", "15", "20", "30", "40", "50", "60", "70", "80">>
DiskSizes   == <<4, 8, 16, 32, 64, 128, 256, 512, 1024, 2048, 4096, 8192, 16384, 32767>>
DiskTiers(type) == IF type = "Standard" THEN 4..14 ELSE 1..14

(* Mutation: a tier has to be larger than the disk. *)
MapDiskNameAbove(diskType, requestedSize) ==
    LET fits == {i \in DiskTiers(diskType) : DiskSizes[i] > requestedSize}
    IN  IF diskType \notin DOMAIN DiskLetters \/ requestedSize > 32767 THEN ""
        ELSE DiskLetters[diskType] \o
             DiskLevels[IF fits = {} THEN 14 ELSE CHOOSE i \in fits : \A j \in fits : i =< j]

(* The first tier that holds the disk; none where the type is not one of   *)
(* the map's, letter by letter, or no tier is large enough.                *)
MapDiskName(diskType, requestedSize) ==
    LET fits == {i \in DiskTiers(diskType) : DiskSizes[i] >= requestedSize}
    IN  IF diskType \notin DOMAIN DiskLetters \/ fits = {} THEN ""
        ELSE DiskLetters[diskType] \o DiskLevels[CHOOSE i \in fits : \A j \in fits : i =< j]

DiskProductName ==
    "standard" :> "Standard HDD Managed Disks" @@ "standardssd" :> "Standard SSD Managed Disks"
    @@ "premium" :> "Premium SSD Managed Disks" @@ "premiumv2" :> "Azure Premium SSD v2"
    @@ "ultrassd" :> "Ultra Disks"

DiskSkuNamePref ==
    "standard" :> "Standard" @@ "standardssd" :> "Standard" @@ "premium" :> "Premium"
    @@ "premiumv2" :> "Premium" @@ "ultrassd" :> "Ultra"

DiskProduct(inst, productName, sku, replicationType, meter) ==
    Storage(inst.location, ProductName(productName) @@ Sku(sku \o " " \o replicationType) @@ meter)

ManagedDiskUltra(inst, size, replicationType, pref, productName) ==
    Hourly("Storage - ultra " \o ToString(size), size,
           DiskProduct(inst, productName, pref, replicationType, MeterLike("Provisioned Capacity$")),
           Consumption("1 GiB/Hour"))

ManagedDiskUltraIOPS(inst, iops, replicationType, pref, productName) ==
    Hourly("Provisioned IOPS", iops,
           DiskProduct(inst, productName, pref, replicationType, MeterLike("Provisioned IOPS$")),
           Consumption("1/Hour"))

ManagedDiskUltraThroughput(inst, throughput, replicationType, pref, productName) ==
    Hourly("Throughput MB/s", throughput,
           DiskProduct(inst, productName, pref, replicationType,
                       MeterLike("Provisioned Throughput \\(MBps\\)$")),
           Consumption("1/Hour"))

(* The operations are counted by ten thousand; the code divides exactly.   *)
ManagedDiskOperations(inst, productName, diskName, replicationType) ==
    OfUsage(Monthly("Disk operations", inst.monthlyDiskOperations \div 10000,
                    DiskProduct(inst, productName, diskName, replicationType,
                                MeterLike(".*Disk Operations")),
                    Consumption("10k")))

ManagedDiskStandardPremium(inst, productName, diskName, replicationType) ==
    Monthly("Storage - " \o diskName \o " " \o replicationType, 1,
            DiskProduct(inst, productName, diskName, replicationType,
                        MeterLike("^" \o diskName \o " (" \o replicationType \o " )?Disk(s)?$")),
            Consumption("1/Month"))

ManagedDiskComponents(inst) ==
    LET prefix   == inst.storageAccountType[1]
        replicas == IF Len(inst.storageAccountType) > 1 THEN inst.storageAccountType[2] ELSE ""
        product  == LookUp(DiskProductName, LowerCase(prefix), "")
        pref     == LookUp(DiskSkuNamePref, LowerCase(prefix), "")
        diskName == MapDiskName(prefix, Positive(inst.diskSizeGB, 30))
    IN  IF LowerCase(prefix) \in {"ultrassd", "premiumv2"}
        THEN <<ManagedDiskUltra(inst, Positive(inst.diskSizeGB, 1024), replicas, pref, product),
               ManagedDiskUltraIOPS(inst, Positive(inst.diskIOPSReadWrite, 2048), replicas, pref, product),
               ManagedDiskUltraThroughput(inst, Positive(inst.diskMBPSReadWrite, 8), replicas, pref, product)>>
        ELSE <<ManagedDiskStandardPremium(inst, product, diskName, replicas),
               ManagedDiskOperations(inst, product, diskName, replicas)>>

-----------------------------------------------------------------------------
(* azurerm_linux_virtual_machine, azurerm_windows_virtual_machine and      *)
(* azurerm_virtual_machine.  No machine keeps the type of its licence; a   *)
(* size is the sequence of its parts, "Standard" or "Basic" first.         *)
VirtualMachineUsage == [os_disk |-> Nothing]
Capabilities        == [ultra_ssd_enabled |-> FALSE]
OSDisk        == [storage_account_type |-> <<"">>, disk_size_gb |-> 0]
StorageOSDisk == [os_type |-> "", disk_size_gb |-> 0, managed_disk_type |-> <<"">>]

LinuxVirtualMachineValues ==
    [size |-> <<"">>, location |-> "", os_disk |-> <<>>, additional_capabilities |-> <<>>,
     tc_usage |-> Nothing]

WindowsVirtualMachineValues == LinuxVirtualMachineValues

VirtualMachineValues ==
    [vm_size |-> <<"">>, location |-> "", storage_os_disk |-> <<>>, additional_capabilities |-> <<>>,
     tc_usage |-> Nothing]

(* The disk of a machine; its IOPS and throughput are the defaults. *)
DiskOf(vals, type, size) ==
    NewManagedDisk([location |-> vals.location, disk_size_gb |-> size, disk_iops_read_write |-> 0,
                    disk_mbps_read_write |-> 0, storage_account_type |-> type,
                    tc_usage |-> Decode(VirtualMachineUsage, vals.tc_usage).os_disk])

Machine(os, size, vals, disk) ==
    [location |-> GetLocationName(vals.location), size |-> size, os |-> os,
     ultraSSDEnabled |-> FirstBlock(Capabilities, vals.additional_capabilities).ultra_ssd_enabled,
     managedDisk |-> disk]

WithOSDisk(os, vals) ==
    LET disk == FirstBlock(OSDisk, vals.os_disk)
    IN  Machine(os, vals.size, vals,
                IF vals.os_disk = <<>> THEN <<>>
                ELSE <<DiskOf(vals, disk.storage_account_type, disk.disk_size_gb)>>)

NewLinuxVirtualMachine(vals)   == WithOSDisk("linux", vals)
NewWindowsVirtualMachine(vals) == WithOSDisk("windows", vals)

NewVirtualMachine(vals) ==
    LET disk == FirstBlock(StorageOSDisk, vals.storage_os_disk)
    IN  Machine(IF disk.os_type = "" THEN "linux" ELSE LowerCase(disk.os_type), vals.vm_size, vals,
                IF vals.storage_os_disk = <<>> THEN <<>>
                ELSE <<DiskOf(vals, disk.managed_disk_type, disk.disk_size_gb)>>)

(* The size with its first part. *)
FullSize(size) == IF size[1] \in {"Basic", "Standard"} THEN size ELSE <<"Standard">> \o size

LinuxVirtualMachine(inst) ==
    Hourly("Compute Linux", 1,
           Product("Virtual Machines", "Compute", inst.location,
                   "productName" :> Like(IF inst.size[1] = "Basic" THEN "Series Basic$"
                                         ELSE "Series( Linux)?$")
                   @@ "armSkuName" :> Is(FullSize(inst.size))),
           Consumption("1 Hour"))

WindowsVirtualMachine(inst) ==
    Hourly("Compute Windows", 1,
           Product("Virtual Machines", "Compute", inst.location,
                   "productName" :> Like(IF inst.size[1] = "Basic" THEN "Basic Windows$"
                                         ELSE "(Series )?Windows$")
                   @@ "armSkuName" :> Is(FullSize(inst.size))),
           Consumption("1 Hour"))

UltraSSDReservation(inst) ==
    Hourly("Ultra disk reservation vCPU", 1,
           Storage(inst.location, Sku("Ultra LRS") @@ ProductName("Ultra Disks")
                                  @@ MeterLike("Reservation per vCPU Provisioned$")),
           Consumption("1/Hour"))

VirtualMachineComponents(inst) ==
    <<IF inst.os = "linux" THEN LinuxVirtualMachine(inst) ELSE WindowsVirtualMachine(inst)>>
    \o Where(inst.ultraSSDEnabled, UltraSSDReservation(inst))
    \o (IF inst.managedDisk = <<>> THEN <<>> ELSE ManagedDiskComponents(inst.managedDisk[1]))
=============================================================================
