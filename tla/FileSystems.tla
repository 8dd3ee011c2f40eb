---------------------------- MODULE FileSystems ----------------------------
(***************************************************************************)
(* The file systems behind a Domain.  FileSystemRam keeps a map in memory; *)
(* FileSystemStd and FileSystemSpiFsV2 keep a file per object, class and   *)
(* version; FileSystemHeader and FileSystemSpiFsV1 read and write one file *)
(* with everything for each call.  FileSystemHeader as a program is built  *)
(* with it that was not made for distillation, or for the ESP32, reads the *)
(* image compiled into the program instead, and writes into a vector it    *)
(* throws away: that one is the kind "image".  Files are truncated and     *)
(* then written: a crash in between leaves a part of the data.             *)
(***************************************************************************)
EXTENDS Integers, FiniteSets, TLC

CONSTANTS
  FsKinds,     \* the file systems: subset of {"ram", "std", "header", "image", "spifs1", "spifs2"}
  FsKeys,      \* triples of object, class and version
  FsData,
  MaxFsCrashes \* bound

VARIABLES
  fs_kind,     \* the file system in use
  fs_ram,      \* state_ of FileSystemRam
  fs_files,    \* the files of a file system with one per entry
  fs_dump,     \* the file with everything; init_fs for the kind "image"
  fs_last,     \* history: the last operation, the keys it was about, its data
  fs_told,     \* history: of each key, "kept", "gone" or "open"
  fs_crashes   \* history: number of crashes

fsVars == <<fs_kind, fs_ram, fs_files, fs_dump, fs_last, fs_told, fs_crashes>>

ObjectOf(k) == k[1]
ClassOf(k) == k[2]
FsObjects == {ObjectOf(k) : k \in FsKeys}
FsClasses == {ClassOf(k) : k \in FsKeys}
EntriesOf(objects) == {k \in FsKeys : ObjectOf(k) \in objects}

(* No data, and data of which only a part is there. *)
NoData == 0
PartOf == -1
EmptyMap == [k \in FsKeys |-> NoData]

PerFile == {"std", "spifs2"}
OneFile == {"header", "spifs1"}

FsInit ==
  /\ fs_kind \in FsKinds
  /\ fs_ram = EmptyMap /\ fs_files = EmptyMap
  /\ fs_dump \in IF fs_kind = "image" THEN [FsKeys -> FsData \cup {NoData}] ELSE {EmptyMap}
  /\ fs_last = [op |-> "none", at |-> {}, data |-> NoData]
  /\ fs_told = [k \in FsKeys |-> IF fs_kind = "image" THEN "open" ELSE "gone"]
  /\ fs_crashes = 0

(* The operations a kind carries out.  DriverSpifsDelete looks for the     *)
(* path without the mount point and finds nothing.                         *)
Effective ==
  CASE fs_kind = "image" -> {}
    [] fs_kind = "spifs1" -> {"store", "remove"}
    [] fs_kind = "spifs2" -> {"store"}
    [] OTHER -> {"store", "remove", "remove_all"}

(* The operation as its caller sees it: op, the keys it is about, and what *)
(* the caller may rely on from then on.                                    *)
Done(op, at, d, told) ==
  /\ fs_last' = [op |-> op, at |-> at, data |-> d]
  /\ fs_told' = [k \in FsKeys |-> IF k \in at /\ op \in Effective THEN told ELSE fs_told[k]]
  /\ UNCHANGED <<fs_kind, fs_crashes>>

(* The drivers: DriverHeaderRead and DriverSpifsRead give the entries of   *)
(* the file with everything, DriverHeaderWrite and DriverSpifsWrite write  *)
(* the file anew.                                                          *)
DriverHeaderRead == fs_dump
DriverHeaderWrite(map) == fs_dump' = map
DriverSpifsRead == fs_dump
DriverSpifsWrite(map) == fs_dump' = map

(* The driver deletes what it is asked to. *)
DriverDeletes == fs_kind \in {"std", "header"}

(* LoadObjData and SaveObjData of the systems with one file; the image is  *)
(* a constant, and what is to be saved goes into a local vector.           *)
LoadObjData == IF fs_kind \in {"header", "image"} THEN DriverHeaderRead ELSE DriverSpifsRead
SaveObjData(map) ==
  CASE fs_kind = "image" -> UNCHANGED fs_dump
    [] fs_kind = "header" -> DriverHeaderWrite(map)
    [] fs_kind = "spifs1" -> DriverSpifsWrite(map)

(* What Load gives for an entry. *)
RamLoad(k) == fs_ram[k]
StdLoad(k) == fs_files[k]
SpifsV2Load(k) == fs_files[k]
HeaderLoad(k) == LoadObjData[k]
SpifsV1Load(k) == LoadObjData[k]

FsLoad(k) ==
  CASE fs_kind = "ram" -> RamLoad(k)
    [] fs_kind = "std" -> StdLoad(k)
    [] fs_kind = "spifs2" -> SpifsV2Load(k)
    [] fs_kind \in {"header", "image"} -> HeaderLoad(k)
    [] fs_kind = "spifs1" -> SpifsV1Load(k)

(* Enumerate gives how often it lists each class.  The systems with a map  *)
(* list the classes of the object's entry.                                 *)
VersionsThere(map, o, c) == {k \in EntriesOf({o}) : ClassOf(k) = c /\ map[k] # NoData}
Once(map, o) == [c \in FsClasses |-> IF VersionsThere(map, o, c) # {} THEN 1 ELSE 0]

(* The systems with files go through the object's directory in each        *)
(* version's, damaged files included; FileSystemStd collects a set.        *)
StdEnumerate(o) == Once(fs_files, o)
SpifsV2Enumerate(o) == [c \in FsClasses |-> Cardinality(VersionsThere(fs_files, o, c))]
RamEnumerate(o) == Once(fs_ram, o)
HeaderEnumerate(o) == Once(LoadObjData, o)
SpifsV1Enumerate(o) == Once(LoadObjData, o)

Enumerate(o) ==
  CASE fs_kind = "ram" -> RamEnumerate(o)
    [] fs_kind = "std" -> StdEnumerate(o)
    [] fs_kind = "spifs2" -> SpifsV2Enumerate(o)
    [] fs_kind \in {"header", "image"} -> HeaderEnumerate(o)
    [] fs_kind = "spifs1" -> SpifsV1Enumerate(o)

-----------------------------------------------------------------------------
(* Store *)

RamStore(k, d) ==
  /\ fs_kind = "ram"
  /\ fs_ram' = [fs_ram EXCEPT ![k] = d]
  /\ UNCHANGED <<fs_files, fs_dump>>

StoreFile(k, d) == fs_files' = [fs_files EXCEPT ![k] = d] /\ UNCHANGED <<fs_ram, fs_dump>>

StdStore(k, d) == fs_kind = "std" /\ StoreFile(k, d)
SpifsV2Store(k, d) == fs_kind = "spifs2" /\ StoreFile(k, d)

\* Mutant: the entry is written without what was there before.
StoreDumpFresh(k, d) ==
  SaveObjData([EmptyMap EXCEPT ![k] = d]) /\ UNCHANGED <<fs_ram, fs_files>>

StoreDump(k, d) ==
  SaveObjData([LoadObjData EXCEPT ![k] = d]) /\ UNCHANGED <<fs_ram, fs_files>>

HeaderStore(k, d) == fs_kind \in {"header", "image"} /\ StoreDump(k, d)
SpifsV1Store(k, d) == fs_kind = "spifs1" /\ StoreDump(k, d)

FsStore(k, d) ==
  /\ \/ RamStore(k, d) \/ StdStore(k, d) \/ SpifsV2Store(k, d)
     \/ HeaderStore(k, d) \/ SpifsV1Store(k, d)
  /\ Done("store", {k}, d, "kept")

-----------------------------------------------------------------------------
(* Remove and remove_all *)

RemoveOf(map, keys) == [k \in FsKeys |-> IF k \in keys THEN NoData ELSE map[k]]

RamRemove(keys) ==
  /\ fs_kind = "ram"
  /\ fs_ram' = RemoveOf(fs_ram, keys)
  /\ UNCHANGED <<fs_files, fs_dump>>

\* Mutant: the object's directory of the newest version only is removed.
RemoveFilesNewest(keys) ==
  /\ fs_files' = IF DriverDeletes THEN RemoveOf(fs_files, {k \in keys : k[3] = 1}) ELSE fs_files
  /\ UNCHANGED <<fs_ram, fs_dump>>

RemoveFiles(keys) ==
  /\ fs_files' = IF DriverDeletes THEN RemoveOf(fs_files, keys) ELSE fs_files
  /\ UNCHANGED <<fs_ram, fs_dump>>

(* FileSystemStd removes the object's directory in each version's,         *)
(* FileSystemSpiFsV2 asks its driver for each file it listed.              *)
StdRemove(keys) == fs_kind = "std" /\ RemoveFiles(keys)
SpifsV2Remove(keys) == fs_kind = "spifs2" /\ RemoveFiles(keys)

(* Remove of the single-file systems reads, erases and writes. *)
RemoveDump(keys) == SaveObjData(RemoveOf(LoadObjData, keys)) /\ UNCHANGED <<fs_ram, fs_files>>

HeaderRemove(keys) == fs_kind \in {"header", "image"} /\ RemoveDump(keys)
SpifsV1Remove(keys) == fs_kind = "spifs1" /\ RemoveDump(keys)

FsRemove(o) ==
  LET keys == EntriesOf({o}) IN
  /\ \/ RamRemove(keys) \/ StdRemove(keys) \/ SpifsV2Remove(keys)
     \/ HeaderRemove(keys) \/ SpifsV1Remove(keys)
  /\ Done("remove", keys, NoData, "gone")

(* remove_all of them deletes the file; the image is in the program. *)
RemoveAllDump ==
  /\ fs_kind \in OneFile \cup {"image"}
  /\ fs_dump' = IF DriverDeletes THEN EmptyMap ELSE fs_dump
  /\ UNCHANGED <<fs_ram, fs_files>>

FsRemoveAll ==
  /\ RamRemove(FsKeys) \/ StdRemove(FsKeys) \/ SpifsV2Remove(FsKeys) \/ RemoveAllDump
  /\ Done("remove_all", FsKeys, NoData, "gone")

(* out_header of FileSystemRam writes its map as the image of a program to *)
(* be built.                                                               *)
OutHeader ==
  /\ fs_kind = "ram"
  /\ DriverHeaderWrite(fs_ram)
  /\ UNCHANGED <<fs_kind, fs_ram, fs_files, fs_last, fs_told, fs_crashes>>

-----------------------------------------------------------------------------
(* Crashes *)

Ends(op, at, d, exposed, told) ==
  /\ fs_crashes < MaxFsCrashes
  /\ fs_crashes' = fs_crashes + 1
  /\ fs_last' = [op |-> op, at |-> at, data |-> d]
  /\ fs_told' = [k \in FsKeys |-> IF k \in exposed THEN told ELSE fs_told[k]]
  /\ UNCHANGED fs_kind

(* The program ends between operations: what is in memory is lost. *)
FsRestart ==
  /\ Ends("restart", {}, NoData, IF fs_kind = "ram" THEN FsKeys ELSE {}, "gone")
  /\ fs_ram' = EmptyMap
  /\ UNCHANGED <<fs_files, fs_dump>>

(* It ends in Store, between the truncation of the file and its end. *)
CrashInFile(k, d) ==
  /\ fs_kind \in PerFile
  /\ fs_files' = [fs_files EXCEPT ![k] = PartOf]
  /\ Ends("crash", {k}, d, {k}, "open")
  /\ UNCHANGED <<fs_ram, fs_dump>>

(* It ends in Remove or remove_all of FileSystemStd, between two of the    *)
(* files below the directories they go through.                            *)
CrashInRemove(keys) ==
  /\ fs_kind = "std"
  /\ \E left \in SUBSET keys : fs_files' = RemoveOf(fs_files, keys \ left)
  /\ Ends("crash", keys, NoData, keys, "open")
  /\ UNCHANGED <<fs_ram, fs_dump>>

(* It ends while the file with everything is written anew.  The map is     *)
(* read object by object, and an object that is not all there is dropped   *)
(* with those after it (operator>> of map).                                *)
CrashInDump(keys, d) ==
  /\ fs_kind \in OneFile
  /\ LET map == [k \in FsKeys |-> IF k \in keys THEN d ELSE LoadObjData[k]]
     IN  \E cut \in FsObjects :
           fs_dump' = [k \in FsKeys |-> IF ObjectOf(k) < cut THEN map[k] ELSE NoData]
  /\ Ends("crash", keys, d, FsKeys, "open")
  /\ UNCHANGED <<fs_ram, fs_files>>

FsCrash ==
  \/ \E k \in FsKeys, d \in FsData : CrashInFile(k, d) \/ CrashInDump({k}, d)
  \/ \E o \in FsObjects : CrashInRemove(EntriesOf({o})) \/ CrashInDump(EntriesOf({o}), NoData)
  \/ CrashInRemove(FsKeys)

FsNext ==
  \/ \E k \in FsKeys, d \in FsData : FsStore(k, d)
  \/ \E o \in FsObjects : FsRemove(o)
  \/ FsRemoveAll
  \/ OutHeader
  \/ FsRestart
  \/ FsCrash

FsSpec == FsInit /\ [][FsNext]_fsVars

-----------------------------------------------------------------------------
(* Properties *)

FsTypeOK ==
  /\ fs_kind \in FsKinds
  /\ \A map \in {fs_ram, fs_files, fs_dump} : map \in [FsKeys -> FsData \cup {NoData, PartOf}]
  /\ fs_told \in [FsKeys -> {"kept", "gone", "open"}]
  /\ fs_crashes \in 0..MaxFsCrashes

Facility == INSTANCE DomainFacility WITH
  df_map <- [k \in FsKeys |-> FsLoad(k)],
  df_listed <- [o \in FsObjects |-> {c \in FsClasses : Enumerate(o)[c] > 0}],
  df_last <- fs_last,
  df_kept <- CASE fs_kind = "ram" -> "memory" [] fs_kind \in PerFile -> "a file each"
               [] OTHER -> "one file",
  df_effect <- Effective,
  DfKeys <- FsKeys, DfData <- FsData, DfObject <- ObjectOf, DfClass <- ClassOf

(* Each file system is an IDomainFacility: a Store or a Remove that the    *)
(* device carries out is seen by the next Load and Enumerate and changes   *)
(* nothing else, one that it does not (the image of FileSystemHeader, the  *)
(* deletions of DriverSpifs) changes nothing, and a crash in the middle of *)
(* one damages no more than the entries in the files it was writing.       *)
ImplementsFacility == Facility!DfSpec

(* What a program may rely on, after any number of operations and crashes: *)
(* what was stored and not removed, nor in a file a crash interrupted the  *)
(* writing of, is loaded and its class is listed, once (by SpiFsV2 once    *)
(* per version); what was removed and not stored again is not found, and a *)
(* class nothing is left of is not listed.                                 *)
FoundAsStored ==
  /\ \A k \in FsKeys :
       /\ fs_told[k] = "kept" => FsLoad(k) \in FsData /\ Enumerate(ObjectOf(k))[ClassOf(k)] > 0
       /\ fs_told[k] = "gone" => FsLoad(k) = NoData
  /\ \A o \in FsObjects, c \in FsClasses :
       LET versions == {k \in EntriesOf({o}) : ClassOf(k) = c} IN
       /\ (\A k \in versions : fs_told[k] = "gone") => Enumerate(o)[c] = 0
       /\ Enumerate(o)[c] <= IF fs_kind = "spifs2" THEN Cardinality(versions) ELSE 1
=============================================================================
