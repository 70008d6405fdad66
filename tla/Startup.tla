------------------------------- MODULE Startup -------------------------------
(***************************************************************************)
(* From the command line to the mining threads (main_inner, main.rs): the  *)
(* config file, the status file of the chosen engine with the user's       *)
(* choice of devices, the detection that fills it, and the threads that    *)
(* are started.  The process can end between any two steps and leaves its  *)
(* files as they are; a file is truncated first and written then.          *)
(*                                                                         *)
(* Between runs the user edits the files and the machine changes in any    *)
(* way: a device may go, come back, or show up at another place.  A device *)
(* stands for its name; an entry of the status file is excluded when       *)
(* is_excluded is set or is_available is not.                              *)
(***************************************************************************)
EXTENDS Integers, FiniteSets, Sequences

CONSTANTS
  Engine,                \* EngineType
  Devices,
  Platforms,             \* of OpenCL
  Machines               \* machines explored: the engine's devices, in its order

\* A machine has each device once; two cards of one make are two devices.
ASSUME StartupAssumption ==
  /\ Engine \in {"OpenCL", "CUDA", "Metal"}
  /\ Machines \subseteq
       Seq([device_name : Devices, platform : Platforms, works : BOOLEAN])
  /\ \A m \in Machines : \A j, k \in DOMAIN m :
       m[j].device_name = m[k].device_name => j = k

VARIABLES
  hw,                    \* the machine
  config,                \* config.json: "none", "cut", "default" or the "user"'s
  status_file,           \* <engine>_gpu_status.json
  pc,
  detect,                \* cli.detect
  used,                  \* the configuration the process goes by
  gpu_devices,           \* the device list in memory
  threads,               \* indexes the mining threads were started with
  \* history
  shown,                 \* the machine at the last detection
  wish,                  \* devices excluded by the user, see ExclusionKept
  own                    \* the user's last configuration is one that loads

files == <<config, status_file>>
process == <<pc, detect, used, gpu_devices, threads>>
history == <<shown, wish, own>>
vars == <<hw, files, process, history>>

Entries == [device_name : Devices, device_index : Nat, excluded : BOOLEAN]

Whole(devices) == [whole |-> TRUE, devices |-> devices]
\* Missing, truncated, or in no way a status file: GpuStatusFile::load fails.
Unreadable == [whole |-> FALSE, devices |-> {}]

\* The device at a place is the one the last detection found there.
Stays(j) == j \in DOMAIN shown /\ shown[j].device_name = hw[j].device_name

Init ==
  /\ hw \in Machines
  /\ config = "none"
  /\ status_file = Unreadable
  /\ pc = "off"
  /\ detect = FALSE
  /\ used = "none"
  /\ gpu_devices = {}
  /\ threads = {}
  /\ shown = hw
  /\ wish = {}
  /\ own = FALSE

-----------------------------------------------------------------------------
\* Detection.

\* The device whose context and program are tried for position j.  OpenCL counts j
\* within the platform and looks it up among the devices of all platforms.
Probed(j) ==
  IF Engine = "OpenCL"
  THEN hw[Cardinality({k \in 1 .. j : hw[k].platform = hw[j].platform})]
  ELSE hw[j]

Found == {j \in DOMAIN hw : Probed(j).works}

\* Mutants: the devices that were set up are counted, as OpenCL does; the count
\* begins one too low.
DeviceIndex_Counted(j) == Cardinality({k \in Found : k < j})
DeviceIndex_CountedFromMinusOne(j) == j - 2

\* OpenCL counts the devices that were set up, the others all devices.
DeviceIndex(j) ==
  IF Engine = "OpenCL" THEN Cardinality({k \in Found : k < j}) ELSE j - 1

\* Mutant: new settings for every device.
Excluded_Default(index) == FALSE

\* resolve_settings_for_detected_devices: the settings the file has for the index.
Excluded(index) ==
  \E d \in status_file.devices : d.device_index = index /\ d.excluded

Detected ==
  {[device_name |-> hw[j].device_name,
    device_index |-> DeviceIndex(j),
    excluded |-> Excluded(DeviceIndex(j))] : j \in Found}

-----------------------------------------------------------------------------
\* A run of the program.

Goto(from, to) == pc = from /\ pc' = to

Off ==
  /\ pc' = "off"
  /\ detect' = FALSE
  /\ used' = "none"
  /\ gpu_devices' = {}
  /\ threads' = {}

\* The engine is initialised.
Start ==
  /\ detect' \in BOOLEAN
  /\ Goto("off", IF detect' THEN "detect" ELSE "load_config")
  /\ UNCHANGED <<hw, files, used, gpu_devices, threads, history>>

\* Mutant: a configuration of the user is put back to the default one.
ConfigLoads_DefaultOnly == config = "default"

ConfigLoads == config \in {"default", "user"}

LoadConfig ==
  /\ Goto("load_config", "load_status")
  /\ ConfigLoads
  /\ used' = config
  /\ UNCHANGED <<hw, files, detect, gpu_devices, threads, history>>

\* ConfigFile::save truncates the file ...
NewConfig ==
  /\ Goto("load_config", "save_config")
  /\ ~ConfigLoads
  /\ config' = "cut"
  /\ UNCHANGED <<hw, status_file, detect, used, gpu_devices, threads, history>>

\* ... and writes it.
SaveConfig ==
  /\ Goto("save_config", "load_status")
  /\ config' = "default"
  /\ used' = "default"
  /\ UNCHANGED <<hw, status_file, detect, gpu_devices, threads, history>>

\* An empty list counts as none.
LoadStatus ==
  /\ Goto("load_status", IF status_file.devices = {} THEN "detect" ELSE "choose")
  /\ gpu_devices' = status_file.devices
  /\ UNCHANGED <<hw, files, detect, used, threads, history>>

\* No device is found, or the engine or the creation of the file fails.
DetectFails ==
  /\ Goto("detect", "reload")
  /\ UNCHANGED <<hw, files, detect, used, gpu_devices, threads, history>>

\* create_status_file: the settings are looked up before the file is truncated.
Detect ==
  /\ Goto("detect", "save_status")
  /\ Found # {}
  /\ gpu_devices' = Detected
  /\ status_file' = Unreadable
  /\ shown' = hw
  /\ wish' = {hw[j].device_name : j \in {k \in Found : Stays(k)}} \cap wish
  /\ UNCHANGED <<hw, config, detect, used, threads, own>>

SaveStatus ==
  /\ Goto("save_status", "reload")
  /\ status_file' = Whole(gpu_devices)
  /\ UNCHANGED <<hw, config, detect, used, gpu_devices, threads, history>>

\* A write that fails is only logged.
SaveStatusFails ==
  /\ Goto("save_status", "reload")
  /\ wish' = {}
  /\ UNCHANGED <<hw, files, detect, used, gpu_devices, threads, shown, own>>

\* Mutant: a file that cannot be read again is done without.
Reload_KeepsDetected ==
  /\ ~detect
  /\ Goto("reload", "choose")
  /\ gpu_devices' = IF status_file.whole THEN status_file.devices ELSE gpu_devices
  /\ UNCHANGED <<hw, files, detect, used, threads, history>>

\* detect_and_return_status_file: what counts is the file.
Reload ==
  /\ ~detect
  /\ status_file.whole
  /\ Goto("reload", "choose")
  /\ gpu_devices' = status_file.devices
  /\ UNCHANGED <<hw, files, detect, used, threads, history>>

\* The default file has no devices; if it cannot be saved the process ends.
ReloadFails ==
  /\ ~detect
  /\ ~status_file.whole
  /\ Goto("reload", "choose")
  /\ gpu_devices' = {}
  /\ status_file' \in {Unreadable, Whole({})}
  /\ UNCHANGED <<hw, config, detect, used, threads, history>>

num_devices == Len(hw)
DevicesToUse == {d.device_index : d \in {e \in gpu_devices : ~e.excluded}}

\* The device indexes are those of the engine, whatever the file names.
StartThreads ==
  /\ Goto("choose", "polling")
  /\ gpu_devices # {}
  /\ threads' = {i \in 0 .. num_devices - 1 : i \in DevicesToUse}
  /\ UNCHANGED <<hw, files, detect, used, gpu_devices, history>>

\* The process ends: it has detected or found no device, an error, a panic, a kill.
End ==
  /\ pc # "off"
  /\ Off
  /\ wish' = IF pc = "save_status" THEN {} ELSE wish
  /\ UNCHANGED <<hw, files, shown, own>>

-----------------------------------------------------------------------------
\* While the program does not run.

MachineChanges ==
  /\ pc = "off"
  /\ hw' \in Machines
  /\ UNCHANGED <<files, process, history>>

\* The user writes a configuration, or something that does not load.
EditConfig ==
  /\ pc = "off"
  /\ config' \in {"user", "cut"}
  /\ own' = (config' = "user")
  /\ UNCHANGED <<hw, status_file, process, shown, wish>>

\* The user excludes a device or takes it back.
EditStatus ==
  /\ pc = "off"
  /\ \E d \in status_file.devices :
       /\ status_file' = Whole((status_file.devices \ {d})
                                 \cup {[d EXCEPT !.excluded = ~d.excluded]})
       /\ wish' = IF d.excluded THEN wish \ {d.device_name}
                                ELSE wish \cup {d.device_name}
  /\ UNCHANGED <<hw, config, process, shown, own>>

Next ==
  \/ Start \/ LoadConfig \/ NewConfig \/ SaveConfig \/ LoadStatus
  \/ DetectFails \/ Detect \/ SaveStatus \/ SaveStatusFails \/ Reload \/ ReloadFails
  \/ StartThreads \/ End
  \/ MachineChanges \/ EditConfig \/ EditStatus

Spec == Init /\ [][Next]_vars

-----------------------------------------------------------------------------
\* The state has its type; only a file that can be read has devices.
TypeOK ==
  /\ hw \in Machines
  /\ config \in {"none", "cut", "default", "user"}
  /\ status_file \in [whole : BOOLEAN, devices : SUBSET Entries]
  /\ ~status_file.whole => status_file.devices = {}
  /\ pc \in {"off", "load_config", "save_config", "load_status", "detect",
             "save_status", "reload", "choose", "polling"}
  /\ detect \in BOOLEAN
  /\ used \in {"none", "default", "user"}
  /\ gpu_devices \subseteq Entries
  /\ threads \subseteq Nat
  /\ shown \in Machines
  /\ wish \subseteq Devices
  /\ own \in BOOLEAN

\* What main_inner prints of a device is what it does with it (main.rs 394-399,
\* 544): a device of the list is mined on if and only if it is listed as available
\* and not excluded.  It must be where the last detection found it: nothing compares
\* the names later, so with any engine a device that has moved is taken for the one
\* that was listed at its new place.
MinesAsPrinted ==
  pc = "polling" =>
    \A d \in gpu_devices, i \in 0 .. num_devices - 1 :
      Stays(i + 1) /\ hw[i + 1].device_name = d.device_name =>
        (i \in threads <=> ~d.excluded)

\* A device the user excluded is not mined on, however many detections, restarts
\* and changes of the other devices came between (gpu_status_file.rs 72-95).  The
\* code gives the wish up in three cases, which are left out: a save of the status
\* file is cut short (gpu_status_file.rs 69); a detection does not find the device;
\* a detection, or the run itself, has it at another place, where the settings
\* looked up by index are another device's (gpu_status_file.rs 80, main.rs 544).
ExclusionKept ==
  pc = "polling" =>
    \A i \in threads : Stays(i + 1) => hw[i + 1].device_name \notin wish

\* What the process goes by while it mines is in its files, whole, whatever was
\* cut short before: the next run begins with the same (main.rs 150-163, 291-343).
MinesByTheFiles ==
  pc = "polling" =>
    /\ status_file.whole /\ gpu_devices = status_file.devices
    /\ used = config /\ used # "none"

\* A configuration of the user that loads is the one mined with, and no run, whole
\* or cut short, replaces it (main.rs 294-318).
UserConfigKept == own => config = "user" /\ (pc = "polling" => used = "user")
=============================================================================
