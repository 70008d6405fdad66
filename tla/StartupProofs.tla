---------------------------- MODULE StartupProofs ----------------------------
(***************************************************************************)
(* Proofs about Startup, on machines that change in any way: about the files *)
(* for every engine; about the devices for every engine too, but with OpenCL *)
(* on machines where every device can be set up.                            *)
(***************************************************************************)
EXTENDS Startup, FiniteSetTheorems, SequenceTheorems, TLAPS

\* With OpenCL an index is a place only as long as all devices can be set up.
AllWork == \A m \in Machines : \A j \in DOMAIN m : m[j].works
IndexesArePlaces == Engine = "OpenCL" => AllWork

Names(devices) == {d.device_name : d \in devices}

\* Every entry carries the index of its device's place at the last detection, and
\* no index comes twice.
Indexed(devices) ==
  /\ \A d \in devices : /\ d.device_index + 1 \in DOMAIN shown
                         /\ shown[d.device_index + 1].device_name = d.device_name
  /\ \A d, e \in devices : d.device_index = e.device_index => d = e

Heeded(devices) == \A d \in devices : d.device_name \in wish => d.excluded

DevicesInv ==
  /\ Indexed(status_file.devices)
  /\ Indexed(gpu_devices)
  /\ Heeded(status_file.devices)
  /\ pc = "save_status" => Heeded(gpu_devices)
  /\ wish \subseteq Names(IF pc = "save_status" THEN gpu_devices ELSE status_file.devices)
  /\ pc = "polling" => threads = {i \in 0 .. num_devices - 1 : i \in DevicesToUse}

\* A list without devices never gets past "choose", and only a whole file has any.
ListFromFile ==
  /\ pc \in {"choose", "polling"} => gpu_devices = status_file.devices
  /\ pc = "polling" => gpu_devices # {}

ConfigInv ==
  /\ detect => pc \in {"detect", "save_status", "reload"}
  /\ ~detect /\ pc \notin {"off", "load_config", "save_config"} =>
       used = config /\ config \in {"default", "user"}
  /\ pc = "save_config" => config = "cut"
  /\ own => config = "user"

AnyEngineInv == TypeOK /\ ListFromFile /\ ConfigInv

IInv == AnyEngineInv /\ DevicesInv

-----------------------------------------------------------------------------
\* Types.

LEMMA MachineType ==
  ASSUME TypeOK
  PROVE  /\ Len(hw) \in Nat /\ DOMAIN hw = 1 .. Len(hw)
         /\ \A j \in DOMAIN hw : hw[j].device_name \in Devices
<1>1. hw \in Seq([device_name : Devices, platform : Platforms, works : BOOLEAN])
  BY StartupAssumption DEF TypeOK
<1>2. Len(hw) \in Nat /\ DOMAIN hw = 1 .. Len(hw)
  BY <1>1
<1>3. ASSUME NEW j \in DOMAIN hw
      PROVE  hw[j].device_name \in Devices
  <2>1. hw[j] \in [device_name : Devices, platform : Platforms, works : BOOLEAN]
    BY <1>1, <1>2, <1>3, ElementOfSeq
  <2> QED BY <2>1
<1> QED BY <1>2, <1>3

LEMMA DevicesOfMachine ==
  ASSUME TypeOK, NEW j \in DOMAIN hw
  PROVE  /\ j \in Nat \ {0} /\ j - 1 \in 0 .. num_devices - 1
         /\ hw[j].device_name \in Devices
BY MachineType DEF num_devices

LEMMA DetectedType ==
  ASSUME TypeOK
  PROVE  Detected \subseteq Entries
<1>1. ASSUME NEW j \in Found
      PROVE  DeviceIndex(j) \in Nat
  <2>1. CASE Engine = "OpenCL"
    <3>1. Len(hw) \in Nat /\ DOMAIN hw = 1 .. Len(hw)
      BY MachineType
    <3>2. IsFiniteSet(1 .. Len(hw))
      BY <3>1, FS_Interval
    <3>3. {k \in Found : k < j} \subseteq 1 .. Len(hw)
      BY <3>1 DEF Found
    <3>4. Cardinality({k \in Found : k < j}) \in Nat
      BY <3>2, <3>3, FS_Subset, FS_CardinalityType
    <3> QED BY <2>1, <3>4 DEF DeviceIndex
  <2>2. CASE Engine # "OpenCL"
    BY <2>2, DevicesOfMachine DEF DeviceIndex, Found
  <2> QED BY <2>1, <2>2
<1>2. ASSUME NEW j \in Found
      PROVE  Excluded(DeviceIndex(j)) \in BOOLEAN
  BY DEF Excluded
<1> QED BY <1>1, <1>2, DevicesOfMachine DEF Detected, Entries, Found

LEMMA TypeInit ==
  ASSUME Init
  PROVE  TypeOK
BY DEF Init, TypeOK, Unreadable

LEMMA TypeStep ==
  ASSUME TypeOK, [Next]_vars
  PROVE  TypeOK'
<1> USE DEF TypeOK
<1>1. CASE Start
  BY <1>1 DEF Start, Goto, files, history, num_devices
<1>2. CASE LoadConfig
  BY <1>2 DEF LoadConfig, ConfigLoads, Goto, files, history, num_devices
<1>3. CASE NewConfig \/ SaveConfig
  BY <1>3 DEF NewConfig, SaveConfig, Goto, history, num_devices
<1>4. CASE LoadStatus
  BY <1>4 DEF LoadStatus, Goto, files, history, num_devices
<1>5. CASE DetectFails
  BY <1>5 DEF DetectFails, Goto, files, history, num_devices
<1>6. CASE Detect
  BY <1>6, DetectedType DEF Detect, Goto, Unreadable, num_devices
<1>7. CASE SaveStatus
  BY <1>7 DEF SaveStatus, Goto, Whole, history, num_devices
<1>8. CASE SaveStatusFails
  BY <1>8 DEF SaveStatusFails, Goto, files, num_devices
<1>9. CASE Reload
  BY <1>9 DEF Reload, Goto, files, history, num_devices
<1>10. CASE ReloadFails
  <2>1. status_file' = [whole |-> FALSE, devices |-> {}]
        \/ status_file' = [whole |-> TRUE, devices |-> {}]
    BY <1>10 DEF ReloadFails, Unreadable, Whole
  <2> DEFINE F(b) == [whole |-> b, devices |-> {}]
  <2>2. F(TRUE) \in [whole : BOOLEAN, devices : SUBSET Entries] /\ F(TRUE).devices = {}
    OBVIOUS
  <2>3. F(FALSE) \in [whole : BOOLEAN, devices : SUBSET Entries] /\ F(FALSE).devices = {}
    OBVIOUS
  <2>4. status_file' \in [whole : BOOLEAN, devices : SUBSET Entries]
        /\ status_file'.devices = {}
    BY <2>1, <2>2, <2>3
  <2> QED BY <1>10, <2>4 DEF ReloadFails, Goto, history, num_devices
<1>11. CASE StartThreads
  BY <1>11 DEF StartThreads, Goto, files, history, num_devices
<1>12. CASE End
  <2>1. wish' \subseteq Devices
    BY <1>12 DEF End
  <2> QED BY <1>12, <2>1 DEF End, Off, files, num_devices
<1>13. CASE MachineChanges
  BY <1>13 DEF MachineChanges, files, process, history, num_devices
<1>14. CASE EditConfig
  <2>1. own' \in BOOLEAN /\ config' \in {"user", "cut"}
    BY <1>14 DEF EditConfig
  <2> QED BY <1>14, <2>1 DEF EditConfig, process, num_devices
<1>15. CASE EditStatus
  <2>1. PICK d \in status_file.devices :
          /\ status_file' = Whole((status_file.devices \ {d})
                                    \cup {[d EXCEPT !.excluded = ~d.excluded]})
          /\ wish' = IF d.excluded THEN wish \ {d.device_name}
                                   ELSE wish \cup {d.device_name}
    BY <1>15 DEF EditStatus
  <2>2. [d EXCEPT !.excluded = ~d.excluded] \in Entries /\ d.device_name \in Devices
    BY <2>1 DEF Entries
  <2> QED BY <1>15, <2>1, <2>2 DEF EditStatus, Whole, process, num_devices
<1>16. CASE UNCHANGED vars
  BY <1>16 DEF vars, files, process, history, num_devices
<1> QED
  BY <1>1, <1>2, <1>3, <1>4, <1>5, <1>6, <1>7, <1>8, <1>9, <1>10, <1>11, <1>12,
     <1>13, <1>14, <1>15, <1>16 DEF Next

\* The state has its type, with every engine and on every machine.
THEOREM TypeCorrect == Spec => []TypeOK
BY TypeInit, TypeStep, PTL DEF Spec

-----------------------------------------------------------------------------
\* The devices and their settings.

\* A device that is found has the index of its place.
LEMMA IndexIsPlace ==
  ASSUME IndexesArePlaces, TypeOK, NEW j \in Found
  PROVE  DeviceIndex(j) = j - 1
<1>1. CASE Engine # "OpenCL"
  BY <1>1 DEF DeviceIndex
<1>2. CASE Engine = "OpenCL"
  <2>1. PICK n \in Nat : n = Len(hw) /\ DOMAIN hw = 1 .. n
    BY MachineType
  <2>2. \A k \in DOMAIN hw : hw[k].works
    BY <1>2 DEF IndexesArePlaces, AllWork, TypeOK
  <2>3. ASSUME NEW k \in DOMAIN hw
        PROVE  Probed(k).works
    <3> DEFINE before == {i \in 1 .. k : hw[i].platform = hw[k].platform}
    <3>1. k \in 1 .. n
      BY <2>1
    <3>2. IsFiniteSet(1 .. k) /\ Cardinality(1 .. k) = k
      BY <3>1, FS_Interval
    <3>3. before \subseteq 1 .. k /\ k \in before
      BY <3>1
    <3>4. IsFiniteSet(before) /\ Cardinality(before) \in Nat /\ Cardinality(before) <= k
      BY <3>2, <3>3, FS_Subset, FS_CardinalityType
    <3>5. Cardinality(before) # 0
      BY <3>3, <3>4, FS_EmptySet
    <3>6. Cardinality(before) \in 1 .. n
      BY <3>1, <3>4, <3>5
    <3>7. Probed(k) = hw[Cardinality(before)]
      BY <1>2 DEF Probed
    <3> QED BY <2>1, <2>2, <3>6, <3>7
  <2>4. Found = 1 .. n
    BY <2>1, <2>3 DEF Found
  <2>5. j \in 1 .. n
    BY <2>4
  <2>6. {k \in Found : k < j} = 1 .. (j - 1)
    BY <2>4, <2>5
  <2>7. Cardinality(1 .. (j - 1)) = j - 1
    BY <2>5, FS_Interval
  <2> QED BY <1>2, <2>6, <2>7 DEF DeviceIndex
<1> QED BY <1>1, <1>2

\* A machine shows a device at one place only.
LEMMA OnePlace ==
  ASSUME TypeOK, NEW m \in Machines, NEW j \in DOMAIN m, NEW k \in DOMAIN m,
         m[j].device_name = m[k].device_name
  PROVE  j = k
BY StartupAssumption

\* What a detection writes of a device: its name, its place, its settings.
LEMMA DetectedEntry ==
  ASSUME IndexesArePlaces, TypeOK, NEW d \in Detected
  PROVE  \E j \in Found : /\ d.device_name = hw[j].device_name
                         /\ d.device_index = j - 1
                         /\ d.excluded = Excluded(j - 1)
<1>1. PICK j \in Found : d = [device_name |-> hw[j].device_name,
                              device_index |-> DeviceIndex(j),
                              excluded |-> Excluded(DeviceIndex(j))]
  BY DEF Detected
<1> QED BY <1>1, IndexIsPlace

LEMMA DetectedIndexed ==
  ASSUME IndexesArePlaces, TypeOK, gpu_devices' = Detected, shown' = hw
  PROVE  Indexed(gpu_devices)'
<1>1. ASSUME NEW d \in Detected
      PROVE  d.device_index + 1 \in DOMAIN hw /\ hw[d.device_index + 1].device_name = d.device_name
  <2>1. PICK j \in Found : d.device_name = hw[j].device_name /\ d.device_index = j - 1
    BY DetectedEntry
  <2>2. j \in DOMAIN hw /\ j \in Nat
    BY DevicesOfMachine DEF Found
  <2>3. d.device_index + 1 = j
    BY <2>1, <2>2
  <2> QED BY <2>1, <2>2, <2>3
<1>2. ASSUME NEW d \in Detected, NEW e \in Detected, d.device_index = e.device_index
      PROVE  d = e
  <2>1. PICK j \in Found : /\ d.device_name = hw[j].device_name
                           /\ d.device_index = j - 1
                           /\ d.excluded = Excluded(j - 1)
    BY DetectedEntry
  <2>2. PICK k \in Found : /\ e.device_name = hw[k].device_name
                           /\ e.device_index = k - 1
                           /\ e.excluded = Excluded(k - 1)
    BY DetectedEntry
  <2>3. j = k
    <3>1. j \in Nat /\ k \in Nat
      BY DevicesOfMachine DEF Found
    <3>2. j - 1 = k - 1
      BY <1>2, <2>1, <2>2
    <3> QED BY <3>1, <3>2
  <2>4. d \in Entries /\ e \in Entries
    BY DetectedType
  <2> QED BY <2>1, <2>2, <2>3, <2>4 DEF Entries
<1> QED BY <1>1, <1>2 DEF Indexed

\* A wish is found again under the index of the device's place, unless the place
\* has changed and the wish is given up.
LEMMA DetectedHeeded ==
  ASSUME IndexesArePlaces, TypeOK, Indexed(status_file.devices),
         Heeded(status_file.devices), wish \subseteq Names(status_file.devices),
         gpu_devices' = Detected,
         wish' = {hw[j].device_name : j \in {k \in Found : Stays(k)}} \cap wish
  PROVE  Heeded(gpu_devices)' /\ wish' \subseteq Names(gpu_devices')
<1>1. ASSUME NEW e \in Detected, e.device_name \in wish'
      PROVE  e.excluded
  <2>1. PICK j \in Found : /\ e.device_name = hw[j].device_name
                           /\ e.excluded = Excluded(j - 1)
    BY DetectedEntry
  <2>2. PICK k \in Found : Stays(k) /\ e.device_name = hw[k].device_name
    BY <1>1
  <2>3. j \in DOMAIN hw /\ k \in DOMAIN hw /\ hw \in Machines /\ shown \in Machines
    BY DEF Found, TypeOK
  <2>4. j = k
    BY <2>1, <2>2, <2>3, OnePlace
  <2>5. j \in DOMAIN shown /\ shown[j].device_name = e.device_name
    BY <2>1, <2>2, <2>4 DEF Stays
  <2>6. PICK d \in status_file.devices : d.device_name = e.device_name
    BY <1>1 DEF Names
  <2>7. d.device_index + 1 = j
    BY <2>3, <2>5, <2>6, OnePlace DEF Indexed
  <2>8. d.device_index \in Nat
    BY <2>6 DEF TypeOK, Entries
  <2>9. d.device_index = j - 1
    BY <2>7, <2>8
  <2>10. d.excluded
    BY <1>1, <2>6 DEF Heeded
  <2> QED BY <2>1, <2>6, <2>9, <2>10 DEF Excluded
<1>2. ASSUME NEW n \in wish'
      PROVE  n \in Names(Detected)
  <2>1. PICK k \in Found : n = hw[k].device_name
    BY <1>2
  <2> DEFINE e == [device_name |-> hw[k].device_name,
                   device_index |-> DeviceIndex(k),
                   excluded |-> Excluded(DeviceIndex(k))]
  <2>2. e \in Detected /\ e.device_name = n
    BY <2>1 DEF Detected
  <2> QED BY <2>2 DEF Names
<1> QED BY <1>1, <1>2 DEF Heeded, Names

LEMMA ToggleKeeps ==
  ASSUME TypeOK, Indexed(status_file.devices), Heeded(status_file.devices),
         wish \subseteq Names(status_file.devices),
         NEW d \in status_file.devices,
         status_file' = Whole((status_file.devices \ {d})
                                \cup {[d EXCEPT !.excluded = ~d.excluded]}),
         wish' = IF d.excluded THEN wish \ {d.device_name}
                               ELSE wish \cup {d.device_name},
         shown' = shown
  PROVE  /\ Indexed(status_file.devices)'
         /\ Heeded(status_file.devices)'
         /\ wish' \subseteq Names(status_file'.devices)
<1> DEFINE t == [d EXCEPT !.excluded = ~d.excluded]
<1>1. d \in Entries /\ t \in Entries
  BY DEF TypeOK, Entries
<1>2. t.device_name = d.device_name /\ t.device_index = d.device_index
      /\ t.excluded = ~d.excluded
  BY <1>1 DEF Entries
<1>3. status_file'.devices = (status_file.devices \ {d}) \cup {t}
  BY DEF Whole
<1> HIDE DEF t
<1>4. Indexed(status_file.devices)'
  <2>1. \A e \in status_file'.devices : \E o \in status_file.devices :
          o.device_name = e.device_name /\ o.device_index = e.device_index
    BY <1>2, <1>3
  <2>2. ASSUME NEW e \in status_file'.devices, NEW f \in status_file'.devices,
               e.device_index = f.device_index
        PROVE  e = f
    <3>1. CASE e = t /\ f # t
      <4>1. f \in status_file.devices /\ f # d /\ d.device_index = f.device_index
        BY <1>2, <1>3, <2>2, <3>1
      <4> QED BY <4>1 DEF Indexed
    <3>2. CASE e # t /\ f = t
      <4>1. e \in status_file.devices /\ e # d /\ e.device_index = d.device_index
        BY <1>2, <1>3, <2>2, <3>2
      <4> QED BY <4>1 DEF Indexed
    <3>3. CASE e # t /\ f # t
      BY <1>3, <2>2, <3>3 DEF Indexed
    <3> QED BY <3>1, <3>2, <3>3
  <2>3. ASSUME NEW e \in status_file'.devices
        PROVE  /\ e.device_index + 1 \in DOMAIN shown
               /\ shown[e.device_index + 1].device_name = e.device_name
    <3>1. PICK o \in status_file.devices :
            o.device_name = e.device_name /\ o.device_index = e.device_index
      BY <2>1
    <3> QED BY <3>1 DEF Indexed
  <2> QED BY <2>2, <2>3 DEF Indexed
<1>5. ASSUME NEW e \in status_file'.devices, e.device_name \in wish'
      PROVE  e.excluded
  <2>1. CASE e = t
    BY <1>2, <1>5, <2>1
  <2>2. CASE e \in status_file.devices \ {d} /\ e.device_name \in wish
    BY <2>2 DEF Heeded
  <2>3. CASE e \in status_file.devices \ {d} /\ e.device_name \notin wish
    <3>1. e.device_name = d.device_name
      BY <1>5, <2>3
    <3>2. e.device_index + 1 = d.device_index + 1
      BY <2>3, <3>1, OnePlace DEF Indexed, TypeOK
    <3>3. e.device_index \in Nat /\ d.device_index \in Nat
      BY <2>3 DEF TypeOK, Entries
    <3> QED BY <2>3, <3>2, <3>3 DEF Indexed
  <2> QED BY <1>3, <1>5, <2>1, <2>2, <2>3
<1>6. wish' \subseteq Names(status_file'.devices)
  BY <1>2, <1>3 DEF Names
<1> QED BY <1>4, <1>5, <1>6 DEF Heeded

-----------------------------------------------------------------------------
\* The invariant.

LEMMA IInvInit ==
  ASSUME Init
  PROVE  IInv
<1>1. TypeOK
  BY TypeInit
<1>2. DevicesInv
  BY DEF Init, DevicesInv, Indexed, Heeded, Names, Unreadable
<1>3. ConfigInv /\ ListFromFile
  BY DEF Init, ConfigInv, ListFromFile
<1> QED BY <1>1, <1>2, <1>3 DEF IInv, AnyEngineInv

LEMMA FileStep ==
  ASSUME ListFromFile, [Next]_vars
  PROVE  ListFromFile'
<1> USE DEF ListFromFile
<1>1. CASE Start \/ LoadConfig \/ NewConfig \/ SaveConfig
  BY <1>1 DEF Start, LoadConfig, NewConfig, SaveConfig, Goto
<1>2. CASE DetectFails \/ Detect \/ SaveStatus \/ SaveStatusFails
  BY <1>2 DEF DetectFails, Detect, SaveStatus, SaveStatusFails, Goto
<1>3. CASE LoadStatus \/ Reload \/ StartThreads
  BY <1>3 DEF LoadStatus, Reload, StartThreads, Goto, files
<1>4. CASE ReloadFails
  <2>1. gpu_devices' = {} /\ status_file'.devices = {} /\ pc' = "choose"
    BY <1>4 DEF ReloadFails, Goto, Unreadable, Whole
  <2> QED BY <2>1
<1>5. CASE End
  BY <1>5 DEF End, Off
<1>6. CASE MachineChanges \/ EditConfig \/ EditStatus
  BY <1>6 DEF MachineChanges, EditConfig, EditStatus, process
<1>7. CASE UNCHANGED vars
  BY <1>7 DEF vars, files, process
<1> QED
  BY <1>1, <1>2, <1>3, <1>4, <1>5, <1>6, <1>7 DEF Next

LEMMA DevicesStep ==
  ASSUME IndexesArePlaces, TypeOK, ListFromFile, DevicesInv, [Next]_vars
  PROVE  DevicesInv'
<1> USE DEF DevicesInv, ListFromFile
<1>1. CASE Start
  BY <1>1 DEF Start, Goto, files, history, Indexed, Heeded, Names
<1>2. CASE LoadConfig \/ NewConfig \/ SaveConfig
  BY <1>2 DEF LoadConfig, NewConfig, SaveConfig, Goto, files, history, Indexed, Heeded, Names
<1>3. CASE LoadStatus
  BY <1>3 DEF LoadStatus, Goto, files, history, Indexed, Heeded, Names
<1>4. CASE DetectFails
  BY <1>4 DEF DetectFails, Goto, files, history, Indexed, Heeded, Names
<1>5. CASE Detect
  <2>1. /\ Indexed(gpu_devices)' /\ Heeded(gpu_devices)'
        /\ wish' \subseteq Names(gpu_devices')
    BY <1>5, DetectedIndexed, DetectedHeeded DEF Detect, Goto
  <2>2. status_file'.devices = {} /\ pc' = "save_status"
    BY <1>5 DEF Detect, Goto, Unreadable
  <2> QED BY <2>1, <2>2 DEF Indexed, Heeded
<1>6. CASE SaveStatus
  BY <1>6 DEF SaveStatus, Goto, Whole, history, Indexed, Heeded, Names
<1>7. CASE SaveStatusFails
  BY <1>7 DEF SaveStatusFails, Goto, files, Indexed, Heeded, Names
<1>8. CASE Reload
  BY <1>8 DEF Reload, Goto, files, history, Indexed, Heeded, Names
<1>9. CASE ReloadFails
  <2>1. status_file.devices = {} /\ status_file'.devices = {} /\ gpu_devices' = {}
    BY <1>9 DEF ReloadFails, Unreadable, Whole, TypeOK
  <2> QED BY <1>9, <2>1 DEF ReloadFails, Goto, history, Indexed, Heeded, Names
<1>10. CASE StartThreads
  BY <1>10 DEF StartThreads, Goto, files, history, Indexed, Heeded, Names,
               DevicesToUse, num_devices
<1>11. CASE End
  BY <1>11 DEF End, Off, files, Indexed, Heeded, Names
<1>12. CASE MachineChanges
  BY <1>12 DEF MachineChanges, files, process, history, Indexed, Heeded, Names
<1>13. CASE EditConfig
  BY <1>13 DEF EditConfig, process, Indexed, Heeded, Names
<1>14. CASE EditStatus
  <2>1. PICK d \in status_file.devices :
          /\ status_file' = Whole((status_file.devices \ {d})
                                    \cup {[d EXCEPT !.excluded = ~d.excluded]})
          /\ wish' = IF d.excluded THEN wish \ {d.device_name}
                                   ELSE wish \cup {d.device_name}
    BY <1>14 DEF EditStatus
  <2>2. pc = "off" /\ pc' = "off" /\ gpu_devices' = gpu_devices
    BY <1>14 DEF EditStatus, process
  <2>3. /\ Indexed(status_file.devices)' /\ Heeded(status_file.devices)'
        /\ wish' \subseteq Names(status_file'.devices)
    BY <1>14, <2>1, <2>2, ToggleKeeps DEF EditStatus
  <2> QED BY <1>14, <2>2, <2>3 DEF EditStatus, Indexed
<1>15. CASE UNCHANGED vars
  BY <1>15 DEF vars, files, process, history, Indexed, Heeded, Names,
               DevicesToUse, num_devices
<1> QED
  BY <1>1, <1>2, <1>3, <1>4, <1>5, <1>6, <1>7, <1>8, <1>9, <1>10, <1>11, <1>12,
     <1>13, <1>14, <1>15 DEF Next

LEMMA ConfigStep ==
  ASSUME TypeOK, ConfigInv, [Next]_vars
  PROVE  ConfigInv'
<1> USE DEF ConfigInv
<1>1. CASE Start
  BY <1>1 DEF Start, Goto, files, history
<1>2. CASE LoadConfig \/ NewConfig \/ SaveConfig
  BY <1>2 DEF LoadConfig, NewConfig, SaveConfig, ConfigLoads, Goto, files, history
<1>3. CASE LoadStatus \/ DetectFails \/ Reload \/ StartThreads
  BY <1>3 DEF LoadStatus, DetectFails, Reload, StartThreads, Goto, files, history
<1>4. CASE Detect \/ ReloadFails
  BY <1>4 DEF Detect, ReloadFails, Goto, history
<1>5. CASE SaveStatus \/ SaveStatusFails
  BY <1>5 DEF SaveStatus, SaveStatusFails, Goto, files, history
<1>6. CASE End
  BY <1>6 DEF End, Off, files
<1>7. CASE MachineChanges
  BY <1>7 DEF MachineChanges, files, process, history
<1>8. CASE EditConfig
  <2>1. pc' = "off" /\ detect' = detect
    BY <1>8 DEF EditConfig, process
  <2>2. own' => config' = "user"
    BY <1>8 DEF EditConfig
  <2> QED BY <1>8, <2>1, <2>2 DEF EditConfig
<1>9. CASE EditStatus
  BY <1>9 DEF EditStatus, process
<1>10. CASE UNCHANGED vars
  BY <1>10 DEF vars, files, process, history
<1> QED
  BY <1>1, <1>2, <1>3, <1>4, <1>5, <1>6, <1>7, <1>8, <1>9, <1>10 DEF Next

\* The name of a device, its index and the user's choice for it agree in the file,
\* in the list and among the threads, and with the machine the last detection saw.
THEOREM Invariance ==
  ASSUME IndexesArePlaces
  PROVE  Spec => []IInv
<1>1. Init => IInv
  BY IInvInit
<1>2. IInv /\ [Next]_vars => IInv'
  BY TypeStep, DevicesStep, FileStep, ConfigStep DEF IInv, AnyEngineInv
<1> QED BY <1>1, <1>2, PTL DEF Spec

\* The entry of a device that stays where it was has the index of its place.
LEMMA EntryOfPlace ==
  ASSUME IInv, NEW i \in 0 .. num_devices - 1, Stays(i + 1), NEW d \in gpu_devices,
         d.device_name = hw[i + 1].device_name
  PROVE  d.device_index = i
<1>1. i + 1 \in DOMAIN shown /\ shown[i + 1].device_name = d.device_name
  BY DEF Stays
<1>2. d.device_index + 1 = i + 1
  BY <1>1, OnePlace DEF IInv, AnyEngineInv, DevicesInv, Indexed, TypeOK
<1>3. d.device_index \in Nat /\ i \in Nat
  BY MachineType DEF IInv, AnyEngineInv, TypeOK, Entries, num_devices
<1> QED BY <1>2, <1>3

\* What is printed of a device is what is done with it, as long as it stays where
\* the last detection found it, whatever becomes of the others (main.rs 394-406, 544).
THEOREM PrintedIsMined ==
  ASSUME IndexesArePlaces
  PROVE  Spec => []MinesAsPrinted
<1>1. IInv => MinesAsPrinted
  <2> SUFFICES ASSUME IInv, pc = "polling", NEW d \in gpu_devices,
                      NEW i \in 0 .. num_devices - 1, Stays(i + 1),
                      hw[i + 1].device_name = d.device_name
               PROVE  i \in threads <=> ~d.excluded
    BY DEF MinesAsPrinted
  <2>1. d.device_index = i
    BY EntryOfPlace
  <2>2. i \in threads <=> \E e \in gpu_devices : ~e.excluded /\ e.device_index = i
    BY DEF IInv, DevicesInv, DevicesToUse
  <2>3. \A e \in gpu_devices : e.device_index = i => e = d
    BY <2>1 DEF IInv, DevicesInv, Indexed
  <2> QED BY <2>1, <2>2, <2>3
<1> QED BY <1>1, Invariance, PTL

\* A device the user excluded is not mined on while it stays at its place, over any
\* number of detections, restarts, crashes and changes of the other devices
\* (gpu_status_file.rs 72-95).
THEOREM ExclusionHolds ==
  ASSUME IndexesArePlaces
  PROVE  Spec => []ExclusionKept
<1>1. IInv => ExclusionKept
  <2> SUFFICES ASSUME IInv, pc = "polling", NEW i \in threads, Stays(i + 1),
                      hw[i + 1].device_name \in wish
               PROVE  FALSE
    BY DEF ExclusionKept
  <2>1. PICK d \in status_file.devices : d.device_name = hw[i + 1].device_name
    BY DEF IInv, DevicesInv, Names
  <2>2. i \in 0 .. num_devices - 1 /\ d \in gpu_devices /\ d.excluded
    BY <2>1 DEF IInv, AnyEngineInv, ListFromFile, DevicesInv, Heeded
  <2>3. d.device_index = i
    BY <2>1, <2>2, EntryOfPlace
  <2>4. PICK e \in gpu_devices : ~e.excluded /\ e.device_index = i
    BY DEF IInv, DevicesInv, DevicesToUse
  <2>5. e = d
    BY <2>2, <2>3, <2>4 DEF IInv, DevicesInv, Indexed
  <2> QED BY <2>2, <2>4, <2>5
<1> QED BY <1>1, Invariance, PTL

\* The miner goes by whole files, and the next run by the same: with every
\* engine, on machines that change in any way (main.rs 150-163, 291-343).
THEOREM FilesAreMinedBy == Spec => []MinesByTheFiles
<1>1. Init => AnyEngineInv
  BY IInvInit DEF IInv, AnyEngineInv
<1>2. AnyEngineInv /\ [Next]_vars => AnyEngineInv'
  BY TypeStep, FileStep, ConfigStep DEF AnyEngineInv
<1>3. AnyEngineInv => MinesByTheFiles
  BY DEF AnyEngineInv, TypeOK, ListFromFile, ConfigInv, MinesByTheFiles
<1> QED BY <1>1, <1>2, <1>3, PTL DEF Spec

\* A configuration that loads is never replaced, with any engine.
THEOREM ConfigKept == Spec => []UserConfigKept
<1>1. Init => TypeOK /\ ConfigInv
  BY TypeInit DEF Init, ConfigInv
<1>2. TypeOK /\ ConfigInv /\ [Next]_vars => (TypeOK /\ ConfigInv)'
  BY TypeStep, ConfigStep
<1>3. TypeOK /\ ConfigInv => UserConfigKept
  BY DEF TypeOK, ConfigInv, UserConfigKept
<1> QED BY <1>1, <1>2, <1>3, PTL DEF Spec
=============================================================================
