------------------------------ MODULE AsysDevice ------------------------------
(***************************************************************************)
(* What asys asks of the devices (common/device.py and the handlers of the *)
(* chips), and the commands info, health, config, profiling and diagnose   *)
(* that are built on the answers.                                          *)
(*                                                                         *)
(* The libraries answer for a device d with a record ans[d]:               *)
(*   fails   the queries that return an error or that the library lacks    *)
(*   chip    the chip, one of Chips     ml   libascend_ml.so is loaded     *)
(*   health  the status code            codes   the error codes            *)
(*   master  the id of its master, or NoMaster                             *)
(* The value that a query returns is modelled by the name of the query: no *)
(* command computes with it.                                               *)
(***************************************************************************)
EXTENDS Integers, FiniteSets, SequencesExt

CONSTANTS
  Chips,           \* the chips a handler supports, and others
  HandlerOf,       \* from the supported chips to "base", "950", "91093"
  StlChips,        \* 950 and 960DT
  ConfigTable      \* from options to the chips that may read and restore them

NotSupport == "NOT_SUPPORT"
Unknown == "Unknown"
NoMaster == -1
MaxErrorCodes == 128

(***************************************************************************)
(* common/device.py: a getter gives the value, or NOT_SUPPORT.             *)
(***************************************************************************)
Get(a, query) == IF query \in a.fails THEN NotSupport ELSE query
GetMl(a, query) == IF ~a.ml THEN NotSupport ELSE Get(a, query)
GetChipInfo(a) == IF "chip" \in a.fails THEN Unknown ELSE a.chip

\* get_device_aicpu_count ... get_device_utilization_rate: one scalar each.
GetScalar(a, query) == Get(a, query)
\* get_device_cpu_info, aic_info, bus_info, hbm_volt_freq: all fields or none.
GetFields(a, query, fields) ==
  [f \in fields |-> IF GetMl(a, query) = NotSupport THEN NotSupport ELSE f]
GetMemory(a, query, fields) ==
  [f \in fields |-> IF Get(a, query) = NotSupport THEN NotSupport ELSE f]

GetDeviceHealth(a) ==
  IF "health" \in a.fails THEN Unknown
  ELSE CASE a.health = 0 -> "Healthy" [] a.health = 1 -> "Warning"
         [] a.health = 2 -> "Alarm" [] a.health = 3 -> "Critical"
         [] OTHER -> Unknown

\* The text of a code that cannot be queried is NA.
GetDeviceErrorcode(a) ==
  IF "errorcode" \in a.fails THEN <<>>
  ELSE [i \in 1..(IF Len(a.codes) < MaxErrorCodes THEN Len(a.codes) ELSE MaxErrorCodes) |->
          [code |-> a.codes[i], text |-> IF "errorstring" \in a.fails THEN "NA" ELSE "text"]]

\* get_device_info_loop: the first device that answers.
GetDeviceInfoLoop(ans, n, F(_), err) ==
  LET got == SelectSeq([i \in 1..n |-> F(ans[i - 1])], LAMBDA r : r # err)
  IN IF got = <<>> THEN err ELSE Head(got)

(***************************************************************************)
(* common/ascend950: two components, each with values of its own; the      *)
(* other handlers read the device as it is.                                *)
(***************************************************************************)
Is950(a) == GetChipInfo(a) \in DOMAIN HandlerOf /\ HandlerOf[GetChipInfo(a)] = "950"
Pair(a, v) == IF Is950(a) THEN <<v, v>> ELSE v
Unsupported(a) == IF Is950(a) THEN {NotSupport, <<NotSupport, NotSupport>>} ELSE {NotSupport}

AicInfo(a) ==
  LET r == GetFields(a, "aic", {"count", "volt", "freq"})
  IN [count |-> r.count, volt |-> Pair(a, r.volt), freq |-> Pair(a, r.freq)]
BusInfo(a) ==
  LET r == GetFields(a, "bus", {"volt", "ring", "cpu", "mata", "l2"})
  IN [volt |-> Pair(a, r.volt), ring |-> Pair(a, r.ring), cpu |-> r.cpu,
      mata |-> Pair(a, r.mata), l2 |-> Pair(a, r.l2)]
HbmInfo(a) ==
  IF Is950(a) THEN GetMemory(a, "device_memory", {"total", "used", "bandwidth"})
  ELSE GetMemory(a, "hbm", {"total", "used", "bandwidth"})
Temperature(a) == Get(a, IF Is950(a) THEN "soc_temperature" ELSE "temperature")

(***************************************************************************)
(* info/asys_info.py: the tables.  A row is shown when its value is there  *)
(* and the configuration lets the chip read the option.                    *)
(***************************************************************************)
CheckSupportReadOption(chip, option) ==
  \/ option \notin DOMAIN ConfigTable
  \/ chip = Unknown
  \/ "none" \notin ConfigTable[option].get /\ {"all", chip} \cap ConfigTable[option].get # {}

Row(a, value, option) ==
  IF value # NotSupport /\ CheckSupportReadOption(GetChipInfo(a), option)
  THEN << <<option, value>> >> ELSE <<>>

CpuRows(a) ==
  LET cpu == GetFields(a, "cpu", {"aicpu", "ccpu", "volt", "freq"})
      own == NotSupport \notin {cpu[f] : f \in DOMAIN cpu}
  IN Row(a, IF own THEN cpu.aicpu ELSE GetScalar(a, "aicpu_count"), "acpu_cnt")
     \o Row(a, GetScalar(a, "aicpu_use"), "acpu_usage")
     \o Row(a, IF own THEN cpu.ccpu ELSE GetScalar(a, "ccpu_count"), "ccpu_cnt")
     \o Row(a, GetScalar(a, "ccpu_use"), "ccpu_usage")
     \o Row(a, IF own THEN cpu.freq ELSE GetScalar(a, "ccpu_freq"), "ccpu_frequency")
     \o Row(a, IF own THEN cpu.volt ELSE NotSupport, "ccpu_voltage")

AicRows(a) ==
  LET aic == AicInfo(a)
      own == Unsupported(a) \cap {aic.count, aic.volt, aic.freq} = {}
  IN Row(a, IF own THEN aic.count ELSE GetScalar(a, "aicore_count"), "aic_cnt")
     \o Row(a, GetScalar(a, "aicore_use"), "aic_usage")
     \o Row(a, IF own THEN aic.freq ELSE GetScalar(a, "aicore_freq"), "aic_frequency")
     \o Row(a, IF own THEN aic.volt ELSE GetScalar(a, "voltage"), "aic_voltage")

BusRows(a) ==
  LET bus == BusInfo(a)
  IN Row(a, bus.volt, "bus_voltage") \o Row(a, bus.ring, "ring_frequency")
     \o Row(a, bus.cpu, "cpu_frequency") \o Row(a, bus.mata, "mata_frequency")
     \o Row(a, bus.l2, "l2buffer_frequency")

MemoryRows(a) ==
  LET ddr == GetMemory(a, "memory", {"total", "used"})
      hbm == HbmInfo(a)
      vf == GetFields(a, "hbm_volt_freq", {"volt", "freq"})
      ddrRows == Row(a, ddr.total, "ddr_total") \o Row(a, ddr.used, "ddr_used")
                 \o Row(a, GetScalar(a, "ddr_bandwidth"), "ddr_bandwidth")
                 \o Row(a, GetScalar(a, "ddr_freq"), "ddr_frequency")
      hbmRows == Row(a, hbm.total, "hbm_total") \o Row(a, hbm.used, "hbm_used")
                 \o Row(a, hbm.bandwidth, "hbm_bandwidth_use")
                 \o Row(a, IF vf.freq = NotSupport THEN GetScalar(a, "hbm_freq") ELSE vf.freq,
                        "hbm_frequency")
                 \o Row(a, vf.volt, "hbm_voltage")
  IN (IF ddr.total = NotSupport THEN <<>> ELSE ddrRows)
     \o (IF hbm.total = NotSupport THEN <<>> ELSE hbmRows)

\* get_status_info: a section without rows is left out.
StatusInfo(a) ==
  LET public == Row(a, GetChipInfo(a), "chip_name") \o Row(a, GetScalar(a, "power"), "power")
                \o Row(a, Temperature(a), "temperature") \o Row(a, GetDeviceHealth(a), "health")
  IN SelectSeq(<<public, CpuRows(a), AicRows(a), BusRows(a), MemoryRows(a)>>,
               LAMBDA rows : rows # <<>>)

\* A count over all devices, unless one of them cannot tell.
DeviceCountSummary(ans, n, query) ==
  IF n = 0 THEN "0 (no devices)"
  ELSE IF \E d \in 0..(n - 1) : query \in ans[d].fails THEN NotSupport
  ELSE <<query, n>>

HardwareInfo(ans, n, pcie) ==
  [chip |-> GetDeviceInfoLoop(ans, n, GetChipInfo, Unknown),
   arch |-> GetDeviceInfoLoop(ans, n, LAMBDA a : GetScalar(a, "npu_arch"), NotSupport),
   counts |-> [q \in {"ccpu_count", "aicpu_count", "aicore_count", "veccore_count"} |->
                 DeviceCountSummary(ans, n, q)],
   pcie |-> IF pcie.count = 0 THEN <<>>
            ELSE <<pcie.count, pcie.count - pcie.abnormal, pcie.abnormal>>]

\* The rows of the dependency file that can be used and give an answer.
SoftwareInfo(rows, versions) ==
  [deps |-> SelectSeq(rows, LAMBDA r : Len(r) > 1 /\ r[1] \notin {"", "#"} /\ versions[r[2]] # "NONE")]

(***************************************************************************)
(* health/asys_health.py                                                   *)
(***************************************************************************)
RunHealthCheck(ans, devices) ==
  [d \in devices |-> [status |-> GetDeviceHealth(ans[d]), codes |-> GetDeviceErrorcode(ans[d])]]

HighestStatus(ret) ==
  LET seen == {ret[d].status : d \in DOMAIN ret}
      worst == SelectSeq(<<Unknown, "Critical", "Alarm", "Warning", "Healthy">>,
                         LAMBDA s : s \in seen)
  IN IF worst = <<>> THEN Unknown ELSE Head(worst)

\* On the screen all devices show their status, one device its first codes.
HealthScreen(ret, one) ==
  IF ~one THEN [overall |-> HighestStatus(ret), rows |-> DOMAIN ret]
  ELSE LET d == CHOOSE x \in DOMAIN ret : TRUE
       IN [overall |-> ret[d].status,
           rows |-> IF Len(ret[d].codes) > 5 THEN 1..6 ELSE DOMAIN ret[d].codes]

(***************************************************************************)
(* config_cmd: get shows the voltages that are there and may be read; a    *)
(* restore needs a chip that allows one of them.                           *)
(***************************************************************************)
MayUse(a, option, operate) ==
  {"all", GetChipInfo(a)} \cap ConfigTable[option][operate] # {}

GetStressDetectConfig(a) ==
  \/ AicInfo(a).volt \notin Unsupported(a) /\ MayUse(a, "aic_voltage", "get")
  \/ BusInfo(a).volt \notin Unsupported(a) /\ MayUse(a, "bus_voltage", "get")

RestoreStressDetectConfig(a) ==
  /\ MayUse(a, "aic_voltage", "restore") \/ MayUse(a, "bus_voltage", "restore")
  /\ GetMl(a, "restore") # NotSupport

(***************************************************************************)
(* The host: [virt, root, ops, stl] - systemd-detect-virt says it is no    *)
(* virtual machine, the user is root, the operator packages and the        *)
(* library for STL are there.                                              *)
(***************************************************************************)
ConfigSupported(host, ans, n, opts) ==
  /\ host.virt = "none" /\ host.root
  /\ n > 0 /\ opts.d < n
  /\ GetChipInfo(ans[opts.d]) \in DOMAIN HandlerOf
  /\ opts.get \/ opts.restore
  /\ opts.stress_detect

RunConfig(ans, opts) ==
  IF opts.get THEN GetStressDetectConfig(ans[opts.d])
  ELSE RestoreStressDetectConfig(ans[opts.d])

(***************************************************************************)
(* profiling/asys_profiling.py: the switches that are given to msprof.     *)
(***************************************************************************)
ProfilingModes == {"aicore", "dvpp", "os", "link", "memory", "power"}
MaxPeriod == 2592000

ProfilingSupported(a, opts) ==
  /\ opts.p \in 1..MaxPeriod
  /\ GetChipInfo(a) \in DOMAIN HandlerOf
  /\ opts.r # {} /\ opts.r \subseteq ProfilingModes

\* power takes the mode of the chip: its own switch on a 950, AI Core else.
LpMode(a, opts) ==
  IF Is950(a) THEN "lp" ELSE IF "aicore" \in opts.r THEN "no" ELSE "aic"
ProfilingSwitches(a, opts) ==
  UNION {CASE m = "dvpp" -> {"dvpp-profiling"}
           [] m = "link" -> {"sys-interconnection-profiling", "sys-io-profiling"}
           [] m = "memory" -> {"sys-hardware-mem", "llc-profiling"}
           [] m = "os" -> {"sys-profiling"}
           [] m = "aicore" -> {"ai-core", "aic-mode", "aic-metrics"}
           [] m = "power" -> CASE LpMode(a, opts) = "aic" -> {"ai-core"}
                               [] LpMode(a, opts) = "lp" -> {"sys-lp"}
                               [] OTHER -> {}
         : m \in opts.r}

(***************************************************************************)
(* diagnose/asys_diagnose.py, before the detection starts.                 *)
(***************************************************************************)
DetectModes == {"stress_detect", "hbm_detect", "cpu_detect", "aicore_stl_detect"}
MaxDetect == 604800

Supported(ans, devices) == {d \in devices : GetChipInfo(ans[d]) \in DOMAIN HandlerOf}
DiagnoseDevices(ans, asked, mode) ==
  IF mode = "aicore_stl_detect"
  THEN {d \in Supported(ans, asked) : GetChipInfo(ans[d]) \in StlChips}
  ELSE Supported(ans, asked)

TimeoutInRange(opts) ==
  "timeout" \in DOMAIN opts =>
    CASE opts.r = "hbm_detect" -> opts.timeout \in 0..MaxDetect
      [] opts.r = "cpu_detect" -> opts.timeout \in 1..MaxDetect
      [] OTHER -> TRUE

CheckSupport(host, n, opts) ==
  /\ host.virt = "none" /\ host.root
  /\ opts.r = "stress_detect" => host.ops
  /\ TimeoutInRange(opts)
  /\ n > 0

LibraryLoaded(host, ans, opts) ==
  IF opts.r = "aicore_stl_detect" THEN host.stl ELSE \A d \in DOMAIN ans : ans[d].ml

(***************************************************************************)
(* The detections.  run_stress_detect, run_hbm, run_cpu, run_aicore_stl:   *)
(* what a return code means; any exception counts as no code.              *)
(***************************************************************************)
CpuErrors == 500000..599999
Verdict(mode, code) ==
  CASE code = 0 -> "PASS"
    [] code # 0 /\ mode = "cpu_detect" /\ code \in CpuErrors -> "FAIL"
    [] OTHER -> "WARN"

\* 910_93: of the devices with one master only the first is detected.
MasterOf(a, alone) ==
  IF alone THEN 0
  ELSE IF {"phyid", "masterid"} \cap a.fails # {} THEN NoMaster ELSE a.master
DetectedBy_Unresolved(ans, devices, mode, d) ==
  LET peers == {e \in devices : MasterOf(ans[e], FALSE) = MasterOf(ans[d], FALSE)}
  IN IF HandlerOf[GetChipInfo(ans[d])] # "91093" \/ mode \notin {"hbm_detect", "cpu_detect"}
     THEN d ELSE CHOOSE e \in peers : \A x \in peers : e <= x
DetectedBy(ans, devices, mode, d) ==
  LET alone == Cardinality(devices) = 1
      peers == {e \in devices : MasterOf(ans[e], alone) = MasterOf(ans[d], alone)}
  IN IF \/ HandlerOf[GetChipInfo(ans[d])] # "91093"
        \/ mode \notin {"hbm_detect", "cpu_detect"}
        \/ MasterOf(ans[d], alone) = NoMaster
     THEN d
     ELSE CHOOSE e \in peers : \A x \in peers : e <= x

\* get_supported handlers: the devices of one handler type form a group.
Groups(ans, devices) ==
  {{d \in devices : HandlerOf[GetChipInfo(ans[d])] = h} :
     h \in {HandlerOf[GetChipInfo(ans[d])] : d \in devices}}
==============================================================================
