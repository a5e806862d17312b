------------------------------ MODULE AsysLogs ------------------------------
(***************************************************************************)
(* The logs that "asys collect" and "asys launch" gather (collect/log):    *)
(* every operator takes the tree t and the context c of the run and        *)
(* returns [t, ok, raised].  The context has                               *)
(*   cmd    "collect" or "launch"     out    the output directory          *)
(*   env    the environment           pid    the launched task, or NoPath  *)
(*   ini    the asys.ini items set    taskdir  the --task_dir argument     *)
(* The content of a log is a record that says what the parsers find in it, *)
(* so that no text is modelled.                                            *)
(***************************************************************************)
EXTENDS AsysFiles

CONSTANTS
  FirmwareDir,   \* the names of the form device-<id>
  AppDir,        \* device-app-<pid>: a function from such names to pids
  EventDir       \* names that start with "event"

At(c, p) == c.out \o p
Launched(c) == c.cmd = "launch"

(***************************************************************************)
(* collect/log/device_log_collect.py                                       *)
(***************************************************************************)
FeatureMatch(feature, n) ==
  CASE feature = "device-app" -> n \in DOMAIN AppDir
    [] feature = "device-os" -> n = "device-os"
    [] feature = "device-" -> n \in FirmwareDir
    [] feature = "event" -> n \in EventDir

DeviceTarget(feature) ==
  CASE feature = "device-app" -> "application"
    [] feature = "device-" -> "firmware"
    [] OTHER -> "system"

\* One pass over slog/<dev-os>/<type>; NoType is the empty type of old exports.
CollectDevice(t, c, root, types, feature) ==
  LET slog == Append(root, "slog")
      From(dev, type) == slog \o <<dev>> \o (IF type = "" THEN <<>> ELSE <<type>>)
      To(dev, type) == At(c, <<"dfx", "log", "device", dev, DeviceTarget(feature),
                               IF type = "" THEN "debug" ELSE type>>)
      OneType(acc, dev, type) ==
        FoldLeft(LAMBDA a, n : AndThen(a, LAMBDA u : MoveDir(u, Append(From(dev, type), n),
                                                            Append(To(dev, type), n))),
                 acc, SelectSeq(ListDir(acc.t, From(dev, type)),
                                LAMBDA n : FeatureMatch(feature, n)))
      OneDevice(acc, dev) ==
        FoldLeft(LAMBDA a, type : OneType(a, dev, type), acc, types)
  IN IF ListDir(t, slog) = <<>> THEN Failed(t)
     ELSE FoldLeft(OneDevice, Done(t), ListDir(t, slog))

CollectDeviceApp_NoDebug(t, c, root) ==
  CollectDevice(t, c, root, <<"run", "security">>, "device-app")
CollectDeviceApp(t, c, root) ==
  CollectDevice(t, c, root, <<"debug", "run", "security">>, "device-app")
CollectDeviceOs(t, c, root) ==
  CollectDevice(t, c, root, <<"debug", "run", "security">>, "device-os")
CollectDeviceId(t, c, root) ==
  CollectDevice(t, c, root, <<"debug", "run", "security", "">>, "device-")
CollectEvent(t, c, root) == CollectDevice(t, c, root, <<"run">>, "event")

CollectDeviceMessages(t, c, root) ==
  LET dir == Append(root, "message") IN
  IF ListDir(t, dir) = <<>> THEN Failed(t)
  ELSE FoldLeft(LAMBDA acc, dev :
                  AndThen(acc, LAMBDA u : MoveDir(u, Append(dir, dev),
                    At(c, <<"dfx", "log", "device", dev, "system", "message">>))),
                Done(t), ListDir(t, dir))

CollectDeviceStackcore(t, c, root) ==
  MoveDir(t, Append(root, "stackcore"), At(c, <<"dfx", "stackcore">>))
CollectDeviceBbox(t, c, root) ==
  MoveDir(t, Append(root, "hisi_logs"), At(c, <<"dfx", "bbox">>))

\* The directory of the driver logs goes, moved or not.
CollectHostDriver(t, c, root) ==
  LET dir == root \o <<"slog", "host">>
      moved == FoldLeft(LAMBDA acc, n :
                 AndThen(acc, LAMBDA u : MoveFileToDir(u, Append(dir, n),
                                           At(c, <<"dfx", "log", "host", "driver">>))),
                 Done(t), ListDir(t, dir))
  IN IF ListDir(t, dir) = <<>> THEN Failed(t)
     ELSE IF moved.raised THEN moved
     ELSE [moved EXCEPT !.t = RemoveDir(@, dir).t]

CollectSlogd(t, c, root) ==
  LET slog == Append(root, "slog")
      One(acc, dev) ==
        IF CheckDir(acc.t, slog \o <<dev, "slogd">>)
        THEN AndThen(acc, LAMBDA u : MoveDir(u, slog \o <<dev, "slogd">>,
                            At(c, <<"dfx", "log", "device", dev, "slogd">>)))
        ELSE acc
  IN IF ListDir(t, slog) = <<>> THEN Failed(t)
     ELSE FoldLeft(One, Done(t), ListDir(t, slog))

(***************************************************************************)
(* A run of collections in order, the names of those that failed collected *)
(* as the warnings the user sees: [t, raised, warned].                     *)
(***************************************************************************)
Warned(st, name, Op(_)) ==
  IF st.raised THEN st
  ELSE LET r == Op(st.t) IN
       [t |-> r.t, raised |-> r.raised,
        warned |-> IF r.ok THEN st.warned ELSE st.warned \cup {name}]

CollectDeviceLogs(st, c, root) ==
  LET s1 == Warned(st, "device messages", LAMBDA u : CollectDeviceMessages(u, c, root))
      s2 == Warned(s1, "device stackcore", LAMBDA u : CollectDeviceStackcore(u, c, root))
      s3 == Warned(s2, "device bbox", LAMBDA u : CollectDeviceBbox(u, c, root))
      s4 == Warned(s3, "host driver", LAMBDA u : CollectHostDriver(u, c, root))
      s5 == Warned(s4, "slogd", LAMBDA u : CollectSlogd(u, c, root))
      s6 == Warned(s5, "device_app", LAMBDA u : CollectDeviceApp(u, c, root))
      s7 == Warned(s6, "device_os", LAMBDA u : CollectDeviceOs(u, c, root))
      s8 == Warned(s7, "device_id", LAMBDA u : CollectDeviceId(u, c, root))
  IN Warned(s8, "event", LAMBDA u : CollectEvent(u, c, root))

(***************************************************************************)
(* collect/log/host_log_collect.py                                         *)
(***************************************************************************)
VarLog == <<"var", "log">>
SyslogFile(t) ==
  Append(VarLog, IF CheckFile(t, Append(VarLog, "syslog")) THEN "syslog" ELSE "messages")
InstallLog == VarLog \o <<"ascend_seclog", "ascend_install.log">>

CollectAtraceLogs(t, c) ==
  LET p == CannLogPath(t, c.env, "atrace") IN
  IF CheckDir(t, p) THEN CopyDir(t, p, At(c, <<"dfx", "atrace">>)) ELSE Failed(t)

CollectCannLogs_Moved(t, c) ==
  FoldLeft(LAMBDA acc, type : AlsoThen(acc, LAMBDA u :
             MoveDir(u, Append(CannLogPath(t, c.env, "log"), type),
                     At(c, <<"dfx", "log", "host", "cann", type>>))),
           Done(t), <<"debug", "run", "security">>)
CollectCannLogs(t, c) ==
  LET from == CannLogPath(t, c.env, "log")
      One(acc, type) ==
        IF Append(from, type) \notin Nodes(acc.t) THEN acc
        ELSE AlsoThen(acc, LAMBDA u : CollectDir(u, Append(from, type),
                             At(c, <<"dfx", "log", "host", "cann", type>>),
                             IF Launched(c) THEN "m" ELSE "c"))
  IN FoldLeft(One, Done(t), <<"debug", "run", "security">>)

CollectHostLogs(st, c) ==
  LET s1 == Warned(st, "host messages", LAMBDA u :
              CopyFileToDir(u, SyslogFile(u), At(c, <<"dfx", "log", "host", "message">>)))
      s2 == Warned(s1, "cann", LAMBDA u : CollectCannLogs(u, c))
      s3 == Warned(s2, "atrace", LAMBDA u : CollectAtraceLogs(u, c))
  IN Warned(s3, "install", LAMBDA u :
       CopyFileToDir(u, InstallLog, At(c, <<"dfx", "log", "host", "install">>)))

(***************************************************************************)
(* collect/log/rc_log_collect.py: asys runs on the device itself           *)
(***************************************************************************)
CoredumpDir == VarLog \o <<"npu", "coredump">>

\* A launch takes the core files of its task only, by the pid in their names.
CollectRcStackcore(t, c) ==
  LET ofTask(p) == Launched(c) => t.file[p].pid = c.pid
  IN IF ListDir(t, CoredumpDir) = <<>> THEN Failed(t)
     ELSE FoldLeft(LAMBDA acc, p : AndThen(acc, LAMBDA u : CopyFileToDir(u, p,
                     Rebase(Front(p), CoredumpDir, At(c, <<"dfx", "stackcore">>)))),
                   Done(t), SelectSeq(WalkFiles(t, CoredumpDir), ofTask))

CollectRcDeviceOs(t, c, slog) ==
  LET types == <<"debug", "run", "security">>
      isApp(n) == n \in DOMAIN AppDir /\ (c.pid # NoPath => AppDir[n] = c.pid)
      One(acc, type, n) ==
        LET to == IF n = "device-os" THEN <<"dfx", "log", "system", type, n>>
                                     ELSE <<"dfx", "log", "cann", type, n>>
        IN AndThen(acc, LAMBDA u : CopyDir(u, slog \o <<type, n>>, At(c, to)))
      \* the first empty type ends the function with False
      OneType(acc, type) ==
        IF acc.stop \/ acc.r.raised THEN acc
        ELSE IF ListDir(acc.r.t, Append(slog, type)) = <<>>
             THEN [r |-> Failed(acc.r.t), stop |-> TRUE]
             ELSE [acc EXCEPT !.r =
                    FoldLeft(LAMBDA a, n : One(a, type, n), @,
                      SelectSeq(ListDir(acc.r.t, Append(slog, type)),
                                LAMBDA n : n = "device-os" \/ isApp(n)))]
  IN FoldLeft(OneType, [r |-> Done(t), stop |-> FALSE], types).r

CollectRcDeviceId(t, c, slog) ==
  IF ListDir(t, slog) = <<>> THEN Failed(t)
  ELSE FoldLeft(LAMBDA acc, n : AndThen(acc, LAMBDA u : CopyDir(u, Append(slog, n),
                  At(c, <<"dfx", "log", "firmware", n>>))),
                Done(t), SelectSeq(ListDir(t, slog), LAMBDA n : n \in FirmwareDir))

NpuConf == VarLog \o <<"npu", "conf">>
SlogConfs == << <<"etc", "slog.conf">>, Append(NpuConf, "slog.conf"),
                NpuConf \o <<"slog", "slog.conf">> >>
BboxConfs == << <<"var", "bbox.conf">>, <<"etc", "bbox.conf">>, Append(NpuConf, "bbox.conf"),
                NpuConf \o <<"bbox", "bbox.conf">> >>

CollectRcLogs(st, c) ==
  LET Slog(u) == LogConfPath(u, SlogConfs, VarLog \o <<"npu", "slog">>)
      Bbox(u) == LogConfPath(u, BboxConfs, VarLog \o <<"npu", "hisi_logs">>)
      s1 == Warned(st, "messages", LAMBDA u :
              CopyFileToDir(u, SyslogFile(u), At(c, <<"dfx", "log", "message">>)))
      s2 == Warned(s1, "install", LAMBDA u :
              CopyFileToDir(u, InstallLog, At(c, <<"dfx", "log", "install">>)))
      s3 == Warned(s2, "bbox", LAMBDA u : CopyDir(u, Bbox(u), At(c, <<"dfx", "bbox">>)))
      s4 == Warned(s3, "stackcore", LAMBDA u : CollectRcStackcore(u, c))
      s5 == Warned(s4, "device_os", LAMBDA u : CollectRcDeviceOs(u, c, Slog(u)))
  IN Warned(s5, "device_id", LAMBDA u : CollectRcDeviceId(u, c, Slog(u)))
==============================================================================
