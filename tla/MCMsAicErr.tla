----------------------------- MODULE MCMsAicErr -----------------------------
(* The runs of msaicerr that TLC explores: one usual failure of an operator,   *)
(* and every way the logs, the dumps, the files and the devices differ from it.*)
EXTENDS MsAicErr

CONSTANT NoneC

(* Names. D1 and D2 are the dumps of two tasks, "add" is the kernel. *)
Plain(id, has) == [id |-> id, ids |-> {id}, has |-> has \cup {NoneC}, long |-> FALSE,
                   dotted |-> TRUE, custom |-> FALSE]
MCNameOf ==
  "D1" :> Plain(<<3, 7>>, {"D1", "node"}) @@ "D2" :> Plain(<<3, 8>>, {"D2"})
  @@ "D1.custom.0" :> [Plain(<<3, 7>>, {"D1"}) EXCEPT !.custom = TRUE]
  @@ "mine.custom.1" :> [Plain(<<>>, {}) EXCEPT !.custom = TRUE]
  @@ "long" :> [Plain(<<3, 7>>, {"long"}) EXCEPT !.long = TRUE]
  @@ "long.custom.0" :> [Plain(<<3, 7>>, {"long"}) EXCEPT !.long = TRUE, !.custom = TRUE]
  @@ "123" :> [Plain(<<>>, {"123"}) EXCEPT !.dotted = FALSE]
  @@ "456" :> [Plain(<<>>, {"456"}) EXCEPT !.dotted = FALSE]
MCStemOf == "add" :> "add" @@ "add_mix_aic" :> "add" @@ "sub" :> "sub" @@ "super" :> "super" @@ "clear" :> "clear"
MCWordsOf == "0x10" :> <<{"MTE"}>> @@ "0x20" :> <<{}, {"VEC"}>> @@ "0x800000" :> <<{"CUBE"}>>
             @@ "0x0" :> <<{}>> @@ "329" :> <<{"CUBE"}>> @@ "0x40" :> <<{"CCU"}>>
MCDecimalOf == [c \in DOMAIN MCWordsOf |-> c = "329"]
MCNativeType == {"float16", "int8"}
MCScalarCode == {"0x20"}
MCShellCode == {"0x0"}
Json(tiling, dynamic, params) ==
  [workspaces |-> <<1>>, params |-> params, tiling |-> tiling, dynamic |-> dynamic, io |-> <<1, 2>>,
   types |-> <<"input", 0>> :> "float16"]
MCJsonOf == "golden" :> Json(FALSE, FALSE, FALSE) @@ "add" :> Json(TRUE, TRUE, FALSE)
            @@ "sub" :> Json(FALSE, FALSE, TRUE) @@ "clear" :> Json(TRUE, TRUE, TRUE)
            @@ "bare" :> [Json(TRUE, FALSE, FALSE) EXCEPT !.io = <<>>]
MCChipOfCce == [n \in {"add", "sub", "clear", "bare"} |-> "910B"]
MCDescribed == {"0x10", "0x20"}

(* Lines of the logs. *)
P(a, b, c, d) == <<a, b, c, d>>
Cur == P(0, 5, 5, 5)
Start == P(0, 1, 0, 0)
DumpLine(by, t, tid, dev, name) == [k |-> "dump", by |-> by, t |-> t, tid |-> tid, dev |-> dev, name |-> name]
Regs(t, tid, core, ctype, code, extra) ==
  [k |-> "regs", t |-> t, tid |-> tid, dev |-> 0, core |-> core, ctype |-> ctype, code |-> code,
   cur |-> Cur, start |-> Start, sstart |-> Start, ost |-> FALSE, extra |-> extra,
   badpc |-> FALSE, chip |-> None]
Fail(id, kernel, ext) == [k |-> "fail", id |-> id, kernel |-> kernel, ext |-> ext, hash |-> 5]
Tiling(dim) == [k |-> "tiling", key |-> "11", dim |-> dim]
Load(what, i) == [k |-> "load", what |-> what, index |-> i]
Vals(k, v) == [k |-> k, vals |-> v]
Base(v) == [k |-> "base", value |-> v]
Block(pointer, key, addrs) == [k |-> "block", pointer |-> pointer, key |-> key, addrs |-> addrs]
Mark(k) == [k |-> k]
Custom(t, dev, name) == [k |-> "custom", t |-> t, dev |-> dev, name |-> name]
Fixed(core, ctype, p) == [k |-> "fixed", core |-> core, ctype |-> ctype, start |-> Start, cur |-> p]
AdRegs(core, ctype, words, regs) ==
  [k |-> "adregs", core |-> core, ctype |-> ctype, words |-> words, regs |-> regs]
Conc(tid, both) == [k |-> "conc", tid |-> tid, first |-> <<3, 7>>, second |-> <<3, 8>>, both |-> both]

(* Dumps and compiled files. *)
Item(kind, i, arg, nan) ==
  [kind |-> kind, index |-> i, arg |-> arg, dtype |-> "float16", nan |-> nan, size |-> i + 1]
Items == <<Item("input", 0, 0, FALSE), Item("output", 0, 1, FALSE), Item("output", 1, 2, FALSE),
           Item("space", 0, 3, FALSE)>>
Body == [items |-> Items, tiling |-> <<1>>, dfx |-> [addr |-> FALSE, ffts |-> 0], ok |-> "yes"]
DumpFile(dev, name, body) == [dev |-> dev, name |-> name, copy |-> 0, body |-> body]
Kernel(name, kind) == [name |-> name, kind |-> kind, key |-> "11", of |-> {name}, bin |-> name]
Kernels(name) == <<Kernel(name, "o"), Kernel(name, "json"), Kernel(name, "cce")>>

LinesOf(id) == <<DumpLine("adump", 1, 1, 0, "D1"), Regs(2, 1, "3", "aic", "0x10", <<>>),
                 Fail(id, "add_mix_aic", "none"), Tiling(8), Vals("before", <<1000, 1008>>),
                 Vals("after", <<1000, 1008>>)>>
Usual ==
  [inv |-> [opp |-> TRUE, argv |-> 2, opts |-> {"p"}, cwdWritable |-> TRUE],
   device |-> 0, devices |-> 2, nested |-> FALSE, outValid |-> TRUE, reportValid |-> TRUE,
   data |-> [kind |-> "dump", dtype |-> NoneC, readable |-> TRUE, valid |-> TRUE],
   w |-> [logs |-> <<[name |-> "a.log", lines |-> LinesOf(<<3, 7>>)]>>,
          dumps |-> <<DumpFile(0, "D1", Body)>>, maps |-> <<>>,
          beside |-> [d \in 0..1 |-> "same"], kernels |-> Kernels("add"), graphs |-> {}],
   tools |-> [objdump |-> TRUE, runtime |-> "ok", cores |-> 20, symbols |-> TRUE, decompiles |-> TRUE,
              lines |-> <<[cce |-> 4, hit |-> FALSE], [cce |-> 0, hit |-> TRUE], [cce |-> 9, hit |-> FALSE]>>,
              pipes |-> {4}, locjson |-> TRUE, envRaises |-> FALSE, writable |-> TRUE],
   dev |-> <<>>]
Works ==
  [full |-> FALSE, unreadable |-> FALSE, symbol |-> TRUE, launch |-> [tail |-> 0, magic |-> 0],
   sync |-> [tail |-> 0, magic |-> 0], overrun |-> FALSE, compile |-> "ok", tbe |-> TRUE,
   soc |-> "950", starts |-> TRUE, aicore |-> FALSE]
Tests == {"host_single_op", "single_op", "error_single_op", "golden"}
On(d) == [t \in Tests |-> d]
Base0 == [Usual EXCEPT !.dev = On(Works)]
Logs(ls) == [Base0 EXCEPT !.w.logs = <<[name |-> "a.log", lines |-> ls]>>]
More(ls) == Logs(LinesOf(<<3, 7>>) \o ls)

Options ==
  {[Base0 EXCEPT !.inv.opp = FALSE], [Base0 EXCEPT !.inv.argv = 0, !.inv.opts = {}],
   [Base0 EXCEPT !.inv.opts = {"o"}], [Base0 EXCEPT !.inv.opts = {"p", "dtype"}],
   [Base0 EXCEPT !.inv.cwdWritable = FALSE], [Base0 EXCEPT !.inv.opts = {"unknown"}],
   [Base0 EXCEPT !.device = 2], [Base0 EXCEPT !.nested = TRUE], [Base0 EXCEPT !.outValid = FALSE],
   [Base0 EXCEPT !.reportValid = FALSE], [Base0 EXCEPT !.tools.objdump = FALSE],
   [Base0 EXCEPT !.tools.runtime = "no_path"], [Base0 EXCEPT !.tools.runtime = "fails"],
   [Base0 EXCEPT !.tools.writable = FALSE], [Base0 EXCEPT !.tools.envRaises = TRUE],
   [Base0 EXCEPT !.tools.symbols = FALSE, !.tools.cores = 2]}
Converts ==
  {[Base0 EXCEPT !.inv.opts = {"d", "p"}, !.data = [kind |-> k, dtype |-> t, readable |-> r, valid |-> v]] :
     k \in {"npy", "bin", "dump"}, t \in {NoneC, "bad", "fp16"}, r \in BOOLEAN, v \in BOOLEAN}

Devices ==
  {Works, [Works EXCEPT !.full = TRUE], [Works EXCEPT !.unreadable = TRUE],
   [Works EXCEPT !.symbol = FALSE], [Works EXCEPT !.launch.magic = 1], [Works EXCEPT !.sync.tail = 1],
   [Works EXCEPT !.overrun = TRUE], [Works EXCEPT !.compile = "no_msopgen"],
   [Works EXCEPT !.compile = "locked"], [Works EXCEPT !.compile = "fails", !.soc = "910B"],
   [Works EXCEPT !.tbe = FALSE], [Works EXCEPT !.soc = NoneC], [Works EXCEPT !.soc = "350"],
   [Works EXCEPT !.starts = FALSE], [Works EXCEPT !.aicore = TRUE]}
Alone == {[Base0 EXCEPT !.inv.opts = {"e"}, !.dev = On(d)] : d \in Devices}
         \cup {[Base0 EXCEPT !.inv.opts = {"e", "dev"}, !.device = 5]}
HostFile == [Kernel("add", "host") EXCEPT !.name = "add"]
Reruns ==
  {[Base0 EXCEPT !.dev = [On(Works) EXCEPT ![t] = d],
                 !.w.kernels = Append(Kernels("add"), HostFile),
                 !.w.logs[1].lines[3].kernel = "add"] : d \in Devices, t \in Tests}

(* The dumps: empty, unreadable, of two devices, with custom dumps beside. *)
Dumps(ds) == [Base0 EXCEPT !.w.dumps = ds]
MyDump == [Body EXCEPT !.items = <<Item("input", 0, 0, TRUE)>>, !.tiling = NoneC,
                       !.dfx = [addr |-> TRUE, ffts |-> 2]]
WithCustom(s0, name) ==
  [s0 EXCEPT !.w.logs[1].lines = Append(@, Custom(3, 0, name)),
             !.w.dumps = @ \o <<DumpFile(0, name, MyDump), DumpFile(1, name, MyDump)>>]
LongName(s0, csv) ==
  [s0 EXCEPT !.w.logs[1].lines[1].name = "long", !.w.dumps = <<DumpFile(0, "123", Body)>>,
             !.w.maps = IF csv THEN 0 :> ("long" :> "123" @@ "long.custom.0" :> "456") ELSE <<>>]
DumpScenarios ==
  {Dumps(<<>>), Dumps(<<DumpFile(1, "D1", MyDump), DumpFile(0, "D1", Body)>>),
   Dumps(<<DumpFile(1, "D1", Body)>>), Dumps(<<DumpFile(0, "D1", MyDump)>>),
   Dumps(<<DumpFile(0, "D1", [Body EXCEPT !.ok = "no"])>>),
   Dumps(<<DumpFile(0, "D1", [Body EXCEPT !.ok = "half"])>>),
   Dumps(<<DumpFile(0, "D1", [Body EXCEPT !.items = <<>>])>>),
   Dumps(<<DumpFile(0, "D1", [Body EXCEPT !.dfx.ffts = 1, !.tiling = NoneC,
                                          !.items[1].dtype = "undefined", !.items[2].dtype = "fp8"])>>),
   [Base0 EXCEPT !.w.beside = [d \in 0..1 |-> "differ"]],
   WithCustom(Base0, "D1.custom.0"), WithCustom(Base0, "mine.custom.1"),
   [Base0 EXCEPT !.w.dumps = Append(@, DumpFile(0, "D1.custom.0", MyDump))],
   LongName(Base0, TRUE), LongName(Base0, FALSE),
   [WithCustom(LongName(Base0, TRUE), "long.custom.0")
      EXCEPT !.w.dumps = Append(@, DumpFile(0, "456", MyDump))]}
  \cup {More(<<Mark(k)>>) : k \in {"dumpfailed", "d2h", "addr", "dha"}}

(* The arguments: their types, pointers to tensors, tiling data. *)
Args(ls) == Logs(SubSeq(LinesOf(<<3, 7>>), 1, 4) \o ls)
NoTiling(s0) == [s0 EXCEPT !.w.dumps[1].body.tiling = NoneC]
ArgScenarios ==
  {Args(<<>>), Args(<<Vals("before", <<0>>)>>), Args(<<Vals("before", <<5>>)>>),
   Args(<<Vals("before", <<5>>), Vals("after", <<6, 5>>), Vals("after", <<6, 5>>), Vals("after", <<7>>)>>),
   More(<<Load("input", 0), Load("output", 1), Load("workspace", 1)>>),
   NoTiling(More(<<Load("normal", 0), Load("normal", 4), Load("tiling", 1), Base(1000)>>)),
   NoTiling(Args(<<Vals("after", <<16, 1000, 24, 7>>), Base(8), Block(FALSE, 0, <<16, 1000>>)>>)),
   NoTiling(Args(<<Vals("after", <<16, 24, 7>>), Base(0)>>)),
   Args(<<Vals("after", <<16, 8, 0, 7>>), Base(8), Block(TRUE, 16, <<16, 24>>), Block(TRUE, 16, <<5>>)>>),
   Args(<<Vals("after", <<16, 0, 0, 7>>), Base(0), Block(FALSE, 0, <<5>>), Block(TRUE, 8, <<16, 24>>)>>),
   Args(<<Vals("after", <<16, 0>>), Base(80), Block(TRUE, 8, <<16, 24>>)>>),
   Args(<<Vals("after", <<16, 0>>), Base(0), Block(TRUE, 88, <<16, 24>>)>>),
   Args(<<Vals("after", <<160, 0>>), Base(0), Block(TRUE, 0, <<16, 24>>)>>)}

(* The kernel and its files. *)
Files(ks) == [Base0 EXCEPT !.w.kernels = ks]
Mentions(k) == [k EXCEPT !.of = {"add"}]
KernelScenarios ==
  {Files(<<>>), Files(SubSeq(Kernels("add"), 1, 1)), Files(<<HostFile>>),
   Files(<<Mentions(Kernel("sub", "o")), Mentions(Kernel("sub", "json")), Mentions(Kernel("sub", "cce"))>>),
   Files(<<Mentions([Kernel("sub", "json") EXCEPT !.bin = "gone"]), Mentions(Kernel("bare", "json")),
           HostFile, Mentions([Kernel("sub", "cce") EXCEPT !.key = "9"])>>),
   Files(<<Kernel("add", "o"), Kernel("add", "json"), [Kernel("add", "cce") EXCEPT !.key = NoneC]>>),
   Logs(SubSeq(LinesOf(<<3, 7>>), 1, 2) \o <<Tiling(8)>>),
   Logs(LinesOf(<<9, 9>>)), Logs(SubSeq(LinesOf(<<3, 7>>), 1, 2)),
   More(<<[k |-> "sk", kernel |-> "super"]>>),
   [More(<<[k |-> "sk", kernel |-> "super"]>>) EXCEPT !.w.kernels = <<[HostFile EXCEPT !.name = "super", !.of = {"super"}]>>],
   [More(<<[k |-> "ffts", id |-> <<3, 7>>, kernel |-> "add", hash |-> 5, key |-> "11", dim |-> 8]>>)
      EXCEPT !.w.graphs = {[nr |-> 1, ops |-> {}], [nr |-> 2, ops |-> {<<"D1", "add">>}]}],
   [Logs(<<DumpLine("adump", 1, 1, 0, "D1"), Regs(2, 1, "3", "aic", "0x10", <<>>), Tiling(90),
           Fail(<<1, 1>>, "sub", "sub"), Fail(<<3, 7>>, "sub", "add")>>) EXCEPT !.tools.decompiles = FALSE]}

(* Level one, cleared memory. *)
LevelOne(ls) ==
  Logs(LinesOf(<<3, 7>>) \o <<[k |-> "devfunc", kernel |-> "add"], [k |-> "node", node |-> "node", id |-> <<3, 7>>]>> \o ls)
Clear(s0) == [s0 EXCEPT !.w.kernels = Kernels("clear"), !.w.logs[1].lines[3].kernel = "clear"]
LevelScenarios ==
  {LevelOne(<<>>), LevelOne(<<Mark("addr")>>), NoTiling(LevelOne(<<Vals("tilingdata", <<1>>), Load("normal", 1)>>)),
   [LevelOne(<<>>) EXCEPT !.w.logs[1].lines[1].by = "ge"],
   [Base0 EXCEPT !.w.logs[1].lines[1].by = "ge"],
   [LevelOne(<<>>) EXCEPT !.tools.lines = <<>>], [LevelOne(<<>>) EXCEPT !.tools.locjson = FALSE],
   [LevelOne(<<>>) EXCEPT !.w.logs[1].lines[3].k = "other"]}
  \cup {[x EXCEPT !.w.logs[1].lines[2].code = "0x800000"] :
          x \in {Base0, More(<<Mark("dha")>>), Clear(Base0), Clear(More(<<Mark("dha")>>)),
                 Clear(More(<<Mark("dha"), [k |-> "atomic", node |-> "D1"]>>))}}

(* The records: several cores, codes, threads and tasks. *)
Records(rs) == Logs(<<DumpLine("adump", 1, 1, 0, "D1")>> \o rs \o SubSeq(LinesOf(<<3, 7>>), 3, 6))
MteRegs == [MTE |-> P(0, 1, 9, 9)]
V200 == "SU_ERROR_T0_0" :> P(0, 0, 0, 0) @@ "SU_ERR_INFO_T0_0" :> P(0, 0, 7, 7)
Ost(r, second) == [r EXCEPT !.ost = TRUE, !.sstart = P(0, 2, 0, 0)]
RecordScenarios ==
  {Records(<<Regs(2, 1, "3", "aic", "0x10", MteRegs), Regs(3, 1, "3", "aiv", "0x20", <<>>),
             Regs(4, 1, "4", "aiv", "0x20", <<>>), Regs(1, 2, "9", "aic", "0x10", <<>>)>>),
   Records(<<Regs(2, 1, "3", "aic", "0x10", MteRegs), Regs(3, 1, "3", "aiv", "0x20", <<>>),
             Fixed("3", "aiv", P(0, 6, 6, 6)), Fixed("3", "aic", P(0, 7, 7, 7)),
             [k |-> "outersrc", group |-> 1, outer |-> "a.cpp:1"],
             [k |-> "cores", group |-> 1, cores |-> {<<"3", "aiv">>}]>>),
   Records(<<Regs(2, 1, "3", "aic", "0x10", <<>>), Regs(3, 1, "5", "aiv", "0x20", <<>>),
             Fixed("3", "aic", P(0, 7, 7, 7)), AdRegs("5", "aic", <<>>, V200),
             AdRegs("5", "aiv", <<{"VEC"}>>, "VEC_ERR_0" :> P(0, 0, 0, 8))>>),
   Records(<<Regs(2, 1, "3", "aic", "0x10", <<>>), Regs(3, 1, "5", "aiv", "0x20", <<>>),
             Fixed("3", "aic", P(0, 7, 7, 7))>>),
   Records(<<[Regs(2, 1, "3", "aic", "0x0", <<>>) EXCEPT !.chip = "950"],
             [k |-> "extcode", code |-> "0x20"], AdRegs("3", "aic", <<>>, V200)>>),
   Records(<<[Regs(2, 1, "3", "aic", "0x0", MteRegs) EXCEPT !.badpc = TRUE]>>),
   Records(<<Regs(2, 1, "3", "aic", "0x40", [CCU |-> P(0, 0, 9, 2)]), [k |-> "fixp", value |-> P(0, 0, 1, 1)]>>),
   Records(<<[Regs(2, 1, "3", "aic", "329", [CUBE |-> P(0, 0, 9, 2)]) EXCEPT !.cur = Zero, !.start = Zero]>>),
   Records(<<[Regs(2, 1, "3", "aic", "0x10", MteRegs) EXCEPT !.start = P(0, 5, 5, 6)]>>),
   Records(<<Regs(2, 2, "3", "aic", "0x10", <<>>)>>), Records(<<>>)}
  \cup {[Records(<<Ost(Regs(2, 1, "3", "aic", c, <<>>), TRUE), DumpLine("adump", 2, 1, 0, "D2")>> \o cs)
           EXCEPT !.w.dumps = Append(@, DumpFile(0, "D2", Body))] :
          c \in {"0x10", "0x20"},
          cs \in {<<>>, <<Conc(1, TRUE)>>, <<Conc(1, FALSE), Conc(1, TRUE)>>,
                  <<Conc(2, TRUE), [Conc(1, TRUE) EXCEPT !.first = <<3, 9>>]>>}}

MCScenario ==
  {Base0} \cup Options \cup Converts \cup Alone \cup Reruns \cup DumpScenarios \cup ArgScenarios
  \cup KernelScenarios \cup LevelScenarios \cup RecordScenarios
=============================================================================
