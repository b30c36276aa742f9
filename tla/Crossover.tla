------------------------------ MODULE Crossover -----------------------------
(***************************************************************************)
(* The three frozen-state crossovers (fp32_crossover, fp32_crossover_      *)
(* layer7, fp32_crossover_block0): capture.py prepares an isolated copy of *)
(* the crate, builds it and runs one test of it; export_gpu.py runs the    *)
(* GPU arm; compare.py decomposes the difference.  Each phase is a process *)
(* of its own, released by hand.                                           *)
(***************************************************************************)
EXTENDS Evidence

Live   == {"live", "inputs", "meta"}        \* what plan.json names: sources, pins, metadata
Copied == {"plan", "project", "zip"}        \* what preparation.json names
Built  == {"binary", "buildlog", "tests", "buildstart"}
Ran    == {"runstart", "runlog", "raw"}
Executed == Built \cup Ran \cup {"plan", "prep", "build"}   \* what execution.json names
CaptureFiles == Live \cup Copied \cup Built \cup Ran \cup
    {"dir", "tools", "prep", "build", "exec", "gpudir", "gputensors", "gpu", "analysis",
     "failed"}

(* validate_plan with its files: pinned and planned digests hold now. *)
ValidatePlan == Follow("plan", Live) \o Same

(* unchanged: the plan, the copied project, the archive and the live sources. *)
Unchanged == Same

(* The adapter is the forward's own text between two anchors; a missing     *)
(* anchor, or an observer that does not come out again, ends the phase.     *)
MakeAdapter7 == Gate
Prepare(unchanged, adapter) ==
    Try \o Fresh({"dir"}) \o Hash({"live", "meta"}) \o Pinned({"inputs"}) \o Same
    \o Create("dir") \o Place("project") \o Reads({"live"}) \o adapter \o Fill("project")
    \o Hash({"project"}) \o Matches({"live"})
    \o Create("zip") \o Reads({"live", "project"}) \o Fill("zip") \o WriteNew("plan") \o Hash({"plan", "zip"})
    \o unchanged \o WriteNew("prep") \o Tell({"prep", "plan"})

LoadPrepared(validate, unchanged) == Try \o Named("prep") \o Follow("prep", Copied) \o validate \o unchanged

(* The tools are bound by digest before the compiler reads the project, and *)
(* its log must name one freshly built test executable, whose copy lists   *)
(* its tests before it is hashed.                                          *)
Toolchain7        == Gate \o Hash({"tools"})
SelectedArtifact  == Gate
Build(load, toolchain, unchanged) ==
    load \o Fresh({"buildstart"}) \o toolchain \o WriteNew("buildstart")
    \o Create("buildlog") \o Launch({"project", "tools"}) \o Fill("buildlog") \o SelectedArtifact
    \o Write("binary") \o Reads({"binary"}) \o Gate \o Write("tests") \o unchanged
    \o Hash(Built) \o WriteNew("build") \o Tell({"build"})

Execute(load, unchanged) ==
    load \o Named("build") \o Follow("build", Built) \o Same
    \o Fresh({"runstart"}) \o Fresh({"raw"}) \o WriteNew("runstart") \o Hash({"runstart"})
    \o Create("runlog") \o Launch({"binary", "plan", "inputs"}) \o Write("raw") \o Fill("runlog")
    \o Hash({"runlog"}) \o Gate \o Hash({"raw"}) \o unchanged \o Same
    \o WriteNew("exec") \o Tell({"exec"})

Prepare7      == Prepare(Unchanged, MakeAdapter7)
LoadPrepared7 == LoadPrepared(ValidatePlan, Unchanged)
Build7        == Build(LoadPrepared7, Toolchain7, Unchanged)
Run7          == Execute(LoadPrepared7, Unchanged)

(* main: a phase that raises leaves one failure record, and never a second. *)
Failed7 == Note("dir", "failed")

(* export_gpu: the plan's digests, then a directory of its own. *)
GpuPlan7 == Named("plan") \o Follow("plan", Live) \o Same \o Create("gpudir") \o Try

(* Both branches read the saved states, each behind stable(). *)
GpuBranches7 == Same \o Launch(Live) \o Same \o Gate \o Launch(Live) \o Same

(* finally, on both paths: tensors, a last stable(), and the report.       *)
(* Tensors that cannot be saved and inputs that changed only reject it.     *)
GpuReport(stable) == Write("gputensors") \o Judge \o Hash({"gputensors"}) \o SettleOn(stable)
                    \o WriteNew("gpu") \o Tell({"gpu"})
GpuReport7 == GpuReport(Live \cup {"plan"})
Gpu7       == GpuPlan7 \o GpuBranches7 \o GpuReport7

(* compare: both arms by hash, then everything the two arms bound. *)
CompareArms7 ==
    Fresh({"analysis"}) \o Named("plan") \o ValidatePlan \o Named("exec")
    \o Follow("exec", Executed) \o Same
    \o Named("gpu") \o Follow("gpu", Live) \o Gate \o Same
CompareTensors7 ==
    Follow("gpu", {"gputensors"}) \o ReadBound({"raw", "gputensors", "inputs"}) \o Gate
(* The decomposition refuses what is not finite. *)
Decompose7     == Gate
CompareReport7 == Decompose7 \o ValidatePlan \o Same \o WriteNew("analysis") \o Tell({"analysis"})
Compare7       == CompareArms7 \o CompareTensors7 \o CompareReport7
-----------------------------------------------------------------------------
(* block0 adds source_guard, the frozen toolchain and the CPU gate. *)
CheckSources0 == Gate

ValidatePlan0 == ValidatePlan \o Gate
Unchanged0    == Same \o CheckSources0 \o Same
Toolchain0    == Gate \o Hash({"tools"})
MakeAdapter0  == Gate
Prepare0      == CheckSources0 \o Prepare(Unchanged0, MakeAdapter0)
LoadPrepared0 == LoadPrepared(ValidatePlan0, Unchanged0)
Build0        == Build(LoadPrepared0, Toolchain0, Unchanged0)
Run0          == Execute(LoadPrepared0, Unchanged0)
Failed0       == Failed7

(* No CUDA before the CPU arm is accepted: its receipt and all it binds. *)
CpuControl0  == Gate
AcceptedCpu0 ==
    Named("exec") \o Follow("exec", Executed) \o Same \o CpuControl0

GpuPlan0 == Named("plan") \o Follow("plan", Live) \o Same \o CheckSources0 \o AcceptedCpu0
            \o Same \o Create("gpudir") \o Try
GpuBranches0 == Same \o Launch(Live) \o Same \o Gate \o Launch(Live) \o Same
GpuReport0   == GpuReport(Live \cup Executed \cup {"exec"})
Gpu0         == GpuPlan0 \o GpuBranches0 \o GpuReport0

(* The GPU report must name the very receipt the comparison was given. *)
CompareArms0 ==
    Fresh({"analysis"}) \o Named("plan") \o ValidatePlan0 \o Named("exec")
    \o Follow("exec", Executed) \o Same
    \o CpuControl0 \o Named("gpu") \o Follow("gpu", Live \cup {"exec"}) \o Gate \o Same
CompareTensors0 == CompareTensors7
Decompose0      == Gate
CompareReport0  == Decompose0 \o ValidatePlan0 \o Same \o WriteNew("analysis") \o Tell({"analysis"})
Compare0        == CompareArms0 \o CompareTensors0 \o CompareReport0
-----------------------------------------------------------------------------
(* fp32_crossover, the first of the three (layer 8 into layer 9): the same  *)
(* scripts before they were copied, with other stages.                      *)
ValidatePlan8  == ValidatePlan
Unchanged8     == Unchanged
MakeAdapter8   == Gate
Prepare8       == Prepare(Unchanged8, MakeAdapter8)
LoadPrepared8  == LoadPrepared7
Toolchain8     == Toolchain7
SelectedArtifact8 == SelectedArtifact
Build8         == Build(LoadPrepared8, Toolchain8, Unchanged8)
Run8           == Run7
Failed8        == Failed7
GpuPlan8       == GpuPlan7
GpuBranches8   == GpuBranches7
GpuReport8     == GpuReport7
Gpu8           == GpuPlan8 \o GpuBranches8 \o GpuReport8
CompareArms8   == CompareArms7
CompareTensors8 == CompareTensors7
Decompose8     == Decompose7
CompareReport8 == Decompose8 \o ValidatePlan8 \o Same \o WriteNew("analysis") \o Tell({"analysis"})
Compare8       == CompareArms8 \o CompareTensors8 \o CompareReport8
-----------------------------------------------------------------------------
(* The plan is written before the last check of what it names: it does not *)
(* say that all of it stayed the same.                                      *)
CaptureBook(prepare, build, execute, failed, gpu, report, compare) ==
    [files    |-> CaptureFiles,
     records  |-> {"plan", "prep", "build", "exec", "gpu", "analysis"},
     kept     |-> {"plan", "prep", "build", "exec", "gpu", "analysis"},
     closed   |-> {"prep", "build", "exec", "gpu", "analysis"},
     given    |-> {"live", "inputs", "meta", "tools"},
     editable |-> {"live", "inputs", "meta", "tools", "project", "raw", "gputensors"}, again |-> {},
     phases   |-> [prepare |-> [steps |-> prepare, failing |-> failed],
                   build   |-> [steps |-> build,   failing |-> failed],
                   run     |-> [steps |-> execute, failing |-> failed],
                   gpu     |-> [steps |-> gpu,     failing |-> report],
                   compare |-> [steps |-> compare, failing |-> <<>>]]]

Layer8 == CaptureBook(Prepare8, Build8, Run8, Failed8, Gpu8, GpuReport8, Compare8)
Layer7 == CaptureBook(Prepare7, Build7, Run7, Failed7, Gpu7, GpuReport7, Compare7)
Block0 == CaptureBook(Prepare0, Build0, Run0, Failed0, Gpu0, GpuReport0, Compare0)
=============================================================================
