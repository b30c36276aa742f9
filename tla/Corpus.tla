-------------------------------- MODULE Corpus -------------------------------
(***************************************************************************)
(* The scripts around the evaluation corpus that launch something: the     *)
(* functional batch regression of a captured command-line build, and the   *)
(* official evaluator over saved inference.  And the snapshot of a run.    *)
(***************************************************************************)
EXTENDS Evidence

(* capture_functional_cli: "building" first; a failed or changed build     *)
(* leaves a rejected manifest, anything later only the draft.              *)
CaptureCli ==
    Create("dir") \o Take({"live"}) \o WriteNew("zip") \o Hash({"zip"}) \o Draft("build")
    \o Create("buildlog") \o Try \o Launch({"live"}) \o Check({"live"}) \o Bare \o Fill("buildlog")
    \o Gate \o Write("binary") \o Hash({"binary"}) \o Write("build")
CliRejected == Fill("buildlog") \o Write("build")

ValidateManifest == Pinned({"workload", "inputs"}) \o Check({"workload", "inputs"}) \o Gate
CliBuild         == {"binary", "zip", "live"}
ValidateBuild    == Follow("build", CliBuild) \o Check(CliBuild)

PlanRegression ==
    ValidateManifest \o ValidateBuild \o Gate \o Create("plandir") \o WriteNew("workload1")
    \o Hash({"workload", "workload1", "build"}) \o WriteNew("plan")

(* load_plan: the plan against what it binds, its own snapshot included. *)
LoadPlan == Follow("plan", {"workload", "workload1", "build"}) \o Check({"workload", "workload1", "build"})
            \o ValidateManifest \o ValidateBuild \o Gate

(* Each job is a process; before it is launched, plan and binary again. *)
Jobs   == {"control", "layout1", "layout2", "layout3", "layout4"}
JobResults == Gate   \* a fresh inference of the requests asked for, as they were asked for
Job(j) == Check({"plan"}) \o Gate \o Check({"binary"}) \o Create(j)
          \o Launch({"binary", "inputs"}) \o Fill(j) \o Take({j}) \o JobResults
RunJobs ==
    Hash({"execution"}) \o Job("control") \o Job("layout1") \o Job("layout2") \o Job("layout3") \o Job("layout4")
    \o Check({"plan"}) \o LoadPlan \o Check(Jobs \cup {"execution"}) \o Judge \o WriteNew("report")
RunFailed == WriteNew("final")
RunRegression == Hash({"plan"}) \o LoadPlan \o WriteNew("execution") \o Try
                 \o RunJobs \o Hash({"report"}) \o WriteNew("final")

Functional ==
    Family({"dir", "zip", "buildlog", "binary", "plandir", "workload1", "execution"} \cup Jobs,
           {"build", "plan", "report", "final"}, {"build", "report", "final"},
           {"live", "workload", "inputs"}, {"live", "workload", "inputs", "binary", "control", "layout3"},
           [capture |-> Handled(CaptureCli, CliRejected), plan |-> Phase(PlanRegression),
            run |-> Handled(RunRegression, RunFailed)])
-----------------------------------------------------------------------------
(* The official evaluation, of a CPU and of a GPU run.  The evaluator is a *)
(* library: what it read of the predictions only the comparison can tell.  *)
Side(inference, dir, predictions, truth, provenance, log, result, audit) ==
    [inference |-> inference, dir |-> dir, predictions |-> predictions, truth |-> truth,
     provenance |-> provenance, log |-> log, result |-> result, audit |-> audit]
CpuSide == Side("cpurun", "cpudir", "cpupred", "cputruth", "cpuprov", "cpulog", "cpuresult", "cpuaudit")
GpuSide == Side("gpurun", "gpudir", "gpupred", "gputruth", "gpuprov", "gpulog", "gpuresult", "gpuaudit")

ValidRecord == Gate
ValidateSourceRun(s) == Reads({s.inference}) \o Pinned({"manifest", "pages"}) \o Check({"manifest", "pages"}) \o ValidRecord

(* The run's own files are hashed after they were read: the text of every  *)
(* prediction is compared with them again in validate_prepared.            *)
PrepareEvaluation(s) ==
    Gate \o ValidateSourceRun(s) \o Fresh({s.dir}) \o Pinned({"annotations"}) \o ReadBound({"annotations"})
    \o Create(s.dir) \o Place(s.predictions) \o Seal(s.predictions) \o Write(s.truth)
    \o Hash({"manifest", s.inference, s.truth}) \o Write(s.provenance)

ValidatePrepared(s) ==
    Follow(s.provenance, {"manifest", s.truth, s.inference, s.predictions})
    \o Check({"manifest", s.truth, s.inference, s.predictions}) \o ValidateSourceRun(s)

(* run_evaluation_checked: the audit is written whatever the evaluator did. *)
AuditReport(s) == Judge \o Hash({s.log}) \o Write(s.audit)
Evaluate(s) ==
    ValidatePrepared(s) \o Fresh({s.audit, s.result}) \o Gate \o Hash({s.provenance}) \o Place(s.log)
    \o Try \o Launch({s.predictions, s.truth}) \o Write(s.result) \o Check({s.provenance}) \o Gate
    \o Hash({s.result}) \o AuditReport(s)

CheckAudit(s) == Follow(s.audit, {s.provenance, s.log, s.result}) \o Check({s.provenance, s.log, s.result})

(* Every output file is accounted for and every mean computed again.       *)
ValidateResults(s) == Reads({s.result}) \o Gate

CompareEvaluations ==
    Fresh({"compared"}) \o ValidatePrepared(GpuSide) \o CheckAudit(GpuSide)
    \o ValidatePrepared(CpuSide) \o CheckAudit(CpuSide) \o Gate
    \o ValidateResults(GpuSide) \o ValidateResults(CpuSide)
    \o Hash({"gpuprov", "gpuaudit", "cpuprov", "cpuaudit"}) \o Write("compared")

SideFiles(s) == {s.dir, s.predictions, s.truth, s.log, s.result}
SideRecords(s) == {s.provenance, s.audit}
Official == [Family(SideFiles(CpuSide) \cup SideFiles(GpuSide),
                   SideRecords(CpuSide) \cup SideRecords(GpuSide) \cup {"compared"}, {"compared"},
                   {"manifest", "pages", "annotations", "cpurun", "gpurun"},
                   {"annotations", "gpupred", "gputruth"},
                   [prepareCpu |-> Phase(PrepareEvaluation(CpuSide)),
                    prepareGpu |-> Phase(PrepareEvaluation(GpuSide)),
                    evaluateCpu |-> Handled(Evaluate(CpuSide), AuditReport(CpuSide)),
                    evaluateGpu |-> Handled(Evaluate(GpuSide), AuditReport(GpuSide)),
                    compare |-> Phase(CompareEvaluations)])
            EXCEPT !.again = {"evaluateCpu", "evaluateGpu"}]
-----------------------------------------------------------------------------
(* snapshot_cpu_corpus: the bytes copied are the bytes checked at the end. *)
SnapshotRun == Take({"manifest", "cpurun"}) \o Gate \o Create("dir") \o Write("copies") \o Same \o Write("snapshot")
Snapshot == Family({"dir", "copies"}, {"snapshot"}, {"snapshot"}, {"manifest", "cpurun"}, {"manifest", "cpurun"},
                   [snapshot |-> Phase(SnapshotRun)])
=============================================================================
