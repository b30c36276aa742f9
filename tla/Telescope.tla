------------------------------ MODULE Telescope -----------------------------
(***************************************************************************)
(* The two follow-up experiments, fp32_crossover_downstream and fp32_      *)
(* prefix_suffix_telescope.  They re-run no CPU arm: their inputs are the  *)
(* pinned records and tensors of earlier experiments ("history" is what    *)
(* those records bind in turn), and a plan window - the plan, its inputs,  *)
(* the sources, the model and the source archive - is rechecked at every   *)
(* stage.                                                                  *)
(***************************************************************************)
EXTENDS Evidence

Window == {"live", "inputs", "zip"}

(* verify_sources: the native fragments still are the preserved ones. *)
VerifySources == Gate

(* plan_window: the named plan, everything it binds, and a first stable(). *)
PlanWindow == Named("plan") \o Follow("plan", Window) \o Same

(* load_evidence: pinned reports and archives, read by digest, and the     *)
(* historical artifacts their records bind; any failed join refuses.       *)
LoadReports  == ReadBound({"inputs"}) \o Gate \o Pinned({"history"})
LoadArchives == ReadBound({"inputs"}) \o Gate
LoadEvidence == LoadReports \o LoadArchives

PrepareDown ==
    Fresh({"dir"}) \o Pinned({"inputs"}) \o Take({"live"}) \o VerifySources \o Same
    \o Create("dir") \o WriteNew("zip") \o Hash({"zip"}) \o Gate
    \o WriteNew("plan") \o Hash({"plan"}) \o Same \o WriteNew("prep") \o Tell({"plan"})

(* The control branch runs first and must be bit exact; then the other.    *)
NativeSegment == Same \o Launch({"live", "inputs"}) \o Gate \o Same \o Launch({"live", "inputs"})

Report == Write("gputensors") \o Judge \o Hash({"gputensors"}) \o SettleOn(Window \cup {"plan", "history"})
          \o WriteNew("gpu") \o Tell({"gpu"})

GpuDown ==
    PlanWindow \o VerifySources \o Create("gpudir") \o Try
    \o LoadEvidence \o Same \o Gate \o Same \o NativeSegment \o Gate \o Report

(* compare: the capture's own digests join the window before any payload.  *)
CompareCapture ==
    Fresh({"analysis"}) \o PlanWindow \o VerifySources \o Named("gpu") \o Gate
    \o Follow("gpu", Window \cup {"history"}) \o LoadEvidence \o Gate
Decompose == Gate
CompareDown ==
    CompareCapture \o Follow("gpu", {"gputensors"}) \o ReadBound({"gputensors"}) \o Gate \o Decompose
    \o Same \o WriteNew("analysis") \o Tell({"analysis"})
-----------------------------------------------------------------------------
(* The telescope loads the downstream evidence on top, already while it    *)
(* prepares, and fixes eleven branches in order.                           *)
PlanWindowT    == PlanWindow
PriorReports   == LoadReports
PriorArchives  == LoadArchives
PriorEvidence  == PriorReports \o PriorArchives
LoadEvidenceT  == PriorEvidence \o ReadBound({"inputs"}) \o Gate \o Pinned({"history"}) \o Gate

VerifySourcesT == Pinned({"inputs"}) \o ReadBound({"inputs"}) \o Gate

PrepareTelescope ==
    Fresh({"dir"}) \o Pinned({"inputs"}) \o Take({"live"}) \o VerifySourcesT \o Same
    \o LoadEvidenceT \o Same
    \o Create("dir") \o WriteNew("zip") \o Hash({"zip"}) \o Gate
    \o WriteNew("plan") \o Hash({"plan"}) \o Same \o Same \o WriteNew("prep") \o Tell({"plan"})

(* require_next_branch: the next in the list, after every control passed.  *)
Branch(control)  == Same \o Launch({"live", "inputs"}) \o control
NativeTelescope  == Times(3, Branch(Gate)) \o Times(8, Branch(<<>>))

GpuTelescope ==
    PlanWindowT \o VerifySourcesT \o Create("gpudir") \o Try
    \o LoadEvidenceT \o Same \o Gate \o Same \o NativeTelescope \o Gate \o Report

CompareCaptureT ==
    Fresh({"analysis"}) \o PlanWindowT \o VerifySourcesT \o Named("gpu") \o Gate
    \o Follow("gpu", Window \cup {"history"}) \o LoadEvidenceT \o Gate
DecomposeT == Gate
CompareTelescope ==
    CompareCaptureT \o Follow("gpu", {"gputensors"}) \o ReadBound({"gputensors"}) \o Gate \o DecomposeT
    \o Same \o WriteNew("analysis") \o Tell({"analysis"})

(* review_saved_v1: a second reader of the finished records, by the hashes *)
(* they were published with.  Large files keep the exporter's claim.       *)
ReviewBinds ==
    Fresh({"review"}) \o Named("plan") \o Named("gpu") \o Named("analysis") \o Gate
    \o Follow("plan", {"live", "zip"}) \o Same
(* bind, read_json and tensors keep one digest a path; check() refuses.    *)
ReviewReads  == Follow("gpu", {"gputensors", "inputs"}) \o ReadBound({"gputensors", "inputs"})
ReviewArrays == ReviewReads \o Gate
Review == ReviewBinds \o ReviewArrays \o Same \o WriteNew("review") \o Tell({"review"})

(* launch_prefix_suffix_telescope: the GPU arm again, as the child of a     *)
(* launcher that hashes the sources around it and always leaves a receipt. *)
LaunchStart ==
    Named("plan") \o Fresh({"gpudir", "launchdir"}) \o Hash({"script"}) \o Follow("plan", {"live"})
    \o Check({"live"}) \o Create("launchdir") \o WriteNew("started") \o Try
LaunchFinish == SettleOn({"plan", "script", "live"}) \o Listed({"gpu"}) \o WriteNew("finished") \o Tell({"finished"})
LaunchOnce   == LaunchStart \o GpuTelescope \o LaunchFinish
LaunchFailed == Either("gpudir", Report, <<>>) \o LaunchFinish
-----------------------------------------------------------------------------
Windowed == {"plan", "prep", "gpu", "analysis", "review", "finished"}
WindowBook(prepare, gpu, compare) ==
    [files    |-> Window \cup Windowed \cup {"history", "dir", "gpudir", "gputensors", "script",
                                            "launchdir", "started"},
     records  |-> Windowed,
     kept     |-> Windowed,
     closed   |-> Windowed,
     given    |-> {"live", "inputs", "history", "script"},
     editable |-> {"live", "inputs", "history", "zip", "gputensors"}, again |-> {},
     phases   |-> [prepare |-> [steps |-> prepare, failing |-> <<>>],
                   gpu     |-> [steps |-> gpu,     failing |-> Report],
                   compare |-> [steps |-> compare, failing |-> <<>>],
                   review  |-> [steps |-> Review,  failing |-> <<>>]]]

Downstream == WindowBook(PrepareDown, GpuDown, CompareDown)
TelescopeV1 == [WindowBook(PrepareTelescope, GpuTelescope, CompareTelescope)
                EXCEPT !.phases = Joined(@, [launch |-> Handled(LaunchOnce, LaunchFailed)])]
=============================================================================
