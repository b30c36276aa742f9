------------------------------ MODULE Operators -----------------------------
(***************************************************************************)
(* The operator experiments of research/gpu-reference: one linear layer    *)
(* (linear/) and the RMS norm (rms_norm/).  Most are a single process that *)
(* owns the directory it created.                                          *)
(***************************************************************************)
EXTENDS Evidence
-----------------------------------------------------------------------------
(* capture_observed_partition_probe: a manifest that says "building" first, *)
(* then "failed" or, for a build and tests of unchanged sources,           *)
(* "complete"; no executable, or more than one, leaves the draft.          *)
ProbeReport == Listed({"buildlog", "testlog"}) \o Write("build")
BuildProbe ==
    Take({"live"}) \o Gate \o Create("dir") \o WriteNew("zip") \o Hash({"zip"}) \o Draft("build") \o Try
    \o Place("buildlog") \o Launch({"live"}) \o Fill("buildlog")
    \o Place("testlog") \o Launch({"live"}) \o Fill("testlog") \o Check({"live"}) \o Bare
    \o Gate \o Write("binary") \o Hash({"binary"}) \o ProbeReport \o Tell({"build"})

Probe == Family({"dir", "zip", "buildlog", "testlog", "binary"}, {"build"}, {"build"}, {"live"}, {"live"},
                [build |-> Handled(BuildProbe, ProbeReport)])
-----------------------------------------------------------------------------
(* The isolated interventions: a copy of the crate, patched, built, run.   *)
Isolated == {"dir", "project", "zip", "buildstart", "buildlog", "binary", "traces", "runlog"}

(* patch_copy and the copy: only the patched files may differ from what    *)
(* was hashed, so the copy read what the hash says.                        *)
CopyProject == Place("project") \o Reads({"live"}) \o Fill("project")
               \o Hash({"project"}) \o Matches({"live"})
               \o Create("zip") \o Reads({"live"}) \o Fill("zip") \o Hash({"zip"})

W2Prepare == Pinned({"proof"}) \o Check({"proof"}) \o Gate \o Create("dir") \o Hash({"live"}) \o Gate
             \o Pinned({"inputs"}) \o Check({"inputs", "proof"}) \o CopyProject \o WriteNew("prep")

W2Unchanged == Check({"live", "project", "inputs", "proof", "zip"})

W2Build == WriteNew("buildstart") \o Create("buildlog") \o Launch({"project"}) \o Fill("buildlog")
           \o Gate \o Write("binary") \o W2Unchanged \o Hash({"binary", "buildlog"}) \o WriteNew("build")
(* The receipt names the executable that wrote it. *)
W2Run   == Create("traces") \o Create("runlog") \o Launch({"binary", "inputs"}) \o Fill("runlog")
           \o Gate \o Matches({"binary"}) \o Check({"binary"}) \o Fill("traces") \o Hash({"traces"})
           \o W2Unchanged \o Hash({"build", "runlog"}) \o WriteNew("exec") \o Tell({"exec"})

W2 == Family(Isolated, {"prep", "build", "exec"}, {"build", "exec"}, {"live", "inputs", "proof"},
             {"live", "inputs", "project", "binary"},
             [prepareOnly |-> Phase(W2Prepare), all |-> Phase(W2Prepare \o W2Build \o W2Run)])

RmsBuild == WriteNew("buildstart") \o Create("buildlog") \o Launch({"project"}) \o Fill("buildlog")
            \o Gate \o Write("binary") \o Check({"live", "project"})
            \o Hash({"binary"}) \o WriteNew("build")
(* The receipt is compared with the executable as it is now, not with the  *)
(* build's record of it, so the executable is left unedited here.          *)
RmsRun(fixed) ==
    Create("traces") \o Gate \o Create("runlog") \o Launch({"binary"} \cup fixed) \o Fill("runlog")
    \o Gate \o Hash({"binary"}) \o Matches({"binary"}) \o Fill("traces") \o Hash({"traces"})
    \o Check({"live", "project"} \cup fixed) \o Hash({"build", "runlog"})
    \o WriteNew("exec") \o Tell({"exec"})

(* capture_width768_intervention. *)
Width768 == Create("dir") \o Hash({"live"}) \o Pinned({"inputs"}) \o Check({"inputs"})
            \o CopyProject \o RmsBuild \o RmsRun({"inputs"})

Rms768 == Family(Isolated, {"build", "exec"}, {"exec"}, {"live", "inputs"}, {"live", "inputs", "project"},
                 [all |-> Phase(Width768)])

(* export_rsqrt_table: every argument of the domain, then one verdict, and *)
(* a failure record for whatever raises once the sources are copied.       *)
StartTable  == Gate \o Create("tabledir") \o Take({"exporter", "lookup"}) \o Write("copies") \o Try
ExportTable == WriteNew("startup") \o Create("table") \o Launch({}) \o Fill("table") \o Hash({"table"})
               \o Create("pairs") \o Launch({}) \o Fill("pairs") \o Gate \o Hash({"pairs"})
               \o Same \o Judge \o WriteNew("proven") \o Tell({"table", "proven"})
TableFailed == Note("tabledir", "failed")

(* capture_gpu_rsqrt_intervention: the table only with its proof, and the  *)
(* lookup only as it was proved; what the build binds is a later hash.     *)
RsqrtInputs == Named("table") \o Named("proven") \o Gate \o Follow("proven", {"table"})
CheckLookup == Follow("proven", {"lookup"}) \o Check({"lookup"})
GpuRsqrt    == RsqrtInputs \o Create("dir") \o CheckLookup
               \o Hash({"live", "lookup"}) \o Pinned({"inputs"})
               \o Check({"inputs", "table", "proven"}) \o CopyProject
               \o RmsBuild \o RmsRun({"inputs", "lookup", "table", "proven"})

(* What is hashed before the copy and again with the build's receipt, the   *)
(* lookup, is left unedited: the two hashes are not compared.              *)
Rsqrt == Family(Isolated \cup {"tabledir", "copies", "startup", "table", "pairs", "failed"},
                {"proven", "build", "exec"}, {"proven", "exec"}, {"exporter", "lookup", "live", "inputs"},
                {"exporter", "live", "inputs", "table", "project"},
                [table |-> Handled(StartTable \o ExportTable, TableFailed), all |-> Phase(GpuRsqrt)])
-----------------------------------------------------------------------------
(* capture_scales, then a second reading of its saved rows.  The compiler  *)
(* and the probe read copies that only the review binds.                   *)
ScaleCandidates == Gate   \* the interval of possible multipliers must be narrow
CaptureScales ==
    Create("dir") \o Hash({"inputs"}) \o Pinned({"inputs"}) \o Check({"inputs"}) \o Hash({"live"})
    \o Reads({"live"}) \o Gate \o Create("operands") \o Reads({"inputs"}) \o Fill("operands")
    \o Launch({}) \o Check({"live"}) \o Launch({}) \o ScaleCandidates
    \o Check({"live", "inputs"}) \o Hash({"operands"}) \o WriteNew("scales") \o Tell({"scales"})
ReviewScales ==
    Fresh({"review"}) \o Hash({"live", "scales"}) \o Follow("scales", {"live", "inputs", "operands"}) \o Same
    \o Gate \o Reads({"inputs", "operands"}) \o Gate \o Same \o WriteNew("review")

Scales == Family({"dir", "operands"}, {"scales", "review"}, {"scales", "review"}, {"live", "inputs"},
                 {"live", "inputs"}, [capture |-> Phase(CaptureScales), review |-> Phase(ReviewScales)])

(* capture_cuda_source_identity: what is hashed is what was preserved. *)
SourceIdentity == Gate \o Create("dir") \o Take({"live"}) \o WriteNew("copies") \o Gate \o WriteNew("identity")
Identity == Family({"dir", "copies"}, {"identity"}, {"identity"}, {"live"}, {"live"},
                   [capture |-> Phase(SourceIdentity)])
-----------------------------------------------------------------------------
(* export_owned_workspace: a control worker and three basis workers, each  *)
(* a process of its own that is validated before the next one starts.      *)
Workers == {"control", "basis0", "basis1", "basis2"}

VerifyPins  == Check({"inputs"})
Worker(w)   == Check({"live"}) \o VerifyPins \o Gate \o Launch({"inputs"}) \o Check({"live"}) \o WriteNew(w)
ParseLogs   == Gate   \* the library's own logs show the expected calls only
Validate(w) == Take({w}) \o ParseLogs
Round(w)    == Check({"live"}) \o Worker(w) \o Gate \o Validate(w) \o Check({w})
(* The three basis captures must have the one layout that was predicted.   *)
ObserveLayout == Gate
(* Every file is hashed once more for the report, after the closure check.  *)
WorkspaceReport == Settle \o Listed(Workers) \o WriteNew("captured") \o Tell({"captured"})
Orchestrate ==
    Create("dir") \o Hash({"live"}) \o Pinned({"inputs"}) \o VerifyPins
    \o Create("zip") \o Reads({"live"}) \o Matches({"live"}) \o Fill("zip") \o Hash({"zip"})
    \o WriteNew("startup") \o Try
    \o Round("control") \o Round("basis0") \o Round("basis1") \o Round("basis2")
    \o ObserveLayout \o Judge \o WorkspaceReport

(* replay_observed_partials: one fixed fold over the captured partials.    *)
(* The report's digests are late, so the gates' digests are checked too.    *)
Replay ==
    Take({"script"}) \o Named("captured") \o Gate \o Follow("captured", Workers \cup {"zip"}) \o Same
    \o Validated("captured", Workers) \o Gate
    \o Pinned({"inputs"}) \o VerifyPins \o Reads(Workers \cup {"inputs"}) \o Gate
    \o Create("replaydir") \o Write("fold") \o Same \o Hash({"fold"}) \o WriteNew("replayed")

Workspace == Family({"dir", "zip", "startup", "replaydir", "fold"} \cup Workers, {"captured", "replayed"},
                    {"replayed"}, {"live", "inputs", "script"},
                    {"live", "inputs", "script", "control", "basis2"},
                    [capture |-> Handled(Orchestrate, WorkspaceReport), replay |-> Phase(Replay)])
-----------------------------------------------------------------------------
(* research/aocl: the standalone library.  The manifest says "building",   *)
(* is written again once the toolchain is known, and finally tells how it  *)
(* went, with the logs there are.                                          *)
ConfiguredCompilers == Gate \o Hash({"compiler"})
AoclReport == Listed({"configlog", "buildlog"}) \o Write("build")
BuildAocl ==
    Fresh({"dir"}) \o Gate \o Hash({"live"}) \o Create("dir") \o Hash({"script"}) \o Draft("build") \o Try
    \o Place("configlog") \o Launch({"live"}) \o Fill("configlog") \o ConfiguredCompilers \o Draft("build")
    \o Place("buildlog") \o Launch({"live", "compiler"}) \o Fill("buildlog") \o Check({"live", "script"})
    \o Gate \o Write("library") \o Hash({"library"}) \o AoclReport

(* The compiler's digest is not checked again, so it is left unedited.     *)
Aocl == Family({"dir", "configlog", "buildlog", "library"}, {"build"}, {"build"}, {"live", "script", "compiler"},
               {"live", "script", "library"}, [build |-> Handled(BuildAocl, AoclReport)])
=============================================================================
