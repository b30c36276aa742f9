----------------------------- MODULE Quantization ----------------------------
(***************************************************************************)
(* The 4-bit operator probes of research/quantization-feasibility: a probe *)
(* is compiled from hashed sources, run once, and its report is rechecked  *)
(* against an independent computation.                                     *)
(***************************************************************************)
EXTENDS Evidence

(* check_probe: the report, what it was built from, and the same           *)
(* arithmetic done another way; then whether all of it is still the same.  *)
Preserved      == {"binary", "zip"}
PreservedBuild == Follow("build", Preserved) \o Check(Preserved) \o Gate
PinnedInputs   == Pinned({"inputs"}) \o Check({"inputs"})
Oracle         == Gate
CheckScalar(out) ==
    Fresh({out}) \o Reads({"operators"}) \o Hash({"operators"}) \o Gate \o PinnedInputs \o PreservedBuild
    \o Hash({"build"}) \o Reads({"inputs"}) \o Gate \o Oracle
    \o Check({"inputs", "operators", "build"} \cup Preserved) \o WriteNew(out)

(* capture_probe: the scalar probe, built by cargo, run, and checked.      *)
CaptureProbe ==
    Create("dir") \o Take({"live"}) \o WriteNew("zip") \o Hash({"zip"}) \o Draft("build")
    \o Create("buildlog") \o Try \o Launch({"live"}) \o Check({"live"}) \o Bare \o Fill("buildlog")
    \o Gate \o Write("binary") \o Hash({"binary"}) \o Write("build")
    \o Create("probelog") \o Launch({"binary"}) \o Fill("probelog") \o Write("operators")
    \o Create("checklog") \o CheckScalar("selfcheck") \o Fill("checklog")
ProbeRejected == Fill("buildlog") \o Write("build")

ScalarProbe == Family({"dir", "zip", "buildlog", "binary", "probelog", "operators", "checklog"},
                      {"build", "selfcheck", "checked"}, {"build", "selfcheck", "checked"},
                      {"live", "inputs"}, {"live", "inputs", "binary"},
                      [capture |-> Handled(CaptureProbe, ProbeRejected), check |-> Phase(CheckScalar("checked"))])
-----------------------------------------------------------------------------
(* capture_avx2_probe, and its check, which may be repeated later.         *)
Proofs            == {"binary", "tests", "zip", "operators", "testlog"}
ValidateArithmetic == Gate
ValidateProbe     == Follow("build", Proofs) \o Check(Proofs) \o Gate
CheckProbe ==
    Reads({"operators"}) \o Hash({"operators", "build"}) \o ValidateProbe \o ValidateArithmetic
    \o Check({"operators", "build"}) \o ValidateProbe
CaptureAvx2 ==
    Create("dir") \o Hash({"live"}) \o Create("zip") \o Reads({"live"}) \o Fill("zip")
    \o Create("buildlog") \o Launch({"live"}) \o Fill("buildlog") \o Write("binary") \o Write("tests")
    \o Check({"live"}) \o Hash({"binary", "tests"}) \o Launch({"tests"}) \o Write("testlog") \o Gate
    \o Launch({"binary"}) \o Write("operators") \o Check({"binary", "tests"}) \o Check({"live"})
    \o Hash({"zip", "operators", "testlog"}) \o WriteNew("build")
Checked == WriteNew("checked")

Avx2Probe == Family({"dir", "buildlog"} \cup Proofs, {"build", "checked"}, {"build", "checked"}, {"live"},
                    {"live", "binary", "tests", "operators"},
                    [capture |-> Phase(CaptureAvx2 \o CheckProbe \o Checked),
                     check   |-> Phase(CheckProbe \o Checked)])
-----------------------------------------------------------------------------
(* capture_real_avx2_probe: the same on real weights and activations, which *)
(* must be those of the earlier report, operand by operand.                 *)
Captured    == Proofs \cup {"operands", "plan", "jobs", "buildlog", "probelog"}
FixedInputs == Pinned({"inputs"}) \o Check({"inputs"}) \o Gate
Descriptors == ReadBound({"inputs"}) \o Gate
PreparePlan == Descriptors \o Create("operands") \o Fill("operands") \o WriteNew("plan") \o Hash({"plan"})
               \o WriteNew("jobs")
ValidateCapture == Follow("build", Captured) \o Check(Captured) \o Gate
ArithmeticMetrics == Gate
CheckReal ==
    ValidateCapture \o Hash({"build"}) \o FixedInputs \o Descriptors
    \o Reads({"operands", "operators"}) \o Gate \o ArithmeticMetrics \o ValidateCapture \o Check({"inputs", "build"})
CaptureReal ==
    Create("dir") \o Hash({"live"}) \o FixedInputs \o PreparePlan
    \o Create("zip") \o Reads({"live"}) \o Fill("zip")
    \o Create("buildlog") \o Launch({"live"}) \o Fill("buildlog") \o Write("binary") \o Write("tests")
    \o Check({"live"}) \o Hash({"binary", "tests"}) \o Launch({"tests"}) \o Gate \o WriteNew("testlog")
    \o Create("probelog") \o Launch({"binary", "jobs", "operands"}) \o Write("operators") \o Fill("probelog")
    \o Check({"live", "binary", "tests"}) \o Hash(Captured) \o WriteNew("build")
RealChecked == WriteNew("checked")

RealProbe == Family({"dir"} \cup Captured, {"build", "checked"}, {"build", "checked"}, {"live", "inputs"},
                    {"live", "inputs", "operators"},
                    [capture |-> Phase(CaptureReal \o CheckReal \o Check({"live"}) \o RealChecked),
                     check   |-> Phase(CheckReal \o RealChecked)])
=============================================================================
