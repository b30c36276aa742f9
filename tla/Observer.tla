------------------------------- MODULE Observer ------------------------------
(***************************************************************************)
(* The BF16 attention observer: substages export compiled kernels with     *)
(* their outputs, a roundtrip shows that one assembly of the untouched PTX *)
(* reproduces them, and only then an observer with extra stores is         *)
(* assembled and launched, once.  Every attempt owns its output directory, *)
(* and leaves a report whether it is accepted or not.                      *)
(***************************************************************************)
EXTENDS Evidence

Control == {"copies", "masks", "capture", "kernels", "fixture"}

(* export_bf16_fused_substages: the fixture is hashed once against the     *)
(* specification, and once more, into the report, after the launches.  The  *)
(* verdict kept of a report is the one the roundtrip asks for: that the    *)
(* untouched kernels reproduce the fixture.                                *)
PreserveKernel == Write("kernels") \o Gate \o Hash({"kernels"})
Substages ==
    Gate \o Fresh({"subdir"}) \o Create("subdir") \o Pinned({"fixture"}) \o Check({"fixture"})
    \o Place("copies") \o Reads({"live"}) \o Fill("copies") \o Hash({"copies"})
    \o Reads({"copies", "fixture"}) \o Write("masks") \o Launch({"copies"}) \o Write("capture")
    \o PreserveKernel
SubstagesReport == Judge \o Hash({"fixture", "masks", "capture"}) \o Write("substages") \o Tell({"substages"})

(* export_bf16_ptx_roundtrip.  bind() keeps a digest, preserve() copies    *)
(* the bytes that still have it.                                           *)
StartRoundtrip == Fresh({"rtdir"}) \o Gate \o Create("rtdir") \o Try
BindControl    == Named("substages") \o Gate \o Follow("substages", Control) \o Check(Control) \o Gate
                  \o Pinned({"ptxas"}) \o Check({"ptxas"}) \o Gate
Preserve       == Place("snapshot") \o Take({"live"}) \o ReadBound(Control)
                  \o Hash({"installed"}) \o ReadBound({"installed"}) \o Seal("snapshot") \o Write("startup")
Assemble       == Write("ptx") \o Hash({"ptx"}) \o Gate \o Same \o Launch({"ptx", "ptxas"})
                  \o Write("cubin") \o Take({"cubin"}) \o Hash({"nvdisasm"}) \o Launch({"nvdisasm", "cubin"}) \o Gate
(* Modules are loaded by hash; the runtime is bound once they are.         *)
LaunchControl  == Gate \o Same \o Reads({"snapshot"}) \o ReadBound({"cubin"}) \o Gate \o Hash({"runtime"})
                  \o Write("relaunch") \o Same \o Launch({}) \o Write("outputs") \o Gate
Artifacts      == {"snapshot", "startup", "ptx", "cubin", "relaunch", "outputs"}
RoundtripReport == Judge \o Settle \o Listed(Artifacts) \o Write("roundtrip") \o Tell({"roundtrip"})
Roundtrip      == StartRoundtrip \o BindControl \o Preserve \o Assemble \o LaunchControl \o RoundtripReport

(* export_bf16_ptx_observer: in another directory ("ob..."), on top of an  *)
(* accepted roundtrip; the reviewed sources are bound before they are      *)
(* copied, and the candidate must restore to the preserved PTX.            *)
StartObserver == Fresh({"obdir"}) \o Gate \o Create("obdir") \o Try
BindRoundtrip == Named("roundtrip") \o Gate \o Hash({"obspec"}) \o Gate
                 \o Pinned({"live"}) \o Check({"live"})
PreserveAgain == Place("obsnapshot") \o Reads({"live"}) \o ReadBound(Control)
                 \o Hash({"installed"}) \o ReadBound({"installed"}) \o Seal("obsnapshot") \o Write("obstartup")

(* build() only inserts between markers, and restore() takes just that out *)
(* again: both the instrumenter and the script ask for the original bytes. *)
Restore    == Gate
Instrument == Gate \o Restore
Candidate  == Reads({"obsnapshot"}) \o Instrument \o Gate \o Restore \o Write("candidate")
              \o Hash({"candidate"}) \o Gate
AssembleObserver ==
    Same \o Launch({"candidate", "ptxas"}) \o Write("obcubin") \o Take({"obcubin"})
    \o Hash({"nvdisasm"}) \o Launch({"nvdisasm", "obcubin"}) \o Write("sass") \o Hash({"sass"}) \o ReadBound({"sass"})
ArithmeticInventory == Gate
(* Every cell the layer should have written, and no other, is valid.       *)
ExpectedCells       == Gate
DecodeBuffer        == ExpectedCells \o Gate
LaunchObserver ==
    Gate \o Same \o Reads({"obsnapshot"}) \o ReadBound({"obcubin"}) \o Gate \o Hash({"runtime"})
    \o Write("oblaunch") \o Same \o Launch({}) \o DecodeBuffer \o Write("oboutputs") \o Gate
ObserverArtifacts == {"obsnapshot", "obstartup", "candidate", "obcubin", "sass", "oblaunch", "oboutputs"}
ObserverReport == Judge \o Settle \o Listed(ObserverArtifacts) \o Write("observer") \o Tell({"observer"})
Observe == StartObserver \o BindRoundtrip \o BindControl \o PreserveAgain \o Candidate
           \o AssembleObserver \o ArithmeticInventory \o LaunchObserver \o ObserverReport
-----------------------------------------------------------------------------
(* The second observer (research/bf16-graph) is the first with fewer       *)
(* stores; it also binds what the first attempt left behind.               *)
StartObserver2  == StartObserver
BindRoundtrip2  == BindRoundtrip \o Pinned({"attempt1"}) \o Check({"attempt1"})
PreserveAgain2  == PreserveAgain
Restore2        == Gate
Instrument2     == Gate \o Restore2 \o Gate
Candidate2      == Reads({"obsnapshot"}) \o Instrument2 \o Gate \o Restore2 \o Write("candidate")
                   \o Hash({"candidate"}) \o Gate
AssembleObserver2    == AssembleObserver
ArithmeticInventory2 == ArithmeticInventory
ExpectedCells2       == Gate
DecodeBuffer2        == ExpectedCells2 \o Gate
LaunchObserver2 ==
    Gate \o Same \o Reads({"obsnapshot"}) \o ReadBound({"obcubin"}) \o Gate \o Hash({"runtime"})
    \o Write("oblaunch") \o Same \o Launch({}) \o DecodeBuffer2 \o Write("oboutputs") \o Gate
ObserverReport2 == ObserverReport
Observe2 == StartObserver2 \o BindRoundtrip2 \o BindControl \o PreserveAgain2 \o Candidate2
            \o AssembleObserver2 \o ArithmeticInventory2 \o LaunchObserver2 \o ObserverReport2
-----------------------------------------------------------------------------
(* The installed runtime is left alone: each report names its own, and the *)
(* chain does not ask that two of them agree.                              *)
ObserverBook(observe, given) ==
    Family({"subdir", "rtdir", "obdir"} \cup Control \cup Artifacts \cup ObserverArtifacts,
           {"substages", "roundtrip", "observer"}, {"roundtrip", "observer"},
           {"live", "fixture", "installed", "ptxas", "nvdisasm", "runtime", "obspec"} \cup given,
           {"live", "ptxas", "capture", "kernels"} \cup given,
           [substages |-> Phase(Substages \o SubstagesReport),
            roundtrip |-> Handled(Roundtrip, RoundtripReport),
            observer  |-> Handled(observe, ObserverReport)])
Ptx1 == ObserverBook(Observe, {})
Ptx2 == ObserverBook(Observe2, {"attempt1"})
=============================================================================
