----------------------------- MODULE EvidenceMC -----------------------------
EXTENDS Crossover, Telescope, Operators, Observer, Corpus, Quantization, Serving, Inference
MCBook == [layer8 |-> Layer8, layer7 |-> Layer7, block0 |-> Block0, downstream |-> Downstream, telescope |-> TelescopeV1,
           probe |-> Probe, w2 |-> W2, rms768 |-> Rms768, rsqrt |-> Rsqrt, scales |-> Scales,
           identity |-> Identity, workspace |-> Workspace, ptx1 |-> Ptx1, ptx2 |-> Ptx2,
           aocl |-> Aocl, functional |-> Functional, official |-> Official, snapshot |-> Snapshot,
           scalar |-> ScalarProbe, avx2 |-> Avx2Probe, real |-> RealProbe, reference |-> ReferenceRun,
           pages |-> OfficialPages, vllm |-> VllmFullPages, heldout |-> HeldoutPages, harness |-> HarnessRefs,
           replay |-> Exp2Replay]
All == DOMAIN MCBook
Scenario(of, alive, mixed, edited, killed, resumed) ==
    [families |-> of, invocations |-> alive, mixed |-> mixed, edits |-> edited, kills |-> killed, restarts |-> resumed]
MCScenarios == {Scenario(All, 1, FALSE, 1, 0, 1),
                Scenario(All \ {"layer8", "ptx2", "official", "reference", "heldout", "harness", "replay"}, 2, FALSE, 0, 1, 0),
                Scenario({"block0"}, 2, TRUE, 0, 0, 0),
                Scenario({"official"}, 1, FALSE, 0, 1, 3),
                Scenario({"reference", "heldout", "harness"}, 1, FALSE, 1, 2, 3)}
MCOutline == Inferred
=============================================================================
