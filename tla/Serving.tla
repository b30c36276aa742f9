------------------------------- MODULE Serving -------------------------------
(***************************************************************************)
(* Full pages through the engines the program is compared with: the        *)
(* official plain engine in process, and a vLLM server over HTTP.  The     *)
(* three-page runs own a directory and are made once; the held-out pages   *)
(* are requested until they are all there, and are then imported and       *)
(* scored.  And the exp2 arguments of the BF16 attention, frozen on the CPU *)
(* and replayed on the GPU.  Here inputs are hashed again, or only, after   *)
(* the inference, and no record says that they stayed the same.            *)
(***************************************************************************)
EXTENDS Observer, Corpus, Reference

Golden(page) == [page1 |-> "golden1", page2 |-> "golden2"][page]
Pages        == {"page1", "page2"}
Images       == {Image(page) : page \in Pages}
Goldens      == {Golden(page) : page \in Pages}

(* run_official_fullpages: the lock's digests are those of the first       *)
(* images; image and golden record are hashed again for the page's record. *)
StartPages == Fresh({"dir", "report"}) \o Reads({"lock"} \cup Goldens) \o ValidRecord
              \o Pinned(Images) \o Check(Images) \o Preflight \o Gate \o Create("dir")
ArchiveSources == Place("sources") \o Reads({"live"}) \o Fill("sources") \o Hash({"sources"})
PageThrough(page) == Launch({Image(page)}) \o Gate \o Hash({Image(page), Golden(page)}) \o Write(page)
PagesThrough == ArchiveSources \o Hash({"lock"}) \o Write("run")
                \o PageThrough("page1") \o PageThrough("page2") \o Write("report") \o Write("run")

OfficialPages ==
    [Family({"dir", "sources"}, {"run", "report"} \cup Pages, {}, {"lock", "live"} \cup Images \cup Goldens,
            {"live"} \cup Images \cup Goldens, [pages |-> Phase(StartPages \o PagesThrough)])
     EXCEPT !.kept = {"report"} \cup Pages]
-----------------------------------------------------------------------------
(* request_vllm_fullpages: the request as sent and the answer as received  *)
(* are kept for every page.                                                *)
Sent(page)    == [page1 |-> "sent1", page2 |-> "sent2"][page]
Answer(page)  == [page1 |-> "answer1", page2 |-> "answer2"][page]
Exchange      == {Sent(page) : page \in Pages} \cup {Answer(page) : page \in Pages}
StartRequests == Fresh({"report", "sources"}) \o Reads({"environment", "lock"}) \o Gate
                 \o Create("sources") \o Reads({"live"}) \o Fill("sources") \o Hash({"sources"}) \o Gate
Request(page) == Reads({Golden(page)}) \o ValidRecord \o Pinned({Image(page)}) \o Check({Image(page)})
                 \o Gate \o Reads({Image(page)}) \o Write(Sent(page))
                 \o Launch({}) \o Write(Answer(page)) \o Gate
                 \o Hash({Image(page), Golden(page), Sent(page), Answer(page)}) \o Write(page)
VllmPages     == StartRequests \o Request("page1") \o Request("page2") \o Hash({"lock"}) \o Write("report")

(* finalize_vllm_reference: the report is read, completed and written over. *)
Finalize == Follow("report", {"lock", "sources"} \cup Images \cup Goldens \cup Exchange)
            \o Reads({"audit"}) \o Gate \o Hash({"audit"}) \o Reads({"installed"}) \o Hash({"log"})
            \o Write("report")

VllmFullPages ==
    [Family({"sources"} \cup Exchange, {"report"} \cup Pages, {},
            {"lock", "live", "environment", "audit", "installed", "log"} \cup Images \cup Goldens,
            {"live", "audit"} \cup Images, [request |-> Phase(VllmPages), finalize |-> Phase(Finalize)])
     EXCEPT !.kept = Pages, !.again = {"finalize"}]
-----------------------------------------------------------------------------
(* request_vllm_heldout: a page that is there is not asked for again; the  *)
(* token and top-k files are made of whole pages only, since every page is *)
(* parsed again.                                                           *)
HeldoutPage(page) == Either(page, <<>>, Reads({Image(page)}) \o Launch({}) \o Gate \o Write(page))
Summarize         == Follow("page1", {}) \o Reads({"page1"}) \o Follow("page2", {}) \o Reads({"page2"})
                     \o Write("tokens") \o Write("top")
RequestHeldout    == Gate \o Reads({"lock"}) \o HeldoutPage("page1") \o HeldoutPage("page2") \o Summarize

(* gpu_harness import-vllm turns the pages into references, parsing every  *)
(* file of the directory; the harness makes references of its own as well,  *)
(* and score reads all of them.                                            *)
Ref(page)        == [page1 |-> "ref1", page2 |-> "ref2"][page]
Parsed(f)        == Either(f, Follow(f, {}), <<>>)
ImportVllm(page) == Either(page, Follow(page, {}) \o Reads({page}) \o Gate \o Write(Ref(page)), <<>>)
Import           == ImportVllm("page1") \o ImportVllm("page2") \o Parsed("tokens") \o Parsed("top")
HarnessPage(page) == Either(Ref(page), <<>>, Reads({Image(page)}) \o Launch({}) \o Write(Ref(page)))
HarnessPages     == HarnessPage("page1") \o HarnessPage("page2")
LoadRefs         == Parsed("ref1") \o Parsed("ref2")
ScorePages       == Reads(Images) \o Gate
Score            == Reads({"overlay"}) \o LoadRefs \o ScorePages \o Write("scores")

HeldoutRecords == {"tokens", "top", "ref1", "ref2", "scores"} \cup Pages
HeldoutPages ==
    [Family({}, HeldoutRecords, {}, {"lock", "overlay"} \cup Images, Images,
            [request |-> Phase(RequestHeldout), import |-> Phase(Import), score |-> Phase(Score)])
     EXCEPT !.kept = Pages, !.again = {"request", "import", "score"}]
HarnessRefs ==
    [Family({}, HeldoutRecords, {}, {"overlay"} \cup Images, Images,
            [reference |-> Phase(HarnessPages), score |-> Phase(Score)])
     EXCEPT !.kept = {"ref1", "ref2"}, !.again = {"reference", "score"}]
-----------------------------------------------------------------------------
(* prepare_bf16_exp2_arguments: the saved tiles and the CPU probe as they  *)
(* were reported; every digest is then taken again for the manifest.       *)
PrepareArguments ==
    Fresh({"argdir"}) \o Reads({"causality"}) \o Pinned({"analysis"}) \o Check({"analysis"}) \o Reads({"analysis", "gputiles"})
    \o Pinned({"gputiles"}) \o Check({"gputiles"}) \o Hash({"gputiles", "causality", "analysis"})
    \o Pinned({"cputiles"}) \o Check({"cputiles"}) \o Hash({"cputiles"}) \o Reads({"cputiles"}) \o Gate
    \o Pinned({"probe"}) \o Check({"probe"}) \o Reads({"probe"}) \o Gate
    \o Create("argdir") \o Write("arguments") \o Hash({"probe", "causality", "arguments"}) \o Write("argmanifest")

(* export_bf16_exp2_replay: a fused capture joins in when its report was   *)
(* accepted, and only with the bytes the report names.                     *)
(* A rejected report is named in the record without being rested on.       *)
FusedCapture ==
    Either("substages", IfAccepted("substages", Hash({"substages"}) \o Gate \o Follow("substages", {"capture"})
                                                \o Check({"capture"}) \o Reads({"capture"}) \o Hash({"capture"})), <<>>)
ReplayArguments ==
    Fresh({"replaydir"}) \o Preflight \o Follow("argmanifest", {"arguments"}) \o Check({"arguments"})
    \o Reads({"arguments"}) \o FusedCapture \o Create("replaydir") \o Take({"script"})
    \o Launch({}) \o Write("replayed") \o Gate \o Hash({"argmanifest", "replayed"}) \o Write("replay")

Exp2Replay ==
    Family({"subdir", "argdir", "replaydir", "arguments", "replayed"} \cup Control, {"substages", "argmanifest", "replay"}, {},
           {"live", "fixture", "causality", "analysis", "gputiles", "cputiles", "probe", "script"},
           {"gputiles", "cputiles", "arguments"},
           [substages |-> Phase(Substages \o SubstagesReport), arguments |-> Phase(PrepareArguments),
            replay |-> Phase(ReplayArguments)])
=============================================================================
