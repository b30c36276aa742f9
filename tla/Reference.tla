------------------------------ MODULE Reference ------------------------------
(***************************************************************************)
(* The GPU reference run over the corpus (run_corpus_reference): the one   *)
(* experiment that is meant to be continued.  A new run archives the       *)
(* sources it runs from, writes run.json, and publishes one record a page; *)
(* --resume accepts the directory only with the configuration and the      *)
(* startup identity it was begun with, and every page it finds only if it  *)
(* belongs to them.  One process runs at a time.                           *)
(***************************************************************************)
EXTENDS Evidence

Image(page) == [page1 |-> "image1", page2 |-> "image2"][page]

(* preflight and selected_pages refuse; the identity is of the bytes read. *)
(* "options" is the command line and the manifest it names.                *)
Preflight       == Gate
SelectedPages   == Take({"options"}) \o Gate
CaptureIdentity == Take({"live"})

(* A new output directory is empty; its sources are archived, then bound.  *)
PreserveNew == Create("archive") \o Seal("archive") \o Create("identity") \o Seal("identity")
PrepareNew  == Fresh({"archive", "identity", "run", "page1", "page2", "summary"}) \o PreserveNew

(* A directory that is resumed has the same ones, whole.                   *)
PreserveOld   == Follow("identity", {"live", "archive"}) \o Check({"archive"}) \o Hash({"identity"})
PrepareResume == Follow("run", {"options", "live"}) \o PreserveOld \o Follow("run", {"identity"})

(* atomic_json: the record is there, whole, or it is not. *)
Publish(f) == Seal(f)
Running    == Fill("run")

CheckPage(page) == Pinned({Image(page)}) \o Check({Image(page)})
Completed(page) == Hash({page}) \o Follow(page, {"options", "live", Image(page)})
Infer(page)     == ReadBound({Image(page)}) \o Launch({}) \o Gate \o Publish(page)
NewPage(page)   == CheckPage(page) \o Fresh({page}) \o Infer(page)
OldPage(page)   == CheckPage(page) \o Either(page, Completed(page), Infer(page))
Complete        == Fill("summary") \o Fill("run")

StartReference  == Preflight \o SelectedPages \o CaptureIdentity \o PrepareNew \o Running
                   \o NewPage("page1") \o NewPage("page2") \o Complete
ResumeReference == Preflight \o SelectedPages \o CaptureIdentity \o PrepareResume \o Running
                   \o OldPage("page1") \o OldPage("page2") \o Complete

ReferenceRun ==
    [Family({"archive"}, {"identity", "run", "page1", "page2", "summary"}, {"page1", "page2", "summary"},
            {"options", "live", "image1", "image2"}, {"options", "live", "image1", "image2", "archive"},
            [start |-> Phase(StartReference), resume |-> Phase(ResumeReference)])
     EXCEPT !.kept = {"identity", "page1", "page2"}, !.again = {"resume"}]
=============================================================================
