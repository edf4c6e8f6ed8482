------------------------------- MODULE MCIngest -------------------------------
(* A text that two versions of the extraction tool split differently, and a bundle. *)
EXTENDS Ingest, Imports, TLC

CONSTANTS page, newer, older, audio, files, bundle, text, transcript, link, a, b

MCPlan ==
  older :> TextPlan(older, page, text, <<a, b>>)
    @@ newer :> TextPlan(newer, page, text, <<a>>)
    @@ bundle :> BundlePlan(bundle, audio, [rendition |-> transcript, bodies |-> <<a>>],
                            <<files>>, <<>>, link)

Page == [source |-> page, text |-> text]
Recording == [source |-> audio, text |-> None]

MCDocument == {Page, Recording}
MCImports == Page :> {older, newer} @@ Recording :> {bundle}

===============================================================================
