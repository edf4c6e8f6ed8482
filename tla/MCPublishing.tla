---------------------------- MODULE MCPublishing ----------------------------
(* Small instances of Publishing for TLC, one for each question asked of   *)
(* it: the pages, contents, home choices and evidence agents may stage.    *)
EXTENDS Publishing, TLC

CONSTANTS p1, p2, p3, r1, r2, s1, s2, m1, clean, warned, b1, claim1

\* Pages that exist from the start, where creating them is not at stake.
PagesInit ==
  /\ pages = [p \in Page |-> s1]
  /\ runs = [r \in Run |-> None]
  /\ drafts = [v \in RevisionId |-> None]
  /\ links = [v \in RevisionId |-> {}]
  /\ citations = [v \in RevisionId |-> [mk \in Marker |-> None]]
  /\ publications = [s \in Space |-> <<>>]
  /\ seen = [a \in Agent |-> None]

Plain ==
  [archived |-> FALSE, catalog |-> None, links |-> {}, relations |-> {}, markers |-> {},
   claims |-> {}, bundle |-> None, reviewed |-> FALSE, synced |-> None]

Archived == [Plain EXCEPT !.archived = TRUE]
LinkTo(p) == [Plain EXCEPT !.links = {p}]
Typed(catalog) == [Plain EXCEPT !.catalog = catalog]

Keep == [home |-> None, base |-> None, clear |-> FALSE]
Home(p, b) == [home |-> p, base |-> b, clear |-> FALSE]
Clear(b) == [home |-> None, base |-> b, clear |-> TRUE]

NoPassages == [q \in {} |-> s1]

\* navigation: archiving and linking races between the runs of one space.
NavigationContent == [p \in Page |-> IF p = p1 THEN {Plain, Archived} ELSE {Archived, LinkTo(p1)}]
NavigationChoice == {Keep, Home(p1, None), Clear(p1)}

\* catalog: run r1 has published document p1 and its destination p2; r2 and r3 may change
\* both, and add p3, a sync record of r2's destination or a second one for the same path.
Document == Typed("repository_document")
Destination ==
  [Typed("repository_destination") EXCEPT
     !.relations = {<<p1, "repository_document">>}, !.claims = {claim1}]
Sync ==
  [Typed("repository_sync") EXCEPT
     !.relations = {<<p2, "repository_destination">>}, !.synced = <<<<r2, p2>>, <<r1, p1>>>>]
Catalogs == {"repository_document", "repository_destination", "repository_sync"}
CatalogContent ==
  p1 :> {Document, Plain} @@ p2 :> {Destination} @@ p3 :> {Sync, Destination}
KeepOnly == {Keep}

CatalogInit ==
  LET published == p1 :> <<r1, p1>> @@ p2 :> <<r1, p2>> @@ p3 :> None IN
  /\ pages = [p \in Page |-> s1]
  /\ runs = [r \in Run |->
       IF r = r1 THEN [space |-> s1, status |-> "published", choice |-> Keep, revision |-> 2,
                          updated_by |-> None]
                 ELSE None]
  /\ drafts = [v \in RevisionId |->
       CASE v = <<r1, p1>> -> [base |-> None, content |-> Document]
         [] v = <<r1, p2>> -> [base |-> None, content |-> Destination]
         [] OTHER -> None]
  /\ links = [v \in RevisionId |-> IF v = <<r1, p2>> THEN {p1} ELSE {}]
  /\ citations = [v \in RevisionId |-> [mk \in Marker |-> None]]
  /\ publications = [s \in Space |-> <<[run |-> r1, manifest |-> published, home |-> None]>>]
  /\ seen = [a \in Agent |-> None]

CatalogSpec == CatalogInit /\ [][Next]_vars

\* evidence: p1 is a recording whose selected bundle carries timing warnings, p2 cites
\* passages of that bundle or of another source.
Recording(reviewed) ==
  [Typed("audio_recording") EXCEPT !.bundle = b1, !.reviewed = reviewed]
Citing == [Plain EXCEPT !.markers = {m1}]
EvidenceContent ==
  p1 :> {Recording(TRUE), Recording(FALSE), Archived} @@ p2 :> {Citing, Plain}
EvidenceSpace == clean :> s1 @@ warned :> s1
EvidenceBundle == clean :> None @@ warned :> b1

\* patches: two agents change the runs of two spaces; p1 cites, p2 links to p1, and a
\* passage of each space could be cited.
PatchesContent == p1 :> {Citing} @@ p2 :> {LinkTo(p1)}
PatchesChoice == {Keep, Home(p1, None)}
PatchesSpace == clean :> s1 @@ warned :> s2
PatchesBundle == clean :> None @@ warned :> None

RunSymmetry == Permutations(Run)
=============================================================================
