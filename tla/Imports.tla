-------------------------------- MODULE Imports --------------------------------
(***************************************************************************)
(* The plans of the two importers: in which order they store the records   *)
(* of an import (module Ingest says how).                                  *)
(***************************************************************************)
EXTENDS Integers, Sequences, SequencesExt

\* Originals are stored under their digest.
Originals(sources) == [k \in DOMAIN sources |-> [key |-> sources[k], value |-> sources[k]]]

\* A rendition with notes that bind it to its import x, then its passages from 1 on.
Evidence(x, rendition, bodies) ==
  <<[key |-> rendition, value |-> [passages |-> Len(bodies), import |-> x]]>>
    \o [n \in DOMAIN bodies |-> [key |-> <<rendition, n>>, value |-> bodies[n]]]

\* ingest: the source and its text.
TextPlan(x, source, rendition, bodies) ==
  Originals(<<source>>) \o Evidence(x, rendition, bodies)

\* import_bundle: the recording and its transcript, then the bundle's manifest and other
\* files, the renditions made from those, and last the rendition that links them all.
BundlePlan(x, audio, transcript, files, derived, link) ==
  Originals(<<audio>>) \o Evidence(x, transcript.rendition, transcript.bodies)
    \o Originals(files)
    \o FlattenSeq([k \in DOMAIN derived |-> Evidence(x, derived[k].rendition, derived[k].bodies)])
    \o Evidence(x, link, <<>>)

=============================================================================
