--------------------------------- MODULE Vault ---------------------------------
(***************************************************************************)
(* What the exporter promises the owner of a vault directory: the vault    *)
(* changes by edits of its owner, one file each, and by whole exports.  An *)
(* export takes place only while every file of the previous one is as it   *)
(* was exported, it overwrites no file that the exporter does not own, and *)
(* a vault stays with one space (src/README.md:359, src/docs/data-model.md *)
(* "Queries and export").                                                  *)
(***************************************************************************)
CONSTANTS
  File,           \* files under the vault's raw/ and wiki/ directories
  Manifest,       \* the file with the ownership manifest
  Publication,    \* publications that can be exported
  Rendered,       \* Rendered[p][f]: what publication p renders file f to, or None
  Origin,         \* Origin[p]: the server and the space of p
  CompanySpace,   \* the space that adopts exports older than spaces
  EditContent,    \* what the owner writes
  None

VARIABLE vault    \* vault[f]: the content of f, None while there is no such file

Owned == IF vault[Manifest] = None THEN {} ELSE {f \in File : vault[Manifest].files[f] # None}

Untouched == \A f \in Owned : vault[f] = vault[Manifest].files[f]

BelongsTo(p) ==
  vault[Manifest] # None =>
    /\ vault[Manifest].server = Origin[p].server
    /\ Origin[p].space =
         IF vault[Manifest].space = None THEN CompanySpace ELSE vault[Manifest].space

\* A vault that is new, or as a former export left it.
Init == Untouched

\* The owner changes, removes or restores one file.
Edit(f) ==
  /\ vault'[f] \in EditContent \union {None} \union {Rendered[p][f] : p \in Publication}
  /\ vault' = [vault EXCEPT ![f] = vault'[f]]

Export(p) ==
  /\ Untouched
  /\ BelongsTo(p)
  /\ vault'[Manifest].files = Rendered[p]
  /\ vault'[Manifest].server = Origin[p].server /\ vault'[Manifest].space = Origin[p].space
  /\ \A f \in File :
       \/ vault'[f] = Rendered[p][f] /\ (vault[f] = None \/ f \in Owned)
       \/ vault'[f] = vault[f] /\ Rendered[p][f] = None /\ f \notin Owned

Next == (\E f \in File : Edit(f)) \/ (\E p \in Publication : Export(p))

Spec == Init /\ [][Next]_vault

=============================================================================
