------------------------------- MODULE Clone -------------------------------
(* tools/prepare_clone.py and the packing of deploy/rehearsal/local_once.py: a  *)
(* recovered checkpoint is copied, and an isolated worker replaces in the copy  *)
(* every credential and binding of the source before a rehearsal may serve it.  *)
(* The configuration is taken as checked: its new passwords, URL and bucket are *)
(* not those of the source.                                                     *)
EXTENDS Recovery

CONSTANTS
  User,        \* accounts of the checkpoint
  Tester,      \* those the configuration gives a new password
  Operator,    \* superusers of the checkpoint
  Selected,    \* the one the configuration gives a new password
  MaxTouches   \* bound on what others do to the directories

VARIABLES
  clone,      \* the destination, or None
  before,     \* the source's fingerprint when the preparation began
  version,    \* the source's fingerprint now
  operator,   \* what the worker's maintenance token was issued under
  todo,       \* accounts on pages not read yet
  prepared,   \* the preparation receipt, or None
  verified,   \* the directory as verify_prepared last found it, or None
  packed,     \* what a rehearsal serves, or None
  step,       \* the running preparation's next step
  touches

cloneVars == <<clone, before, version, operator, todo, prepared, verified, packed, step, touches>>

Account == User \cup Operator
Collection == {"users", "_superusers"}
CollectionOf(a) == IF a \in User THEN "users" ELSE "_superusers"

Marked == {"source", "clone"}

\* What a destination holds of the source, and what has been replaced in it.
Copied == [version : 0 .. MaxTouches, frozen : BOOLEAN, binding : Marked,
           password : [Account -> Marked], disabled : SUBSET User,
           signing : [Collection -> Marked], external : SUBSET Collection]

ASSUME CloneAssumption ==
  /\ Tester \subseteq User /\ Selected \in Operator /\ MaxTouches \in Nat
  /\ None \notin Copied \union [password : Marked, signing : Marked]

\* The type invariant of the clone, its preparation and its receipt.
CloneTypeOK ==
  /\ {clone, prepared, verified, packed} \subseteq Copied \cup {None}
  /\ before \in 0 .. MaxTouches /\ version \in 0 .. MaxTouches
  /\ operator \in [password : Marked, signing : Marked] \cup {None}
  /\ todo \subseteq Account /\ touches \in 0 .. MaxTouches
  /\ step \in {"idle", "copy", "copied", "thaw", "settings", "users", "pages", "operators",
               "login", "rotate", "receipt", "pack"}

CloneInit ==
  /\ clone = None /\ prepared = None /\ verified = None /\ packed = None
  /\ operator = None
  /\ before = 0 /\ version = 0 /\ todo = {} /\ step = "idle" /\ touches = 0

\* prepare: only from a frozen checkpoint, and only into a new destination.
Begin ==
  /\ step = "idle" /\ clone = None
  /\ recovered # None /\ recovered.data.frozen
  /\ before' = version /\ step' = "copy"
  /\ UNCHANGED <<clone, version, operator, todo, prepared, verified, packed, touches>>

CopyFiles ==
  /\ step = "copy" /\ step' = "copied"
  /\ clone' = [version |-> version, frozen |-> TRUE, binding |-> "source",
               password |-> [a \in Account |-> "source"], disabled |-> {},
               signing |-> [c \in Collection |-> "source"], external |-> Collection]
  /\ UNCHANGED <<before, version, operator, todo, prepared, verified, packed, touches>>

Unchanged == version = before /\ clone.version = before

\* The worker's own command mints a token for the existing operator.
Issued(c) == [password |-> c.password[Selected], signing |-> c.signing["_superusers"]]

Mint ==
  /\ step = "copied" /\ Unchanged
  /\ operator' = Issued(clone) /\ step' = "thaw"
  /\ UNCHANGED <<clone, before, version, todo, prepared, verified, packed, touches>>

\* One request to the isolated server: it succeeds while the token is valid.
Request(label, next, result) ==
  /\ step = label /\ operator = Issued(clone)
  /\ clone' = result /\ step' = next
  /\ UNCHANGED <<before, version, operator, prepared, verified, packed, touches>>

ThawClone == Request("thaw", "settings", [clone EXCEPT !.frozen = FALSE]) /\ UNCHANGED todo

\* Application URL, mail, backups and object storage.
Settings == Request("settings", "users", [clone EXCEPT !.binding = "clone"]) /\ UNCHANGED todo

\* Providers and one-time passwords go, and the signing secrets change, together.
SecureUsers ==
  /\ Request("users", "pages",
       [clone EXCEPT !.signing["users"] = "clone", !.external = @ \ {"users"}])
  /\ todo' = User

\* Page by page, an account is given its test password or disabled.
PatchUser(u) ==
  /\ u \in todo /\ todo' = todo \ {u}
  /\ Request("pages", "pages", IF u \in Tester THEN [clone EXCEPT !.password[u] = "clone"]
                                              ELSE [clone EXCEPT !.disabled = @ \cup {u}])

SecureOperators ==
  /\ todo = {} /\ todo' = Operator \ {Selected}
  /\ Request("pages", "operators", [clone EXCEPT !.external = @ \ {"_superusers"}])

PatchOperator(o) ==
  /\ o \in todo /\ todo' = todo \ {o}
  /\ Request("operators", "operators", [clone EXCEPT !.password[o] = "clone"])

\* The new password ends the token; the next one ends with the old signing secrets.
PatchSelected ==
  /\ todo = {} /\ UNCHANGED todo
  /\ Request("operators", "login", [clone EXCEPT !.password[Selected] = "clone"])

Login ==
  /\ step = "login" /\ operator' = Issued(clone) /\ step' = "rotate"
  /\ UNCHANGED <<clone, before, version, todo, prepared, verified, packed, touches>>

Rotate ==
  Request("rotate", "receipt", [clone EXCEPT !.signing["_superusers"] = "clone"]) /\ UNCHANGED todo

\* The receipt names every file of the clone, and is the last thing written.
CloneReceipt ==
  /\ step = "receipt" /\ Unchanged
  /\ prepared' = clone /\ operator' = None /\ step' = "idle"
  /\ UNCHANGED <<clone, before, version, todo, verified, packed, touches>>

\* A failed or killed preparation or packing leaves its directory, and nobody goes on
\* with it.
Abandon ==
  /\ step # "idle" /\ step' = "idle" /\ operator' = None
  /\ UNCHANGED <<clone, before, version, todo, prepared, verified, packed, touches>>

\* The operator turns to another destination.
Elsewhere ==
  /\ step = "idle" /\ clone # None /\ packed = None
  /\ clone' = None /\ prepared' = None
  /\ UNCHANGED <<before, version, operator, todo, verified, packed, step, touches>>

\* A mutant: the receipt is believed without comparing the files it names.
PreparedBelieved == prepared # None

\* verify_prepared: a complete receipt, and exactly the files it names.
VerifyPrepared == prepared # None /\ prepared = clone

VerifyClone ==
  /\ step = "idle" /\ packed = None /\ VerifyPrepared
  /\ verified' = clone /\ step' = "pack"
  /\ UNCHANGED <<clone, before, version, operator, todo, prepared, packed, touches>>

\* prepared_archive looks at the image and then reads the directory a second time.
PackClone ==
  /\ step = "pack" /\ packed' = clone /\ step' = "idle"
  /\ UNCHANGED <<clone, before, version, operator, todo, prepared, verified, touches>>

---------------------------------------------------------------------------
\* Others: the recovered directory is opened, or the clone is started by hand with
\* the source's environment, which provisions its operator and storage again.

TouchSource ==
  /\ touches < MaxTouches /\ touches' = touches + 1
  /\ version' = version + 1
  /\ UNCHANGED <<clone, before, operator, todo, prepared, verified, packed, step>>

StartClone ==
  /\ touches < MaxTouches /\ touches' = touches + 1
  /\ step \in {"idle", "pack"} /\ clone # None
  /\ clone' = [clone EXCEPT !.password[Selected] = "source", !.binding = "source"]
  /\ UNCHANGED <<before, version, operator, todo, prepared, verified, packed, step>>

CloneNext ==
  \/ Begin \/ CopyFiles \/ Mint \/ ThawClone \/ Settings \/ SecureUsers \/ SecureOperators
  \/ \E a \in Account : PatchUser(a) \/ PatchOperator(a)
  \/ PatchSelected \/ Login \/ Rotate \/ CloneReceipt \/ Abandon \/ Elsewhere
  \/ VerifyClone \/ PackClone \/ TouchSource \/ StartClone

---------------------------------------------------------------------------
\* What a rehearsal serves writes nowhere the source does and admits nobody the source
\* would: no password, session or external identity of the source opens an account that
\* is not disabled, whatever failed, was killed or was touched before the directory was
\* verified.  It says nothing of a directory that is touched between the verification
\* and the archive, which prepared_archive does not notice.
CloneRevoked ==
  packed # None /\ packed = verified =>
    /\ packed.binding = "clone"
    /\ \A a \in Account \ packed.disabled :
         /\ packed.password[a] # "source"
         /\ CollectionOf(a) \notin packed.external
         /\ packed.signing[CollectionOf(a)] # "source"
=============================================================================
