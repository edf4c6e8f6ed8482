----------------------------- MODULE IngestProofs -----------------------------
(***************************************************************************)
(* What module Ingest promises, for any clients, plans and failures.       *)
(*                                                                         *)
(* Records are never changed, so what a plan has stored stays stored       *)
(* (Extends, BegunKept).  A record on the server, or on its way there, is  *)
(* backed: it was asked for by an import that had stored everything before *)
(* it in its plan (Backed).  Since the notes of a rendition name the       *)
(* import, whoever stored a passage stored the rendition it belongs to.    *)
(***************************************************************************)
EXTENDS Ingest, TLAPS

-----------------------------------------------------------------------------
(* The invariant.  It is stated of any contents s of the server, so that its *)
(* parts can be compared before and after a step.                            *)

Contents == [Key -> Value \union {None}]

\* Record i of the plan of x is on the server.
In(s, x, i) == s[Plan[x][i].key] = Plan[x][i].value

\* The first n records of the plan of x are on the server.
Begun(s, x, n) == \A i \in 1..n : In(s, x, i)

\* A record that an import asked for in its turn.
Backed(s, record) ==
  \/ record.key \in Source /\ record.value = record.key
  \/ \E x \in Import : \E i \in DOMAIN Plan[x] : record = Plan[x][i] /\ Begun(s, x, i - 1)

AllBacked(s) == \A k \in Key : s[k] # None => Backed(s, [key |-> k, value |-> s[k]])

\* All passages of the text r are on the server, from one import.
Whole(s, r) ==
  /\ s[r] \in Notes
  /\ Begun(s, s[r].import, Len(Plan[s[r].import]))

\* A record of import x is there with another content.
Differs(s, x) ==
  \E i \in DOMAIN Plan[x] : s[Plan[x][i].key] \notin {None, Plan[x][i].value}

\* What a job has stored so far, and what its outcome says.
Sound(s, j) ==
  /\ j.mode # "failed" => j.doc \in Document
  /\ j.import # None => j.at <= Len(Plan[j.import]) /\ Begun(s, j.import, j.at - 1)
  /\ j.mode \in Running /\ j.import = None => j.doc.text # None
  /\ j.mode = "extract" => j.import = None /\ s[j.doc.source] = j.doc.source
  /\ j.mode = "done" => j.import # None /\ Begun(s, j.import, Len(Plan[j.import]))
  /\ j.mode = "reused" => j.doc.text # None /\ Whole(s, j.doc.text)
  /\ j.mode = "conflict" => j.import # None /\ Differs(s, j.import)

\* The inductive invariant.
IngestInv ==
  /\ TypeOK
  /\ AllBacked(stored)
  /\ \A request \in net : Backed(stored, request.record)
  /\ \A c \in Client : Sound(stored, job[c])

-----------------------------------------------------------------------------
(* Plans. *)

\* The records of a plan are typed, and their values are not None.
LEMMA PlanRecords ==
  ASSUME NEW x \in Import
  PROVE  /\ Len(Plan[x]) \in Nat /\ DOMAIN Plan[x] = 1..Len(Plan[x])
         /\ \A i \in DOMAIN Plan[x] :
              /\ Plan[x][i] = [key |-> Plan[x][i].key, value |-> Plan[x][i].value]
              /\ Plan[x][i] \in Record
              /\ Plan[x][i].key \in Key /\ Plan[x][i].value \in Value
              /\ Plan[x][i].value # None
<1>1. Plan[x] \in Seq(Record)
  BY ConstantsAssumption
<1>2. Len(Plan[x]) \in Nat /\ DOMAIN Plan[x] = 1..Len(Plan[x])
  BY <1>1
<1>3. ASSUME NEW i \in DOMAIN Plan[x]
      PROVE  Plan[x][i] \in Record
  BY <1>1, <1>3
<1>4. \A r \in Record : /\ r = [key |-> r.key, value |-> r.value]
                        /\ r.key \in Key /\ r.value \in Value
  BY DEF Record
<1> QED BY <1>2, <1>3, <1>4, ConstantsAssumption

\* The server never changes a record.
Extends(s, t) == \A k \in Key : s[k] # None => t[k] = s[k]

LEMMA BegunKept ==
  ASSUME NEW s, NEW t, Extends(s, t), NEW x \in Import, NEW n \in Nat, n <= Len(Plan[x]),
         Begun(s, x, n)
  PROVE  Begun(t, x, n)
<1> SUFFICES ASSUME NEW i \in 1..n PROVE In(t, x, i)
  BY DEF Begun
<1>1. i \in DOMAIN Plan[x]
  BY PlanRecords
<1>2. In(s, x, i)
  BY DEF Begun
<1> QED BY <1>1, <1>2, PlanRecords DEF In, Extends

LEMMA BackedKept ==
  ASSUME NEW s, NEW t, Extends(s, t), NEW record, Backed(s, record)
  PROVE  Backed(t, record)
<1>1. CASE record.key \in Source /\ record.value = record.key
  BY <1>1 DEF Backed
<1>2. CASE \E x \in Import : \E i \in DOMAIN Plan[x] :
             record = Plan[x][i] /\ Begun(s, x, i - 1)
  <2>1. PICK x \in Import : \E i \in DOMAIN Plan[x] :
               record = Plan[x][i] /\ Begun(s, x, i - 1)
    BY <1>2
  <2>2. PICK i \in DOMAIN Plan[x] : record = Plan[x][i] /\ Begun(s, x, i - 1)
    BY <2>1
  <2>3. i - 1 \in Nat /\ i - 1 <= Len(Plan[x])
    BY PlanRecords
  <2>4. Begun(t, x, i - 1)
    BY <2>2, <2>3, BegunKept
  <2> QED BY <2>2, <2>4 DEF Backed
<1> QED BY <1>1, <1>2 DEF Backed

LEMMA SoundKept ==
  ASSUME NEW s \in Contents, NEW t \in Contents, Extends(s, t), NEW j \in JobType, Sound(s, j)
  PROVE  Sound(t, j)
<1>0. None \notin Source /\ None \notin Notes
  BY ConstantsAssumption DEF Value
<1>1. j.import # None => j.import \in Import /\ j.at - 1 \in Nat
  BY DEF JobType
<1>2. j.import # None => j.at <= Len(Plan[j.import]) /\ Begun(t, j.import, j.at - 1)
  <2> SUFFICES ASSUME j.import # None PROVE Begun(t, j.import, j.at - 1)
    BY DEF Sound
  <2>1. j.at - 1 <= Len(Plan[j.import]) /\ Begun(s, j.import, j.at - 1)
    BY <1>1, PlanRecords DEF Sound, JobType
  <2> QED BY <1>1, <2>1, BegunKept
<1>3. j.mode = "extract" => j.import = None /\ t[j.doc.source] = j.doc.source
  <2> SUFFICES ASSUME j.mode = "extract" PROVE t[j.doc.source] = j.doc.source
    BY DEF Sound
  <2>1. j.doc.source \in Source /\ s[j.doc.source] = j.doc.source
    BY ConstantsAssumption DEF Sound, DocumentType
  <2> QED BY <1>0, <2>1 DEF Extends, Key
<1>4. j.mode = "done" => j.import # None /\ Begun(t, j.import, Len(Plan[j.import]))
  BY <1>1, PlanRecords, BegunKept DEF Sound
<1>5. j.mode = "reused" => j.doc.text # None /\ Whole(t, j.doc.text)
  <2> SUFFICES ASSUME j.mode = "reused" PROVE Whole(t, j.doc.text)
    BY DEF Sound
  <2>1. j.doc.text \in Rendition /\ Whole(s, j.doc.text)
    BY ConstantsAssumption DEF Sound, DocumentType
  <2>2. t[j.doc.text] = s[j.doc.text] /\ s[j.doc.text] \in Notes
    BY <1>0, <2>1 DEF Extends, Whole, Key
  <2>3. s[j.doc.text].import \in Import
    BY <2>2 DEF Notes
  <2>4. Begun(t, s[j.doc.text].import, Len(Plan[s[j.doc.text].import]))
    BY <2>1, <2>3, PlanRecords, BegunKept DEF Whole
  <2> QED BY <2>2, <2>4 DEF Whole
<1>6. j.mode = "conflict" => j.import # None /\ Differs(t, j.import)
  <2> SUFFICES ASSUME j.mode = "conflict" PROVE Differs(t, j.import)
    BY DEF Sound
  <2>1. j.import \in Import /\ Differs(s, j.import)
    BY <1>1 DEF Sound
  <2>2. PICK i \in DOMAIN Plan[j.import] :
               s[Plan[j.import][i].key] \notin {None, Plan[j.import][i].value}
    BY <2>1 DEF Differs
  <2>3. t[Plan[j.import][i].key] = s[Plan[j.import][i].key]
    BY <2>1, <2>2, PlanRecords DEF Extends
  <2> QED BY <2>2, <2>3 DEF Differs
<1> QED BY <1>2, <1>3, <1>4, <1>5, <1>6 DEF Sound
-----------------------------------------------------------------------------
(* What is on the server. *)

\* An original is stored under its digest.
LEMMA SourcesTrue ==
  ASSUME NEW s \in Contents, AllBacked(s), NEW o \in Source, s[o] # None
  PROVE  s[o] = o
<1>1. o \in Key /\ Backed(s, [key |-> o, value |-> s[o]])
  BY DEF AllBacked, Key
<1>2. CASE \E x \in Import : \E i \in DOMAIN Plan[x] : [key |-> o, value |-> s[o]] = Plan[x][i]
  <2>1. PICK x \in Import : \E i \in DOMAIN Plan[x] : [key |-> o, value |-> s[o]] = Plan[x][i]
    BY <1>2
  <2>2. PICK i \in DOMAIN Plan[x] : [key |-> o, value |-> s[o]] = Plan[x][i]
    BY <2>1
  <2>3. Plan[x][i].key = o /\ Plan[x][i].value = s[o]
    BY <2>2
  <2> QED BY <2>3, PlanAssumption
<1> QED BY <1>1, <1>2 DEF Backed

\* The notes of a rendition name the import that stored it, in its place of the plan.
LEMMA RenditionOfImport ==
  ASSUME NEW s \in Contents, AllBacked(s), NEW r \in Rendition, s[r] # None
  PROVE  /\ s[r] \in Notes /\ s[r].import \in Import
         /\ \E i \in DOMAIN Plan[s[r].import] :
              /\ Plan[s[r].import][i] = [key |-> r, value |-> s[r]]
              /\ Begun(s, s[r].import, i - 1)
<1>1. r \in Key /\ r \notin Source /\ Backed(s, [key |-> r, value |-> s[r]])
  BY KeyAssumption DEF AllBacked, Key
<1>2. PICK x \in Import : \E i \in DOMAIN Plan[x] :
             [key |-> r, value |-> s[r]] = Plan[x][i] /\ Begun(s, x, i - 1)
  BY <1>1 DEF Backed
<1>3. PICK i \in DOMAIN Plan[x] :
             [key |-> r, value |-> s[r]] = Plan[x][i] /\ Begun(s, x, i - 1)
  BY <1>2
<1>4. Plan[x][i].key = r /\ Plan[x][i].value = s[r]
  BY <1>3
<1>5. s[r] \in Notes /\ s[r].import = x
  BY <1>4, PlanAssumption
<1> QED BY <1>3, <1>5

\* A passage belongs to the import that its rendition names, and was stored in its place.
LEMMA PassageOfImport ==
  ASSUME NEW s \in Contents, AllBacked(s), NEW r \in Rendition, NEW n \in 1..MaxPassages,
         s[<<r, n>>] # None
  PROVE  /\ s[r] \in Notes /\ s[r].import \in Import
         /\ \E i \in DOMAIN Plan[s[r].import] :
              /\ Plan[s[r].import][i] = [key |-> <<r, n>>, value |-> s[<<r, n>>]]
              /\ Begun(s, s[r].import, i - 1)
<1>1. <<r, n>> \in Passage /\ <<r, n>> \in Key /\ <<r, n>> \notin Source
  BY KeyAssumption DEF Passage, Key
<1>2. Backed(s, [key |-> <<r, n>>, value |-> s[<<r, n>>]])
  BY <1>1 DEF AllBacked
<1>3. PICK x \in Import : \E i \in DOMAIN Plan[x] :
             [key |-> <<r, n>>, value |-> s[<<r, n>>]] = Plan[x][i] /\ Begun(s, x, i - 1)
  BY <1>1, <1>2 DEF Backed
<1>4. PICK i \in DOMAIN Plan[x] :
             [key |-> <<r, n>>, value |-> s[<<r, n>>]] = Plan[x][i] /\ Begun(s, x, i - 1)
  BY <1>3
<1>5. Plan[x][i].key = <<r, n>>
  BY <1>4
<1>6. PICK j \in 1..(i - 1) : Plan[x][j].key = <<r, n>>[1]
  BY <1>1, <1>5, PlanAssumption
<1>7. j \in DOMAIN Plan[x] /\ Plan[x][j].key = r
  BY <1>6, PlanRecords
<1>8. s[r] = Plan[x][j].value
  BY <1>4, <1>7 DEF Begun, In
<1>9. s[r] \in Notes /\ s[r].import = x
  BY <1>7, <1>8, PlanAssumption
<1> QED BY <1>4, <1>9

\* A complete rendition of a text was stored by one import, to its last record.
LEMMA CompleteIsWhole ==
  ASSUME NEW s \in Contents, AllBacked(s), NEW d \in Document, d.text # None,
         s[d.text] # None, s[d.text].passages > 0,
         s[<<d.text, s[d.text].passages>>] # None
  PROVE  Whole(s, d.text)
<1> PICK r : r = d.text
  OBVIOUS
<1>1. r \in Rendition
  BY ConstantsAssumption DEF DocumentType
<1>2. s[r] \in Notes /\ s[r].import \in Import
  BY <1>1, RenditionOfImport
<1>3. PICK i \in DOMAIN Plan[s[r].import] : Plan[s[r].import][i] = [key |-> r, value |-> s[r]]
  BY <1>1, RenditionOfImport
<1> PICK x \in Import : x = s[r].import
  BY <1>2
<1> PICK n \in 1..MaxPassages : n = s[r].passages
  BY <1>2, ConstantsAssumption DEF Notes
<1>4. Plan[x][Len(Plan[x])].key = <<r, n>>
  BY <1>3, TextAssumption
<1>5. s[<<r, n>>] # None
  OBVIOUS
<1>6. PICK k \in DOMAIN Plan[x] :
             Plan[x][k] = [key |-> <<r, n>>, value |-> s[<<r, n>>]] /\ Begun(s, x, k - 1)
  BY <1>1, <1>5, PassageOfImport
<1>7. <<r, n>> \notin Source
  BY <1>1, KeyAssumption DEF Passage
<1>8. k = Len(Plan[x])
  <2>1. Len(Plan[x]) \in DOMAIN Plan[x]
    BY <1>3, PlanRecords
  <2> QED BY <1>4, <1>6, <1>7, <2>1, PlanAssumption
<1>9. In(s, x, k)
  BY <1>6 DEF In
<1>10. Begun(s, x, Len(Plan[x]))
  BY <1>6, <1>8, <1>9, PlanRecords DEF Begun
<1> QED BY <1>2, <1>10 DEF Whole-----------------------------------------------------------------------------
(* Jobs. *)

\* What a client asks for is due: everything before it in its plan is stored.
LEMMA WantedBacked ==
  ASSUME IngestInv, NEW c \in Client, Active(c), job[c].mode # "extract"
  PROVE  Wanted(c) \in Record /\ Backed(stored, Wanted(c))
<1>1. job[c] \in JobType /\ Sound(stored, job[c])
  BY DEF IngestInv, TypeOK
<1>2. CASE job[c].import = None
  <2>1. job[c].doc.source \in Source
    BY <1>1, <1>2, ConstantsAssumption DEF Sound, Active, Running, DocumentType
  <2>2. Wanted(c) = [key |-> job[c].doc.source, value |-> job[c].doc.source]
    BY <1>2 DEF Wanted
  <2> QED BY <2>1, <2>2 DEF Backed, Record, Key, Value
<1>3. CASE job[c].import # None
  <2>1. job[c].import \in Import /\ job[c].at \in Nat \ {0}
    BY <1>1, <1>3 DEF JobType
  <2>2. job[c].at \in DOMAIN Plan[job[c].import] /\ Begun(stored, job[c].import, job[c].at - 1)
    BY <1>1, <1>3, <2>1, PlanRecords DEF Sound
  <2>3. Wanted(c) = Plan[job[c].import][job[c].at]
    BY <1>3 DEF Wanted
  <2> QED BY <2>1, <2>2, <2>3, PlanRecords DEF Backed
<1> QED BY <1>2, <1>3

\* Once the wanted record is stored, the job goes on rightly.
LEMMA AdvancedSound ==
  ASSUME IngestInv, NEW c \in Client, Active(c), job[c].mode # "extract",
         NEW t \in Contents, Extends(stored, t), t[Wanted(c).key] = Wanted(c).value
  PROVE  Advanced(c) \in JobType /\ Sound(t, Advanced(c))
<1>1. job[c] \in JobType /\ stored \in Contents /\ Sound(stored, job[c])
  BY DEF IngestInv, TypeOK, Contents
<1> PICK j \in JobType : j = job[c]
  BY <1>1
<1>2. Sound(t, j) /\ j.mode \in Running /\ j.mode # "extract"
  BY <1>1, SoundKept DEF Active
<1>3. CASE j.import = None
  <2>1. Advanced(c) = [j EXCEPT !.mode = "extract"]
    BY <1>3 DEF Advanced
  <2>2. t[j.doc.source] = j.doc.source
    BY <1>3 DEF Wanted
  <2>3. Advanced(c) \in JobType
    BY <2>1 DEF JobType, Running
  <2>4. /\ Advanced(c).mode = "extract" /\ Advanced(c).doc = j.doc
        /\ Advanced(c).import = None
    BY <1>3, <2>1 DEF JobType
  <2>5. j.doc \in Document /\ j.doc.text # None
    BY <1>2, <1>3 DEF Sound, Running
  <2> QED BY <2>2, <2>3, <2>4, <2>5 DEF Sound
<1>4. CASE j.import # None
  <2> PICK x \in Import : x = j.import
    BY <1>4 DEF JobType
  <2>1. /\ j.at \in Nat \ {0} /\ j.at <= Len(Plan[x]) /\ Len(Plan[x]) \in Nat
        /\ Begun(t, x, j.at - 1) /\ j.doc \in Document
    BY <1>2, <1>4, PlanRecords DEF Sound, JobType, Running
  <2>2. In(t, x, j.at)
    BY <1>4 DEF Wanted, In
  <2>3. Begun(t, x, j.at)
    BY <2>1, <2>2 DEF Begun
  <2>4. CASE j.at = Len(Plan[x])
    <3>1. Advanced(c) = [j EXCEPT !.mode = "done"]
      BY <1>4, <2>4 DEF Advanced
    <3>2. Advanced(c) \in JobType
      BY <3>1 DEF JobType, Running, Ended
    <3>3. /\ Advanced(c).mode = "done" /\ Advanced(c).doc = j.doc
          /\ Advanced(c).import = x /\ Advanced(c).at = j.at
      BY <3>1 DEF JobType
    <3> QED BY <1>4, <2>1, <2>3, <2>4, <3>2, <3>3 DEF Sound, Running
  <2>5. CASE j.at # Len(Plan[x])
    <3>1. Advanced(c) = [j EXCEPT !.at = j.at + 1, !.mode = "look"]
      BY <1>4, <2>5 DEF Advanced
    <3>2. Advanced(c) \in JobType
      <4>1. j.at + 1 \in Nat \ {0} /\ "look" \in Running \union Ended
        BY <2>1 DEF Running
      <4> QED BY <3>1, <4>1 DEF JobType
    <3>3. /\ Advanced(c).mode = "look" /\ Advanced(c).doc = j.doc
          /\ Advanced(c).import = x /\ Advanced(c).at = j.at + 1
      BY <2>1, <3>1 DEF JobType
    <3>4. Begun(t, x, (j.at + 1) - 1) /\ j.at + 1 <= Len(Plan[x])
      BY <2>1, <2>3, <2>5
    <3> QED BY <1>4, <2>1, <3>2, <3>3, <3>4 DEF Sound
  <2> QED BY <2>4, <2>5
<1> QED BY <1>3, <1>4

\* A record that is there is compared with what the plan wants.
LEMMA ComparedSound ==
  ASSUME IngestInv, NEW c \in Client, Active(c), job[c].mode # "extract",
         stored[Wanted(c).key] # None
  PROVE  Compared(c) \in JobType /\ Sound(stored, Compared(c))
<1>1. /\ job[c] \in JobType /\ stored \in Contents /\ Sound(stored, job[c])
      /\ AllBacked(stored)
  BY DEF IngestInv, TypeOK, Contents
<1>2. CASE stored[Wanted(c).key] = Wanted(c).value
  <2>1. Extends(stored, stored)
    BY DEF Extends
  <2> QED BY <1>1, <1>2, <2>1, AdvancedSound DEF Compared
<1>3. CASE stored[Wanted(c).key] # Wanted(c).value
  <2> PICK j \in JobType : j = job[c]
    BY <1>1
  <2>1. j.import # None
    <3>1. SUFFICES ASSUME j.import = None PROVE FALSE
      OBVIOUS
    <3>2. j.doc.source \in Source
      BY <1>1, ConstantsAssumption DEF Sound, Active, Running, DocumentType
    <3>3. Wanted(c) = [key |-> j.doc.source, value |-> j.doc.source]
      BY <3>1 DEF Wanted
    <3> QED BY <1>1, <1>3, <3>2, <3>3, SourcesTrue
  <2>2. PICK x \in Import : x = j.import
    BY <2>1 DEF JobType
  <2>3. j.at \in DOMAIN Plan[x] /\ j.doc \in Document
        /\ j.at <= Len(Plan[x]) /\ Begun(stored, x, j.at - 1)
    BY <1>1, <2>1, <2>2, PlanRecords DEF Sound, Active, Running, JobType
  <2>4. Differs(stored, x)
    BY <1>3, <2>1, <2>2, <2>3 DEF Wanted, Differs
  <2>5. Compared(c) = [j EXCEPT !.mode = "conflict"]
    BY <1>3 DEF Compared
  <2>6. Compared(c) \in JobType
    BY <2>5 DEF JobType, Ended
  <2>7. /\ Compared(c).mode = "conflict" /\ Compared(c).doc = j.doc
        /\ Compared(c).import = x /\ Compared(c).at = j.at
    BY <2>2, <2>5 DEF JobType
  <2> QED BY <2>1, <2>2, <2>3, <2>4, <2>6, <2>7 DEF Sound, Running
<1> QED BY <1>2, <1>3

\* Waiting, looking again and giving up claim nothing new.
LEMMA PausedSound ==
  ASSUME NEW s, NEW j \in JobType, j.mode \in Running, Sound(s, j),
         NEW m \in {"wait", "relook", "failed"}, NEW n \in 0..MaxFailures
  PROVE  /\ [j EXCEPT !.mode = m] \in JobType /\ Sound(s, [j EXCEPT !.mode = m])
         /\ [j EXCEPT !.mode = m, !.attempt = n] \in JobType
         /\ Sound(s, [j EXCEPT !.mode = m, !.attempt = n])
<1>1. ASSUME NEW k \in JobType, k.doc = j.doc, k.import = j.import, k.at = j.at, k.mode = m
      PROVE  Sound(s, k)
  BY <1>1 DEF Sound, Running
<1>2. [j EXCEPT !.mode = m] \in JobType /\ [j EXCEPT !.mode = m, !.attempt = n] \in JobType
  BY DEF JobType, Running, Ended
<1> QED BY <1>1, <1>2 DEF JobType

\* The job of one client changes and others' claims are kept.
LEMMA JobStep ==
  ASSUME IngestInv, NEW c \in Client, NEW e \in JobType, job' = [job EXCEPT ![c] = e],
         stored' \in Contents, Extends(stored, stored'), Sound(stored', e)
  PROVE  /\ job' \in [Client -> JobType]
         /\ \A d \in Client : Sound(stored', job'[d])
         /\ \A d \in Client : job'[d].import # None => job'[d].at <= Len(Plan[job'[d].import])
<1>1. job \in [Client -> JobType] /\ stored \in Contents
  BY DEF IngestInv, TypeOK, Contents
<1>2. job' \in [Client -> JobType]
  BY <1>1
<1>3. ASSUME NEW d \in Client PROVE Sound(stored', job'[d])
  <2>1. CASE d = c
    BY <1>1, <2>1
  <2>2. CASE d # c
    <3>1. job'[d] = job[d] /\ job[d] \in JobType /\ Sound(stored, job[d])
      BY <1>1, <2>2 DEF IngestInv
    <3> QED BY <1>1, <3>1, SoundKept
  <2> QED BY <2>1, <2>2
<1>4. \A d \in Client : job'[d].import # None => job'[d].at <= Len(Plan[job'[d].import])
  BY <1>3 DEF Sound
<1> QED BY <1>2, <1>3, <1>4-----------------------------------------------------------------------------
(* Steps. *)

\* Nothing of the server's changes.
LEMMA ClientStep ==
  ASSUME IngestInv, NEW c \in Client, NEW e \in JobType, job' = [job EXCEPT ![c] = e],
         stored' = stored, net' = net, Sound(stored, e),
         cache' \in [Client -> [Document -> Import \union {None}]], failures' \in 0..MaxFailures
  PROVE  IngestInv'
<1>1. stored \in Contents /\ Extends(stored, stored)
  BY DEF IngestInv, TypeOK, Contents, Extends
<1>2. stored' \in Contents /\ Extends(stored, stored') /\ Sound(stored', e)
  BY <1>1
<1>3. /\ job' \in [Client -> JobType]
      /\ \A d \in Client : Sound(stored', job'[d])
      /\ \A d \in Client : job'[d].import # None => job'[d].at <= Len(Plan[job'[d].import])
  BY <1>2, JobStep
<1>4. TypeOK'
  BY <1>3 DEF IngestInv, TypeOK
<1> QED BY <1>3, <1>4 DEF IngestInv

\* A request goes out, of what is wanted.
LEMMA SendKeeps ==
  ASSUME IngestInv, NEW c \in Client, Active(c), job[c].mode # "extract", Send(c),
         UNCHANGED <<stored, cache, failures>>
  PROVE  IngestInv'
<1>1. /\ stored \in Contents /\ Extends(stored, stored) /\ job[c] \in JobType
      /\ Sound(stored, job[c]) /\ failures \in 0..MaxFailures
  BY DEF IngestInv, TypeOK, Contents, Extends
<1> PICK e : e = [job[c] EXCEPT !.mode = "wait", !.attempt = failures]
  OBVIOUS
<1>2. e \in JobType /\ Sound(stored, e)
  BY <1>1, PausedSound DEF Active
<1>3. job' = [job EXCEPT ![c] = e]
  BY DEF Send
<1>4. /\ job' \in [Client -> JobType]
      /\ \A d \in Client : Sound(stored', job'[d])
      /\ \A d \in Client : job'[d].import # None => job'[d].at <= Len(Plan[job'[d].import])
  <2>1. stored' \in Contents /\ Extends(stored, stored') /\ Sound(stored', e)
    BY <1>1, <1>2
  <2> QED BY <1>2, <1>3, <2>1, JobStep
<1>5. PICK request : request = [client |-> c, record |-> Wanted(c), attempt |-> failures]
  OBVIOUS
<1>6. request \in RequestType /\ request.record = Wanted(c)
  BY <1>1, <1>5, WantedBacked DEF RequestType
<1>7. net' = net \union {request}
  BY <1>5 DEF Send
<1>8. net' \subseteq RequestType
  BY <1>6, <1>7 DEF IngestInv, TypeOK
<1>9. \A q \in net' : Backed(stored', q.record)
  BY <1>6, <1>7, WantedBacked DEF IngestInv
<1>10. TypeOK'
  BY <1>4, <1>8 DEF IngestInv, TypeOK
<1> QED BY <1>4, <1>9, <1>10 DEF IngestInv

LEMMA StartKeeps ==
  ASSUME IngestInv, NEW c \in Client, NEW d \in Document, Start(c, d)
  PROVE  IngestInv'
<1>1. PICK x \in IF d.text # None THEN {None} ELSE Imports[d] :
             job' = [job EXCEPT ![c] = [Idle EXCEPT !.doc = d, !.import = x, !.mode = "look"]]
  BY DEF Start
<1>2. PICK e : e = [doc |-> d, import |-> x, at |-> 1, mode |-> "look", attempt |-> 0]
  OBVIOUS
<1>3. x \in Import \union {None} /\ (x # None => x \in Imports[d]) /\ (x = None => d.text # None)
  BY ConstantsAssumption
<1>4. e \in JobType
  BY <1>2, <1>3, ConstantsAssumption DEF JobType, Running
<1>5. Sound(stored, e)
  <2>1. ASSUME x # None PROVE 1 <= Len(Plan[x])
    <3>1. x \in Imports[d] /\ x \in Import
      BY <1>3, <2>1
    <3>2. Len(Plan[x]) > 1 /\ Len(Plan[x]) \in Nat
      BY <3>1, SourceAssumption, PlanRecords
    <3> QED BY <3>2
  <2>2. Begun(stored, x, e.at - 1)
    BY <1>2 DEF Begun
  <2>3. e.mode = "look" /\ e.doc = d /\ e.import = x /\ e.at = 1
    BY <1>2
  <2> QED BY <1>3, <2>1, <2>2, <2>3 DEF Sound
<1>6. job' = [job EXCEPT ![c] = e] /\ stored' = stored /\ net' = net
  BY <1>1, <1>2 DEF Start, Idle
<1>7. cache' \in [Client -> [Document -> Import \union {None}]] /\ failures' \in 0..MaxFailures
  BY DEF Start, IngestInv, TypeOK
<1> QED BY <1>4, <1>5, <1>6, <1>7, ClientStep

LEMMA LookKeeps ==
  ASSUME IngestInv, NEW c \in Client, Look(c)
  PROVE  IngestInv'
<1>1. Active(c) /\ job[c].mode # "extract"
  BY DEF Look, Active, Running
<1>2. CASE stored[Wanted(c).key] = None
  BY <1>1, <1>2, SendKeeps DEF Look
<1>3. CASE stored[Wanted(c).key] # None
  <2>1. job' = [job EXCEPT ![c] = Compared(c)] /\ stored' = stored /\ net' = net
        /\ cache' = cache /\ failures' = failures
    BY <1>3 DEF Look
  <2>2. Compared(c) \in JobType /\ Sound(stored, Compared(c))
    BY <1>1, <1>3, ComparedSound
  <2>3. cache' \in [Client -> [Document -> Import \union {None}]] /\ failures' \in 0..MaxFailures
    BY <2>1 DEF IngestInv, TypeOK
  <2> QED BY <2>1, <2>2, <2>3, ClientStep
<1> QED BY <1>2, <1>3

LEMMA RelookKeeps ==
  ASSUME IngestInv, NEW c \in Client, Relook(c)
  PROVE  IngestInv'
<1>1. Active(c) /\ job[c].mode # "extract" /\ job[c].mode \in Running
  BY DEF Relook, Active, Running
<1>2. /\ stored' = stored /\ net' = net /\ job[c] \in JobType /\ Sound(stored, job[c])
      /\ cache' \in [Client -> [Document -> Import \union {None}]] /\ failures' \in 0..MaxFailures
      /\ job \in [Client -> JobType]
  BY DEF Relook, IngestInv, TypeOK
<1>3. CASE stored[Wanted(c).key] = None
  <2>1. job' = [job EXCEPT ![c] = [job[c] EXCEPT !.mode = "failed"]]
    BY <1>2, <1>3 DEF Relook
  <2>2. MaxFailures \in Nat /\ 0 \in 0..MaxFailures
    BY ConstantsAssumption
  <2>3. [job[c] EXCEPT !.mode = "failed"] \in JobType
        /\ Sound(stored, [job[c] EXCEPT !.mode = "failed"])
    BY <1>1, <1>2, <2>2, PausedSound
  <2> QED BY <1>2, <2>1, <2>3, ClientStep
<1>4. CASE stored[Wanted(c).key] # None
  <2>1. job' = [job EXCEPT ![c] = Compared(c)]
    BY <1>2, <1>4 DEF Relook
  <2>2. Compared(c) \in JobType /\ Sound(stored, Compared(c))
    BY <1>1, <1>4, ComparedSound
  <2> QED BY <1>2, <2>1, <2>2, ClientStep
<1> QED BY <1>3, <1>4

LEMMA ExtractKeeps ==
  ASSUME IngestInv, NEW c \in Client, Extract(c)
  PROVE  IngestInv'
<1>1. /\ stored \in Contents /\ AllBacked(stored) /\ job[c] \in JobType /\ Sound(stored, job[c])
      /\ job \in [Client -> JobType] /\ failures \in 0..MaxFailures
      /\ cache \in [Client -> [Document -> Import \union {None}]]
      /\ stored' = stored /\ net' = net /\ failures' = failures /\ job[c].mode = "extract"
  BY DEF Extract, IngestInv, TypeOK, Contents
<1> PICK j \in JobType : j = job[c]
  BY <1>1
<1> PICK d \in Document : d = j.doc
  BY <1>1 DEF Sound
<1>2. d.text # None /\ d.text \in Rendition /\ stored[d.source] = d.source /\ j.import = None
  BY <1>1, ConstantsAssumption DEF Sound, Running, DocumentType
<1>3. CASE Complete(d.text)
  <2>1. job' = [job EXCEPT ![c] = [j EXCEPT !.mode = "reused"]] /\ cache' = cache
    BY <1>1, <1>3 DEF Extract, Mode
  <2>2. Whole(stored, d.text)
    <3>1. stored[d.text] # None /\ stored[d.text].passages > 0
      BY <1>3 DEF Complete
    <3>2. stored[d.text].passages \in 1..MaxPassages
      <4>1. stored[d.text] \in Notes
        BY <1>1, <1>2, <3>1, RenditionOfImport
      <4> QED BY <3>1, <4>1, ConstantsAssumption DEF Notes
    <3>3. stored[<<d.text, stored[d.text].passages>>] # None
      BY <1>3, <3>2 DEF Complete
    <3> QED BY <1>1, <1>2, <3>1, <3>3, CompleteIsWhole
  <2>3. [j EXCEPT !.mode = "reused"] \in JobType
    BY DEF JobType, Ended
  <2>4. Sound(stored, [j EXCEPT !.mode = "reused"])
    BY <1>2, <2>2 DEF Sound, Running, JobType
  <2> QED BY <1>1, <2>1, <2>3, <2>4, ClientStep
<1>4. CASE ~ Complete(d.text)
  <2>1. PICK x \in Imports[d] :
               /\ cache' = [cache EXCEPT ![c][d] = x]
               /\ job' = [job EXCEPT ![c].import = x, ![c].at = 2, ![c].mode = "look"]
    BY <1>1, <1>4 DEF Extract
  <2> PICK e : e = [j EXCEPT !.import = x, !.at = 2, !.mode = "look"]
    OBVIOUS
  <2>2. x \in Import
    BY ConstantsAssumption
  <2>3. job' = [job EXCEPT ![c] = e]
    BY <1>1, <2>1
  <2>4. e \in JobType
    <3>1. "look" \in Running \union Ended /\ 2 \in Nat \ {0}
      BY DEF Running
    <3> QED BY <2>2, <3>1 DEF JobType
  <2>5. e.mode = "look" /\ e.doc = d /\ e.import = x /\ e.at = 2
    BY DEF JobType
  <2>6. 2 <= Len(Plan[x]) /\ Begun(stored, x, 2 - 1)
    <3>1. Len(Plan[x]) > 1 /\ Plan[x][1] = [key |-> d.source, value |-> d.source]
      BY SourceAssumption
    <3>2. In(stored, x, 1)
      BY <1>2, <3>1 DEF In
    <3> QED BY <2>2, <3>1, <3>2, PlanRecords DEF Begun
  <2>7. x # None
    BY <2>2, ConstantsAssumption
  <2>8. Sound(stored, e)
    BY <2>5, <2>6, <2>7 DEF Sound
  <2>9. cache' \in [Client -> [Document -> Import \union {None}]]
    BY <1>1, <2>1, <2>2
  <2> QED BY <1>1, <2>3, <2>4, <2>8, <2>9, ClientStep
<1> QED BY <1>3, <1>4
LEMMA ServeKeeps ==
  ASSUME IngestInv, NEW request \in net, Serve(request)
  PROVE  IngestInv'
<1>1. /\ stored \in Contents /\ AllBacked(stored) /\ job \in [Client -> JobType]
      /\ request \in RequestType /\ Backed(stored, request.record)
      /\ net' = net \ {request} /\ cache' = cache /\ failures' = failures
  BY DEF IngestInv, TypeOK, Contents, Serve
<1> PICK k \in Key, v \in Value : k = request.record.key /\ v = request.record.value
  BY <1>1 DEF RequestType, Record
<1> PICK c \in Client : c = request.client
  BY <1>1 DEF RequestType
<1>2. stored' = IF stored[k] = None THEN [stored EXCEPT ![k] = v] ELSE stored
  BY DEF Serve
<1>3. v # None /\ stored \in [Key -> Value \union {None}]
  BY <1>1, ConstantsAssumption DEF Contents
<1>4. stored' \in Contents /\ Extends(stored, stored')
  BY <1>2, <1>3 DEF Extends, Contents
<1>5. AllBacked(stored')
  <2> SUFFICES ASSUME NEW n \in Key, stored'[n] # None
               PROVE  Backed(stored', [key |-> n, value |-> stored'[n]])
    BY DEF AllBacked
  <2>1. CASE stored[n] # None
    <3>1. stored'[n] = stored[n] /\ Backed(stored, [key |-> n, value |-> stored[n]])
      BY <1>1, <1>4, <2>1 DEF Extends, AllBacked
    <3> QED BY <1>4, <3>1, BackedKept
  <2>2. CASE stored[n] = None
    <3>1. n = k /\ stored'[n] = v
      BY <1>2, <1>3, <2>2
    <3>2. request.record = [key |-> n, value |-> stored'[n]]
      BY <1>1, <3>1 DEF RequestType, Record
    <3> QED BY <1>1, <1>4, <3>2, BackedKept
  <2> QED BY <2>1, <2>2
<1>6. \A q \in net' : Backed(stored', q.record)
  BY <1>1, <1>4, BackedKept DEF IngestInv
<1>7. PICK e \in JobType : job' = [job EXCEPT ![c] = e] /\ Sound(stored', e)
  <2>1. CASE ~ Awaits(c, request)
    <3>1. job' = [job EXCEPT ![c] = job[c]]
      BY <1>1, <2>1 DEF Serve
    <3>2. job[c] \in JobType /\ Sound(stored, job[c])
      BY <1>1 DEF IngestInv
    <3> QED BY <1>1, <1>4, <3>1, <3>2, SoundKept
  <2>2. CASE Awaits(c, request)
    <3>1. Active(c) /\ job[c].mode # "extract" /\ job[c].mode \in Running
          /\ k = Wanted(c).key /\ v = Wanted(c).value
      BY <2>2 DEF Awaits, Active, Running
    <3>2. CASE stored[k] = None
      <4>1. job' = [job EXCEPT ![c] = Advanced(c)]
        BY <2>2, <3>2 DEF Serve
      <4>2. stored'[Wanted(c).key] = Wanted(c).value
        BY <1>2, <1>3, <3>1, <3>2
      <4>3. Advanced(c) \in JobType /\ Sound(stored', Advanced(c))
        BY <1>4, <3>1, <4>2, AdvancedSound
      <4> QED BY <4>1, <4>3
    <3>3. CASE stored[k] # None
      <4>1. job' = [job EXCEPT ![c] = [job[c] EXCEPT !.mode = "relook"]] /\ stored' = stored
        BY <1>1, <1>2, <2>2, <3>3 DEF Serve
      <4>2. job[c] \in JobType /\ Sound(stored, job[c]) /\ 0 \in 0..MaxFailures
        BY <1>1, ConstantsAssumption DEF IngestInv
      <4>3. [job[c] EXCEPT !.mode = "relook"] \in JobType
            /\ Sound(stored, [job[c] EXCEPT !.mode = "relook"])
        BY <3>1, <4>2, PausedSound
      <4> QED BY <4>1, <4>3
    <3> QED BY <3>2, <3>3
  <2> QED BY <2>1, <2>2
<1>8. /\ job' \in [Client -> JobType]
      /\ \A d \in Client : Sound(stored', job'[d])
      /\ \A d \in Client : job'[d].import # None => job'[d].at <= Len(Plan[job'[d].import])
  BY <1>4, <1>7, JobStep
<1>9. TypeOK'
  BY <1>1, <1>4, <1>8 DEF IngestInv, TypeOK, Contents
<1> QED BY <1>5, <1>6, <1>8, <1>9 DEF IngestInv

\* A client that waits, or is killed, is left with less to claim.
LEMMA PauseKeeps ==
  ASSUME IngestInv, NEW c \in Client, Active(c), stored' = stored, cache' = cache,
         net' \subseteq net, failures' \in 0..MaxFailures,
         \/ job' = [job EXCEPT ![c].mode = "relook"]
         \/ job' = [job EXCEPT ![c] = Idle]
  PROVE  IngestInv'
<1>1. /\ stored \in Contents /\ job \in [Client -> JobType] /\ Extends(stored, stored)
      /\ job[c] \in JobType /\ Sound(stored, job[c]) /\ job[c].mode \in Running
      /\ 0 \in 0..MaxFailures
  BY ConstantsAssumption DEF IngestInv, TypeOK, Contents, Active, Extends
<1>2. PICK e \in JobType : job' = [job EXCEPT ![c] = e] /\ Sound(stored, e)
  <2>1. CASE job' = [job EXCEPT ![c].mode = "relook"]
    <3>1. job' = [job EXCEPT ![c] = [job[c] EXCEPT !.mode = "relook"]]
      BY <1>1, <2>1
    <3>2. [job[c] EXCEPT !.mode = "relook"] \in JobType
          /\ Sound(stored, [job[c] EXCEPT !.mode = "relook"])
      BY <1>1, PausedSound
    <3> QED BY <3>1, <3>2
  <2>2. CASE job' = [job EXCEPT ![c] = Idle]
    <3>1. Idle \in JobType /\ Idle.mode = "failed" /\ Idle.import = None
      BY <1>1 DEF Idle, JobType, Ended
    <3>2. Sound(stored, Idle)
      BY <3>1 DEF Sound, Running
    <3> QED BY <2>2, <3>1, <3>2
  <2> QED BY <2>1, <2>2
<1>3. /\ job' \in [Client -> JobType]
      /\ \A d \in Client : Sound(stored', job'[d])
      /\ \A d \in Client : job'[d].import # None => job'[d].at <= Len(Plan[job'[d].import])
  <2>1. stored' \in Contents /\ Extends(stored, stored') /\ Sound(stored', e)
    BY <1>1, <1>2
  <2> QED BY <1>2, <2>1, JobStep
<1>4. TypeOK'
  BY <1>3 DEF IngestInv, TypeOK
<1> QED BY <1>3, <1>4 DEF IngestInv

LEMMA LoseKeeps ==
  ASSUME IngestInv, NEW request \in net, Lose(request)
  PROVE  IngestInv'
<1>1. /\ net' \subseteq net /\ failures' \in 0..MaxFailures /\ stored' = stored /\ cache' = cache
      /\ request.client \in Client
  BY ConstantsAssumption DEF Lose, Failure, IngestInv, TypeOK, RequestType
<1>2. CASE Awaits(request.client, request)
  <2>1. /\ job' = [job EXCEPT ![request.client].mode = "relook"]
        /\ Active(request.client)
    BY <1>2 DEF Lose, Awaits, Active, Running
  <2> QED BY <1>1, <2>1, PauseKeeps
<1>3. CASE ~ Awaits(request.client, request)
  <2>1. job' = job
    BY <1>3 DEF Lose
  <2> QED BY <1>1, <2>1 DEF IngestInv, TypeOK
<1> QED BY <1>2, <1>3

-----------------------------------------------------------------------------
(* The theorems. *)

LEMMA InitHolds == Init => IngestInv
<1> SUFFICES ASSUME Init PROVE IngestInv
  OBVIOUS
<1>1. Idle \in JobType /\ Idle.mode = "failed" /\ Idle.import = None
  BY ConstantsAssumption DEF Idle, JobType, Ended
<1>2. Sound(stored, Idle)
  BY <1>1 DEF Sound, Running
<1>3. AllBacked(stored)
  BY DEF Init, AllBacked
<1>4. TypeOK
  BY <1>1, ConstantsAssumption DEF Init, TypeOK
<1> QED BY <1>2, <1>3, <1>4 DEF Init, IngestInv

LEMMA StepHolds == IngestInv /\ [Next]_vars => IngestInv'
<1> SUFFICES ASSUME IngestInv, [Next]_vars PROVE IngestInv'
  OBVIOUS
<1>1. CASE \E c \in Client, d \in Document : Start(c, d)
  BY <1>1, StartKeeps
<1>2. CASE \E c \in Client : Progress(c)
  BY <1>2, LookKeeps, RelookKeeps, ExtractKeeps DEF Progress
<1>3. CASE \E request \in net : Serve(request)
  BY <1>3, ServeKeeps
<1>4. CASE \E request \in net : Lose(request)
  BY <1>4, LoseKeeps
<1>5. CASE \E c \in Client : GiveUp(c) \/ Kill(c)
  <2>1. PICK c \in Client : GiveUp(c) \/ Kill(c)
    BY <1>5
  <2>2. /\ Active(c) /\ stored' = stored /\ cache' = cache /\ net' \subseteq net
        /\ failures' \in 0..MaxFailures
    BY <2>1, ConstantsAssumption DEF GiveUp, Kill, Failure, IngestInv, TypeOK, Active, Running
  <2>3. \/ job' = [job EXCEPT ![c].mode = "relook"]
        \/ job' = [job EXCEPT ![c] = Idle]
    BY <2>1 DEF GiveUp, Kill, Mode
  <2> QED BY <2>2, <2>3, PauseKeeps
<1>6. CASE UNCHANGED vars
  BY <1>6 DEF vars, IngestInv, TypeOK
<1> QED BY <1>1, <1>2, <1>3, <1>4, <1>5, <1>6 DEF Next

LEMMA InvariantHolds == Spec => []IngestInv
BY InitHolds, StepHolds, PTL DEF Spec

\* Whatever clients, plans and failures there are, the tables, requests and jobs keep their
\* shapes, and no client's place is beyond its plan.
THEOREM IngestTypes == Spec => []TypeOK
<1>1. IngestInv => TypeOK
  BY DEF IngestInv
<1> QED BY <1>1, InvariantHolds, PTL

\* Concurrent, interrupted and repeated imports never mix their passages in a rendition.
THEOREM RenditionsStayUnmixed == Spec => []UnmixedRenditions
<1>1. ASSUME IngestInv, NEW r \in Rendition, NEW n \in 1..MaxPassages, stored[<<r, n>>] # None
      PROVE  /\ stored[r] # None
             /\ \E i \in DOMAIN Plan[stored[r].import] :
                  Plan[stored[r].import][i] = [key |-> <<r, n>>, value |-> stored[<<r, n>>]]
  <2>1. stored \in Contents /\ AllBacked(stored)
    BY <1>1 DEF IngestInv, TypeOK, Contents
  <2>2. stored[r] \in Notes
    BY <1>1, <2>1, PassageOfImport
  <2> QED BY <1>1, <2>1, <2>2, PassageOfImport, ConstantsAssumption DEF Value
<1>2. IngestInv => UnmixedRenditions
  BY <1>1 DEF UnmixedRenditions
<1> QED BY <1>2, InvariantHolds, PTL

\* Whatever of an import is on the server, everything before it in its plan is too; so a
\* bundle's link record exists only when all that it links does.
THEOREM PlansStoredInOrder == Spec => []StoredInOrder
<1>1. ASSUME IngestInv, NEW x \in Import, NEW i \in DOMAIN Plan[x], StoredFor(x, i)
      PROVE  Begun(stored, x, i - 1)
  <2>1. stored \in Contents /\ AllBacked(stored)
    BY <1>1 DEF IngestInv, TypeOK, Contents
  <2> PICK k \in Key : k = Plan[x][i].key
    BY PlanRecords
  <2>2. PICK m \in DOMAIN Plan[x] : Plan[x][m].key = k /\ Begun(stored, x, m - 1)
    <3>1. CASE k \in Rendition /\ stored[k].import = x
      <4>1. stored[k] # None
        BY <1>1 DEF StoredFor
      <4>2. PICK m \in DOMAIN Plan[x] :
                   Plan[x][m] = [key |-> k, value |-> stored[k]] /\ Begun(stored, x, m - 1)
        BY <2>1, <3>1, <4>1, RenditionOfImport
      <4>3. Plan[x][m].key = k
        BY <4>2
      <4> QED BY <4>2, <4>3
    <3>2. CASE k \in Passage /\ stored[k[1]] # None /\ stored[k[1]].import = x
      <4>1. PICK r \in Rendition, n \in 1..MaxPassages : k = <<r, n>>
        BY <3>2 DEF Passage
      <4>2. k[1] = r /\ stored[<<r, n>>] # None /\ stored[r].import = x
        BY <1>1, <3>2, <4>1 DEF StoredFor
      <4>3. PICK m \in DOMAIN Plan[x] :
                   /\ Plan[x][m] = [key |-> <<r, n>>, value |-> stored[<<r, n>>]]
                   /\ Begun(stored, x, m - 1)
        BY <2>1, <4>1, <4>2, PassageOfImport
      <4>4. Plan[x][m].key = k
        BY <4>1, <4>3
      <4> QED BY <4>3, <4>4
    <3> QED BY <1>1, <3>1, <3>2 DEF StoredFor
  <2>3. k \notin Source
    BY <1>1, KeyAssumption DEF StoredFor, Passage
  <2>4. m = i
    BY <2>2, <2>3, PlanAssumption
  <2> QED BY <2>2, <2>4
<1>2. IngestInv => StoredInOrder
  BY <1>1 DEF StoredInOrder, Begun, In
<1> QED BY <1>2, InvariantHolds, PTL

\* An import that reports success has everything on the server, a reused rendition all its
\* passages from one import, and a conflict is one.
THEOREM OutcomesAreHonest == Spec => []HonestOutcomes
<1>1. ASSUME IngestInv, NEW c \in Client
      PROVE  /\ job[c].mode = "done" =>
                  \A i \in DOMAIN Plan[job[c].import] : In(stored, job[c].import, i)
             /\ job[c].mode = "reused" =>
                  \A i \in DOMAIN Plan[stored[job[c].doc.text].import] :
                    In(stored, stored[job[c].doc.text].import, i)
             /\ job[c].mode = "conflict" => Differs(stored, job[c].import)
  <2>1. job[c] \in JobType /\ Sound(stored, job[c])
    BY <1>1 DEF IngestInv, TypeOK
  <2>2. job[c].import # None => job[c].import \in Import
    BY <2>1 DEF JobType
  <2>3. ASSUME job[c].mode = "done"
        PROVE  \A i \in DOMAIN Plan[job[c].import] : In(stored, job[c].import, i)
    BY <2>1, <2>2, <2>3, PlanRecords DEF Sound, Begun
  <2>4. ASSUME job[c].mode = "reused"
        PROVE  \A i \in DOMAIN Plan[stored[job[c].doc.text].import] :
                 In(stored, stored[job[c].doc.text].import, i)
    <3>1. Whole(stored, job[c].doc.text)
      BY <2>1, <2>4 DEF Sound
    <3>2. stored[job[c].doc.text].import \in Import
      BY <3>1 DEF Whole, Notes
    <3> QED BY <3>1, <3>2, PlanRecords DEF Whole, Begun
  <2>5. job[c].mode = "conflict" => Differs(stored, job[c].import)
    BY <2>1 DEF Sound
  <2> QED BY <2>3, <2>4, <2>5
<1>2. IngestInv => HonestOutcomes
  BY <1>1 DEF HonestOutcomes, In, Differs
<1> QED BY <1>2, InvariantHolds, PTL
=============================================================================
