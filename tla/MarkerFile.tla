------------------------------ MODULE MarkerFile ------------------------------
(***************************************************************************)
(* The text of compaction.pending, line by line: what                      *)
(* write_compaction_marker of src/src/store.rs writes, and the loop in     *)
(* which read_compaction_marker takes a marker apart, of any text.         *)
(***************************************************************************)
EXTENDS Integers, Sequences, FiniteSets

CONSTANTS
  Gens,       \* generations that a text may give, 0 among them
  NoGen,      \* output_generation before a line has given it
  NaN,        \* a text that does not parse as a number
  Magic,      \* COMPACTION_MARKER_MAGIC
  Blank,      \* a line of white space
  Junk,       \* a line of any other form
  MaxLines    \* bound: lines of a marker that was not written by the store

Field(f, g) == [field |-> f, gen |-> g]
Fields == [field : {"output", "old"}, gen : Gens \cup {NaN}]
Lines == {Magic, Blank, Junk} \cup Fields

ASSUME MarkerAssumption ==
  /\ Gens \subseteq Nat /\ {NoGen, NaN} \cap Gens = {}
  /\ {Magic, Junk} \cap (Fields \cup {Blank}) = {} /\ Blank \notin Fields
  /\ MaxLines \in Nat

(* The output and the segments it replaces.                                *)
Markers == [output : Gens, old : SUBSET Gens]
NoMarker == [output |-> NoGen, old |-> {}]

VARIABLES
  file,      \* the lines of compaction.pending
  next,      \* the line that is read next
  outputGen, \* output_generation
  old,       \* old_generations
  outcome,   \* "reading", "accepted" or "refused"
  written    \* the marker that the store wrote, or NoMarker; a history

markerVars == <<file, next, outputGen, old, outcome, written>>

(* What the text promises recovery: Store's WellFormed.                    *)
WellFormed(m) ==
  /\ m.output \in Gens
  /\ Cardinality(m.old) >= 2
  /\ \A g \in m.old : g < m.output

(* The generations of the open segments, from 1 on, come newest first.     *)
Written(m) ==
  {<<Magic, Field("output", m.output)>> \o [i \in DOMAIN l |-> Field("old", l[i])] :
     l \in {s \in [1..Cardinality(m.old) -> m.old] :
             \A i, j \in DOMAIN s : i < j => s[i] > s[j]}}

MarkerInit ==
  /\ \/ \E m \in Markers :
            WellFormed(m) /\ 0 \notin m.old /\ written = m /\ file \in Written(m)
     \/ /\ \E n \in 0..MaxLines : file \in [1..n -> Lines]
        /\ written = NoMarker
  /\ next = 1
  /\ outputGen = NoGen
  /\ old = {}
  /\ outcome = "reading"

Refuse ==
  /\ outcome' = "refused"
  /\ UNCHANGED <<file, next, outputGen, old, written>>

Line(l) == outcome = "reading" /\ next > 1 /\ next <= Len(file) /\ file[next] = l
TakeLine == next' = next + 1 /\ UNCHANGED <<file, outcome, written>>

ReadHeader ==
  /\ outcome = "reading" /\ next = 1
  /\ IF file # <<>> /\ file[1] = Magic
     THEN TakeLine /\ UNCHANGED <<outputGen, old>>
     ELSE Refuse

SkipBlank == Line(Blank) /\ TakeLine /\ UNCHANGED <<outputGen, old>>

ReadOutput ==
  \E l \in Fields :
    /\ l.field = "output" /\ Line(l)
    /\ IF outputGen # NoGen \/ l.gen = NaN
       THEN Refuse
       ELSE outputGen' = l.gen /\ UNCHANGED old /\ TakeLine

(* An old generation may be listed twice.                                  *)
ReadOld_bug ==
  \E l \in Fields :
    /\ l.field = "old" /\ Line(l)
    /\ IF l.gen = NaN
       THEN Refuse
       ELSE old' = old \cup {l.gen} /\ UNCHANGED outputGen /\ TakeLine

(* Numbers are compared, not texts: a leading zero makes no difference.    *)
ReadOld ==
  \E l \in Fields :
    /\ l.field = "old" /\ Line(l)
    /\ IF l.gen = NaN \/ l.gen \in old
       THEN Refuse
       ELSE old' = old \cup {l.gen} /\ UNCHANGED outputGen /\ TakeLine

(* A second header is as unknown as any other line.                        *)
RefuseUnknown == (Line(Junk) \/ Line(Magic)) /\ Refuse

(* The last checks, one too strict about the number of segments.           *)
Complete_bug == outputGen # NoGen /\ Cardinality(old) > 2 /\ \A g \in old : g < outputGen

(* The checks after the last line.                                         *)
Complete == outputGen # NoGen /\ Cardinality(old) >= 2 /\ \A g \in old : g < outputGen

Finish ==
  /\ outcome = "reading" /\ next > 1 /\ next > Len(file)
  /\ IF Complete
     THEN outcome' = "accepted" /\ UNCHANGED <<file, next, outputGen, old, written>>
     ELSE Refuse

MarkerNext ==
  \/ ReadHeader \/ SkipBlank \/ ReadOutput \/ ReadOld \/ RefuseUnknown
  \/ Finish

MarkerSpec == MarkerInit /\ [][MarkerNext]_markerVars

-----------------------------------------------------------------------------
(* The markers that a text denotes, by its form: a header, one output and  *)
(* the old segments, each once, in any order, between blank lines.         *)
LinesFor(f) == {i \in DOMAIN file : file[i] \in Fields /\ file[i].field = f}
Denoted ==
  {m \in Markers :
     /\ WellFormed(m)
     /\ file # <<>> /\ file[1] = Magic
     /\ \A i \in 2..Len(file) : file[i] \in Fields \cup {Blank}
     /\ Cardinality(LinesFor("output")) = 1
     /\ \A i \in LinesFor("output") : file[i].gen = m.output
     /\ {file[i].gen : i \in LinesFor("old")} = m.old
     /\ Cardinality(LinesFor("old")) = Cardinality(m.old)}

(* Recovery acts on a text if and only if its form is right, and then on   *)
(* the one marker it denotes: the Store's model may keep that marker for   *)
(* the file.                                                               *)
ReadsByForm ==
  /\ outcome = "accepted" => Denoted = {[output |-> outputGen, old |-> old]}
  /\ outcome = "refused" => Denoted = {}

(* A marker that the store wrote is never refused, and reads as written:   *)
(* a pending compaction does not keep its own store from being opened.     *)
WrittenReadsBack ==
  written # NoMarker =>
    /\ outcome # "refused"
    /\ outcome = "accepted" => written = [output |-> outputGen, old |-> old]

=============================================================================
