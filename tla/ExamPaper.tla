------------------------------ MODULE ExamPaper ------------------------------
(***************************************************************************)
(* The paper of an exam simulation and the result of a sitting: pure       *)
(* functions from a configuration, an editor's selection, the catalog of   *)
(* questions and a log of answers.                                         *)
(***************************************************************************)
EXTENDS Integers, SequencesExt, FiniteSetsExt

CONSTANTS
  None,
  Questions,
  Versions,    \* content fingerprints of a question
  Answers,
  Offers       \* the sets of answers a question may offer

ASSUME PaperAssumption == None \notin Answers \cup Versions /\ Offers \subseteq SUBSET Answers

\* What the database holds of a question: a row of this exam, or nothing.  The version is
\* the fingerprint of its wording and options: it leaves out the key, and what
\* normalization drops from the options.
Entries ==
  [section : STRING, version : Versions, options : Offers, key : Answers,
   published : BOOLEAN, sourced : BOOLEAN]

\* An answer key as it is read: with the version it was found at.
AnswerKeys == [version : Versions, correct : Answers]

-----------------------------------------------------------------------------
(* The configuration: sections [name, order, count], a duration, a provenance. *)

ValidConfig(config) ==
  /\ config.duration > 0
  /\ config.sections # <<>>
  /\ \A i \in DOMAIN config.sections :
       /\ config.sections[i].order > 0
       /\ config.sections[i].count > 0
       /\ \A j \in DOMAIN config.sections \ {i} :
            /\ config.sections[i].name # config.sections[j].name
            /\ config.sections[i].order # config.sections[j].order
  /\ config.kind = "canonical" => config.reviewed

OrderedSections(config) ==
  SetToSortSeq(ToSet(config.sections), LAMBDA s, t : s.order < t.order)

Selected(selection, name) == IF name \in DOMAIN selection THEN selection[name] ELSE <<>>

\* The selection laid out in the order of the sections.
Layout(config, selection) ==
  FlattenSeq([k \in DOMAIN config.sections |->
    LET name == OrderedSections(config)[k].name IN
    [i \in DOMAIN Selected(selection, name) |->
       [section |-> name, question |-> Selected(selection, name)[i]]]])

Admissible(entry, section) ==
  /\ entry # None
  /\ entry.published
  /\ entry.section = section
  /\ entry.sourced

\* No problem is found with the selection.
Assembles(config, selection, catalog) ==
  /\ DOMAIN selection \subseteq {s.name : s \in ToSet(config.sections)}
  /\ \A s \in ToSet(config.sections) : Len(Selected(selection, s.name)) = s.count
  /\ LET places == Layout(config, selection) IN
     /\ \A i, j \in DOMAIN places : places[i].question = places[j].question => i = j
     /\ \A i \in DOMAIN places : Admissible(catalog[places[i].question], places[i].section)

\* Positions are the indices of the sequence; each question is fixed at its version.
Paper(config, selection, catalog) ==
  [i \in DOMAIN Layout(config, selection) |->
    LET place == Layout(config, selection)[i] IN
    [section |-> place.section, question |-> place.question,
     version |-> catalog[place.question].version]]

-----------------------------------------------------------------------------
(* The log: events [position, answer, at], in the order of acceptance. *)

At(events, position) == {i \in DOMAIN events : events[i].position = position}

\* Mutant of Current: the first answer.
FirstOf(events, position) ==
  IF At(events, position) = {} THEN None
  ELSE events[CHOOSE i \in At(events, position) : \A j \in At(events, position) : i <= j].answer

\* The answer of a position is its last event's.
Current(events, position) ==
  IF At(events, position) = {} THEN None
  ELSE events[CHOOSE i \in At(events, position) : \A j \in At(events, position) : j <= i].answer

\* How many events changed the answer of their position.
Changes(events, position) ==
  Cardinality({i \in At(events, position) :
    LET before == {j \in At(events, position) : j < i} IN
    before # {} /\ events[Max(before)].answer # events[i].answer})

\* The key was found at the version on the paper.
Graded(place, key) == key # None /\ key.version = place.version

Outcome(place, events, position, key) ==
  LET answer == Current(events, position) IN
  [chosen |-> answer,
   grading |-> IF answer = None THEN "unanswered"
               ELSE IF Graded(place, key) THEN "graded" ELSE "question_content_changed",
   correct |-> IF answer = None \/ ~Graded(place, key) THEN "none"
               ELSE IF answer = key.correct THEN "correct" ELSE "incorrect",
   changes |-> Changes(events, position),
   first |-> IF answer = None THEN None ELSE events[Min(At(events, position))].at,
   last |-> IF answer = None THEN None ELSE events[Max(At(events, position))].at]

\* keys[q]: the answer key read of question q.
Result(paper, events, keys) ==
  [i \in DOMAIN paper |-> Outcome(paper[i], events, i, keys[paper[i].question])]

=============================================================================
