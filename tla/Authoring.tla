------------------------------ MODULE Authoring ------------------------------
(***************************************************************************)
(* The questions table as content authoring, the importer of candidates    *)
(* and the publication decision write it.  Every write is a Serializable   *)
(* transaction on the current row; but a request to validate, review or    *)
(* publish lists the questions of the exam before its transaction, and     *)
(* judges by that list.                                                    *)
(* A question is judged by what the gates tell apart in it:                *)
(*   text     its wording                                                  *)
(*   print    the fingerprint of wording and options                       *)
(*   answer   the answer it claims                                         *)
(*   derived  "none" without an arithmetic derivation, else whether the    *)
(*            recomputation "holds" or "fails"                             *)
(*   sound    none of the gates on structure, metadata, dna, concept,      *)
(*            pattern, difficulty, time and provenance fails               *)
(*   hard     its tier requires human review                               *)
(***************************************************************************)
EXTENDS Integers, FiniteSets, TLC

CONSTANTS
  None,
  Ids,       \* question ids of one exam
  Items,     \* the contents a question may have
  Alike,     \* pairs of texts whose words overlap by 60 % or more
  Requests,
  Reviews,         \* what a reviewer may have to say
  Rederivations,   \* answers of a second, independent derivation
  MaxWork          \* bound: operations asked for

ASSUME GatesAssumption ==
  /\ None \notin Ids
  /\ Items \subseteq
       [text : STRING, print : STRING, cell : STRING, answer : STRING,
        derived : {"none", "holds", "fails"}, sound : BOOLEAN, hard : BOOLEAN]
  /\ \A i \in Items : <<i.text, i.text>> \in Alike
  /\ \A pair \in Alike : <<pair[2], pair[1]>> \in Alike

States == {"draft", "ai_validated", "human_reviewed", "published", "rejected"}

Terminal == {"published", "rejected"}

Origins == {"human_authored", "ai_generated", "unknown"}

YesNo == {"yes", "no"}

ASSUME AuthoringAssumption ==
  /\ MaxWork \in Nat
  /\ None \in Rederivations
  /\ Reviews \subseteq [verified : YesNo, distinct : YesNo]

Prints == {i.print : i \in Items}

\* `via` records what published the question, `seed` what a generated id is made of.
RowType ==
  [item : Items, origin : Origins, state : States, review : Reviews \cup {None},
   rederived : Rederivations, index : Prints \cup {None},
   via : {"none", "gates", "decision"}, seed : (Nat \X Prints) \cup {None}]

\* None is nothing that a column may hold or a table may list.
ASSUME NoneAssumption ==
  /\ None \notin Reviews
  /\ None \notin Prints
  /\ None \notin RowType
  /\ None \notin [item : Items, state : States]

VARIABLES
  rows,     \* rows of questions, None when the id is free
  reqs,     \* requests that have listed the questions, and wait to write
  work      \* operations asked for so far

content == <<rows, reqs, work>>

Decisions == {"approve", "reject"}

Row(item, origin, state, rederived, index, seed) ==
  [item |-> item, origin |-> origin, state |-> state, review |-> None,
   rederived |-> rederived, index |-> index, via |-> "none", seed |-> seed]

Idle ==
  [pc |-> "idle", op |-> "none", id |-> None, review |-> None, decision |-> "none",
   refs |-> None]

AuthoringInit ==
  /\ rows = [id \in Ids |-> None]
  /\ reqs = [r \in Requests |-> Idle]
  /\ work = 0

Works == work < MaxWork /\ work' = work + 1

Live(id) == rows[id] # None /\ rows[id].state # "rejected"

\* The partial unique index on the stored fingerprints of the questions not rejected.
Collides(id, row) ==
  /\ row.index # None
  /\ row.state # "rejected"
  /\ \E o \in Ids \ {id} : Live(o) /\ rows[o].index = row.index

-----------------------------------------------------------------------------
(* The gates, and the rule of publication *)

\* What a listing says of the questions of the exam.
Refs(table) ==
  [id \in Ids |-> IF table[id] = None THEN None
                  ELSE [print |-> table[id].item.print, text |-> table[id].item.text,
                        state |-> table[id].state]]

Verified(q) == q.review # None /\ q.review.verified = "yes"

\* The word of whoever wrote the question is not enough.
Cautious(q) == q.origin # "human_authored" /\ ~Verified(q)

\* A recomputation that fails is final; a second derivation must agree.
AnswerFails(q) ==
  \/ q.item.derived = "fails"
  \/ q.item.derived = "holds" /\ Cautious(q) /\ q.rederived \notin {None, q.item.answer}

AnswerOpen(q) ==
  \/ q.item.derived = "none" /\ ~Verified(q)
  \/ q.item.derived = "holds" /\ Cautious(q) /\ q.rederived = None

Others(id, refs) == {o \in Ids \ {id} : refs[o] # None /\ refs[o].state # "rejected"}

IsTwin(q, id, refs) == \E o \in Others(id, refs) : refs[o].print = q.item.print

IsNear(q, id, refs) == \E o \in Others(id, refs) : <<refs[o].text, q.item.text>> \in Alike

IdentityOpen(q, id, refs) ==
  /\ ~IsTwin(q, id, refs)
  /\ IsNear(q, id, refs)
  /\ ~(q.review # None /\ q.review.distinct = "yes")

ReviewFails(q) ==
  q.review = None /\ (q.state = "human_reviewed" \/ (q.item.hard /\ q.state = "published"))

ReviewOpen(q) == q.item.hard /\ q.state \notin {"human_reviewed", "published"}

Failed(q, id, refs) ==
  {gate \in {"content", "answer", "identity", "review"} :
     \/ gate = "content" /\ ~q.item.sound
     \/ gate = "answer" /\ AnswerFails(q)
     \/ gate = "identity" /\ IsTwin(q, id, refs)
     \/ gate = "review" /\ ReviewFails(q)}

RequiresHuman(q, id, refs) ==
  {gate \in {"answer", "identity", "review"} :
     \/ gate = "answer" /\ ~AnswerFails(q) /\ AnswerOpen(q)
     \/ gate = "identity" /\ IdentityOpen(q, id, refs)
     \/ gate = "review" /\ ReviewOpen(q)}

\* The rule for an explicit decision to publish a question that has a provenance.
DecidesToPublish(q) ==
  /\ q.state \in {"ai_validated", "human_reviewed"}
  /\ q.item.hard => q.state = "human_reviewed"

Publishable(q, id, refs) ==
  /\ Failed(q, id, refs) = {}
  /\ RequiresHuman(q, id, refs) = {}
  /\ DecidesToPublish(q)

-----------------------------------------------------------------------------
(* Writes that need no list *)

\* The questions that are the same as a new one: they are returned in its stead.
Same(item) ==
  {o \in Ids : /\ Live(o)
               /\ \/ rows[o].index = item.print
                  \/ rows[o].item.cell = item.cell /\ rows[o].item.text = item.text}

Stored(id, item, origin, rederived, seed) ==
  rows' = [rows EXCEPT ![id] = Row(item, origin, "draft", rederived, item.print, seed)]

CreateDraft(id, item, origin, rederived) ==
  /\ rows[id] = None
  /\ Same(item) = {}
  /\ Stored(id, item, origin, rederived, None)
  /\ UNCHANGED reqs
  /\ Works

\* Mutant of Reindexed: an edit leaves the fingerprint as it was.
IndexKept(row) == row

\* A row without an origin is stored without a fingerprint.
Reindexed(row) ==
  [row EXCEPT !.index = IF row.origin = "unknown" THEN None ELSE row.item.print]

Edited(row, item, rederived) ==
  Reindexed([row EXCEPT !.item = item, !.rederived = rederived, !.state = "draft",
                        !.review = None])

\* Mutant of Edit: also what is published or rejected.
EditAny(id, item, rederived) ==
  /\ rows[id] # None
  /\ LET next == Edited(rows[id], item, rederived) IN
     /\ ~Collides(id, next)
     /\ rows' = [rows EXCEPT ![id] = next]
  /\ UNCHANGED reqs
  /\ Works

\* An edit drops the review and whatever validation had found.
Edit(id, item, rederived) ==
  /\ rows[id] # None
  /\ rows[id].state \notin Terminal
  /\ LET next == Edited(rows[id], item, rederived) IN
     /\ ~Collides(id, next)
     /\ rows' = [rows EXCEPT ![id] = next]
  /\ UNCHANGED reqs
  /\ Works

To(row, state) == Reindexed([row EXCEPT !.state = state])

Reject(id) ==
  /\ rows[id] # None
  /\ rows[id].state \notin Terminal
  /\ rows' = [rows EXCEPT ![id] = To(@, "rejected")]
  /\ UNCHANGED reqs
  /\ Works

\* What the generation pipeline calls validated: every check passed, at a tier that needs
\* no review.
Importable(item) == item.sound /\ item.derived = "holds" /\ ~item.hard

\* The importer looks for the same wording in the same cell, whatever became of it.
Import(id, item) ==
  /\ Importable(item)
  /\ rows[id] = None
  /\ \A o \in Ids : rows[o] # None =>
       ~(rows[o].item.cell = item.cell /\ rows[o].item.text = item.text)
  /\ rows' = [rows EXCEPT ![id] = Row(item, "unknown", "ai_validated", None, None, None)]
  /\ UNCHANGED reqs
  /\ Works

\* The publication repository decides by state and tier alone.
DecidePublish(id) ==
  /\ rows[id] # None
  /\ DecidesToPublish(rows[id])
  /\ rows' = [rows EXCEPT ![id].state = "published", ![id].via = "decision"]
  /\ UNCHANGED reqs
  /\ Works

-----------------------------------------------------------------------------
(* Requests that judge by a list *)

Ask(r, op, id, review, decision) ==
  /\ reqs[r].pc = "idle"
  /\ rows[id] # None
  /\ reqs' = [reqs EXCEPT ![r] =
       [pc |-> "listed", op |-> op, id |-> id, review |-> review, decision |-> decision,
        refs |-> Refs(rows)]]
  /\ UNCHANGED rows
  /\ Works

AskValidate(r) == \E id \in Ids : Ask(r, "validate", id, None, "none")

AskReview(r) ==
  \E id \in Ids, review \in Reviews, decision \in Decisions :
    Ask(r, "review", id, review, decision)

AskPublish(r) == \E id \in Ids : Ask(r, "publish", id, None, "none")

\* A transaction that is refused writes nothing.
Answered(r) == reqs' = [reqs EXCEPT ![r] = Idle] /\ UNCHANGED work

Save(r, row) ==
  IF Collides(reqs[r].id, row) THEN UNCHANGED rows
  ELSE rows' = [rows EXCEPT ![reqs[r].id] = row]

Validates(row, id, refs) == row.state = "draft" /\ Failed(row, id, refs) = {}

Validate(r) ==
  LET row == rows[reqs[r].id] IN
  /\ reqs[r].pc = "listed"
  /\ reqs[r].op = "validate"
  /\ IF Validates(row, reqs[r].id, reqs[r].refs)
     THEN Save(r, To(row, "ai_validated"))
     ELSE UNCHANGED rows
  /\ Answered(r)

\* A rejection needs no gate; an approval does not pass over a gate that fails.
Review(r) ==
  LET reviewed == [rows[reqs[r].id] EXCEPT !.review = reqs[r].review] IN
  /\ reqs[r].pc = "listed"
  /\ reqs[r].op = "review"
  /\ IF reviewed.state # "ai_validated" THEN UNCHANGED rows
     ELSE IF reqs[r].decision = "reject"
     THEN Save(r, To(reviewed, "rejected"))
     ELSE IF Failed(reviewed, reqs[r].id, reqs[r].refs) # {} THEN UNCHANGED rows
     ELSE Save(r, To(reviewed, "human_reviewed"))
  /\ Answered(r)

\* Mutant of Publish: the gates were asked when the request came, not again.
PublishUngated(r) ==
  LET row == rows[reqs[r].id] IN
  /\ reqs[r].pc = "listed"
  /\ reqs[r].op = "publish"
  /\ IF DecidesToPublish(row)
     THEN Save(r, [To(row, "published") EXCEPT !.via = "gates"])
     ELSE UNCHANGED rows
  /\ Answered(r)

Publish(r) ==
  LET row == rows[reqs[r].id] IN
  /\ reqs[r].pc = "listed"
  /\ reqs[r].op = "publish"
  /\ IF Publishable(row, reqs[r].id, reqs[r].refs)
     THEN Save(r, [To(row, "published") EXCEPT !.via = "gates"])
     ELSE UNCHANGED rows
  /\ Answered(r)

\* A second derivation comes with a draft; an edit brings one, drops it or keeps the one
\* there is.
Author ==
  \/ \E id \in Ids, item \in Items, answer \in Rederivations :
       \/ \E origin \in Origins \ {"unknown"} : CreateDraft(id, item, origin, answer)
       \/ Edit(id, item, answer)
  \/ \E id \in Ids, item \in Items : Import(id, item)
  \/ \E id \in Ids : Reject(id) \/ DecidePublish(id)

Serve(r) ==
  \/ AskValidate(r) \/ AskReview(r) \/ AskPublish(r)
  \/ Validate(r) \/ Review(r) \/ Publish(r)

=============================================================================
