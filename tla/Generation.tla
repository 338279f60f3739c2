----------------------------- MODULE Generation -----------------------------
(***************************************************************************)
(* Authoring with a batch of generated questions.  The engine takes the    *)
(* specifications of a batch in order; for each it runs the pipeline of    *)
(* model calls, stores the candidate as a draft, and rejects or validates  *)
(* it, each in a transaction of its own, while authors and reviewers work  *)
(* on the same questions.                                                  *)
(***************************************************************************)
EXTENDS Authoring, Sequences

CONSTANTS
  Batches,   \* the batches that may be asked for: sequences of specification ids
  Budget,    \* limits.maxEstimatedBudgetUsd, of a batch and of a pipeline
  Costs      \* what one model call may cost

ASSUME GenerationAssumption ==
  /\ Budget \in Nat
  /\ Costs \subseteq Nat /\ Costs # {}
  /\ \A b \in Batches : b \in Seq(Nat)

VARIABLE batch

vars == <<rows, reqs, work, batch>>

\* The pipeline: generation, recomputation, an independent derivation, a judge.  A call is
\* skipped, and its check fails, when the costs so far exceed the budget.
Calls ==
  [item : {i \in Items : i.derived # "none"}, generation : Costs,
   derivation : Costs, judge : Costs, rederived : Rederivations,
   complies : BOOLEAN, judged : BOOLEAN]

Derives(c) == c.generation <= Budget

Judges(c) == c.generation + (IF Derives(c) THEN c.derivation ELSE 0) <= Budget

Cost(c) ==
  c.generation + (IF Derives(c) THEN c.derivation ELSE 0) + (IF Judges(c) THEN c.judge ELSE 0)

\* The checks that refuse a candidate; the likeness to another question is left to people.
Blocked(c) ==
  \/ ~c.complies
  \/ c.item.derived = "fails"
  \/ ~Derives(c) \/ c.rederived # c.item.answer
  \/ ~Judges(c) \/ ~c.judged

NoBatch ==
  [pc |-> "idle", specs |-> <<>>, outcomes |-> <<>>, spent |-> 0,
   call |-> None, id |-> None, refs |-> None]

\* The specifications in the order of their ids; each takes the place that as many as are
\* not after it leave it.
Ordered(specs) ==
  LET Place(i) ==
        Cardinality({j \in DOMAIN specs :
                       specs[j] < specs[i] \/ (specs[j] = specs[i] /\ j <= i)})
  IN  [n \in DOMAIN specs |-> specs[CHOOSE i \in DOMAIN specs : Place(i) = n]]

Init == AuthoringInit /\ batch = NoBatch

Spec1 == batch.specs[Len(batch.outcomes) + 1]

\* Mutant of Earlier: what was generated is not remembered.
EarlierForgotten == {}

Earlier == {batch.specs[i] : i \in 1 .. Len(batch.outcomes)}

Outcome(kind, id) ==
  [batch EXCEPT !.outcomes = Append(@, [kind |-> kind, id |-> id]),
                !.pc = "next", !.call = None, !.id = None, !.refs = None]

Start ==
  /\ batch.pc = "idle"
  /\ \E specs \in Batches : batch' = [NoBatch EXCEPT !.pc = "next", !.specs = Ordered(specs)]
  /\ Works
  /\ UNCHANGED <<rows, reqs>>

Waiting == batch.pc = "next" /\ Len(batch.outcomes) < Len(batch.specs)

Repeated ==
  /\ Waiting
  /\ Spec1 \in Earlier
  /\ batch' = Outcome("duplicate_spec_in_batch", None)
  /\ UNCHANGED content

OverBudget ==
  /\ Waiting
  /\ Spec1 \notin Earlier
  /\ batch.spent > Budget
  /\ batch' = Outcome("skipped_budget", None)
  /\ UNCHANGED content

\* No specification is sent to a model unless it is valid; a failed generation costs
\* what it cost.
Generate ==
  /\ Waiting
  /\ Spec1 \notin Earlier
  /\ batch.spent <= Budget
  /\ \/ batch' = Outcome("spec_invalid", None)
     \/ \E cost \in Costs :
          batch' = [Outcome("generation_failed", None) EXCEPT !.spent = @ + cost]
     \/ \E c \in Calls :
          batch' = [batch EXCEPT !.pc = "create", !.spent = @ + Cost(c),
                                 !.call = [item |-> c.item, blocked |-> Blocked(c),
                                           rederived |-> IF Derives(c) THEN c.rederived ELSE None]]
  /\ UNCHANGED content

\* The rows whose id is made of this specification and content.
Taken(spec, item) == {o \in Ids : rows[o] # None /\ rows[o].seed = <<spec, item.print>>}

MaxNames == 5

\* A rejected row keeps its id, and the candidate takes another; a live row is not touched.
Create ==
  LET c == batch.call IN
  /\ batch.pc = "create"
  /\ \/ /\ batch' = Outcome("not_storable", None)
        /\ UNCHANGED content
     \/ /\ Same(c.item) # {}
        /\ batch' = Outcome("exact_duplicate", None)
        /\ UNCHANGED content
     \/ /\ Same(c.item) = {}
        /\ \A o \in Taken(Spec1, c.item) : ~Live(o)
        /\ Cardinality(Taken(Spec1, c.item)) < MaxNames
        /\ \E id \in Ids :
             /\ rows[id] = None
             /\ Stored(id, c.item, "ai_generated", c.rederived, <<Spec1, c.item.print>>)
             /\ batch' = [batch EXCEPT !.id = id, !.pc = IF c.blocked THEN "reject" ELSE "list"]
        /\ UNCHANGED <<reqs, work>>

Break == [batch EXCEPT !.pc = "broken", !.call = None, !.id = None, !.refs = None]

\* A candidate that a person has rejected or published meanwhile cannot be rejected: the
\* error ends the batch.
RejectBlocked ==
  /\ batch.pc = "reject"
  /\ IF rows[batch.id].state \in Terminal
     THEN batch' = Break /\ UNCHANGED rows
     ELSE /\ rows' = [rows EXCEPT ![batch.id] = To(@, "rejected")]
          /\ batch' = Outcome("rejected_by_checks", batch.id)
  /\ UNCHANGED <<reqs, work>>

List ==
  /\ batch.pc = "list"
  /\ batch' = [batch EXCEPT !.refs = Refs(rows), !.pc = "validate"]
  /\ UNCHANGED content

ValidateCandidate ==
  LET row == rows[batch.id] IN
  /\ batch.pc = "validate"
  /\ IF row.state # "draft"
     THEN batch' = Break /\ UNCHANGED rows
     ELSE IF Failed(row, batch.id, batch.refs) # {}
     THEN batch' = Outcome("draft_failed_gates", batch.id) /\ UNCHANGED rows
     ELSE /\ rows' = [rows EXCEPT ![batch.id] = To(row, "ai_validated")]
          /\ batch' = Outcome("ai_validated_awaiting_review", batch.id)
  /\ UNCHANGED <<reqs, work>>

Finish ==
  /\ batch.pc = "next"
  /\ Len(batch.outcomes) = Len(batch.specs)
  /\ batch' = [batch EXCEPT !.pc = "done"]
  /\ UNCHANGED content

\* The process dies, or the caller comes again with a batch.
Restart ==
  /\ batch.pc # "idle"
  /\ batch' = NoBatch
  /\ UNCHANGED content

Engine ==
  \/ Start \/ Repeated \/ OverBudget \/ Generate \/ Create \/ RejectBlocked \/ List
  \/ ValidateCandidate \/ Finish \/ Restart

Next ==
  \/ (Author \/ \E r \in Requests : Serve(r)) /\ UNCHANGED batch
  \/ Engine

Spec == Init /\ [][Next]_vars

-----------------------------------------------------------------------------
(* Properties *)

\* Rows, requests and the batch have their types.
TypeOK ==
  /\ \A id \in Ids : rows[id] # None => rows[id] \in RowType
  /\ \A r \in Requests :
       /\ reqs[r].pc \in {"idle", "listed"}
       /\ reqs[r].pc = "listed" => reqs[r].id \in Ids /\ rows[reqs[r].id] # None
       /\ reqs[r].op = "review" => reqs[r].review \in Reviews
  /\ work \in 0 .. MaxWork
  /\ batch.pc \in {"idle", "next", "create", "reject", "list", "validate", "done", "broken"}
  /\ batch.pc \in {"reject", "list", "validate"} => batch.id \in Ids /\ rows[batch.id] # None

\* What is published is what was judged: its content is sound and its answer settled if the
\* gates published it, whatever was edited, validated or reviewed between the request
\* and its transaction; and a hard question has a review, whoever published it.
Judged ==
  \A id \in Ids : rows[id] # None /\ rows[id].state = "published" =>
    /\ rows[id].item.hard => rows[id].review # None
    /\ rows[id].via = "gates" =>
         /\ rows[id].item.sound
         /\ ~AnswerFails(rows[id])
         /\ ~AnswerOpen(rows[id])

\* One logical question, one identity: two questions whose origin is known and which are not
\* rejected never have the same content, however they came to have it.
OneIdentity ==
  \A i, j \in Ids :
    /\ i # j
    /\ Live(i) /\ rows[i].origin # "unknown"
    /\ Live(j) /\ rows[j].origin # "unknown"
    => rows[i].item.print # rows[j].item.print

\* Every specification of a batch has one outcome, in order, and a repeated one is not
\* generated again; the costs exceed the budget by one pipeline at most; what was
\* refused by the checks is rejected for good.
BatchAccounted ==
  /\ Len(batch.outcomes) <= Len(batch.specs)
  /\ batch.pc = "done" => Len(batch.outcomes) = Len(batch.specs)
  /\ \E cost \in Costs : batch.spent <= 2 * Budget + cost
  /\ \A i \in 1 .. Len(batch.outcomes) :
       LET o == batch.outcomes[i] IN
       /\ o.kind = "duplicate_spec_in_batch"
            <=> \E j \in 1 .. (i - 1) : batch.specs[j] = batch.specs[i]
       /\ o.kind = "rejected_by_checks" =>
            rows[o.id].state = "rejected" /\ rows[o.id].via = "none"

Life(id) ==
  IF rows[id] = None THEN None ELSE [item |-> rows[id].item, state |-> rows[id].state]

L == INSTANCE ContentLife WITH life <- [id \in Ids |-> Life(id)]

\* Through every race of authors, reviewers, the importer and the engine, each question lives
\* the life that authoring promises.
KeepsLife == L!Spec

=============================================================================
