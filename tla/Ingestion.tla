------------------------------ MODULE Ingestion ------------------------------
(***************************************************************************)
(* The pipeline that turns the contents of one registered source into      *)
(* candidates, over the tables of migration 0015.  A run reads the state   *)
(* of a version once and from then on follows its own copy; the row of a   *)
(* version is written whatever it holds by then.  Runs, reviews and        *)
(* releases may overlap, stop at any statement and be asked for again.     *)
(* `pc` stands before the next statement.                                  *)
(***************************************************************************)
EXTENDS Integers

CONSTANTS
  None,
  Contents,
  Layouts,    \* the configurations of the chunker that a process may run with
  Text,       \* Text[l][c]: content c as l cuts it, each chunk the set of names found in
              \* it
  Foreign,    \* names that are no concept of the exam
  Requests

\* The id of a chunk is made of its version, the configuration and its place.
Cut(l, c) == {<<c, l, i>> : i \in DOMAIN Text[l][c]}

Chunks == UNION {Cut(l, c) : l \in Layouts, c \in Contents}

\* The id of a candidate is made of its chunk and the name found there.
Claims(k) == {<<k, n>> : n \in Text[k[2]][k[1]][k[3]]}

Candidates == UNION {Claims(k) : k \in Chunks}

ASSUME IngestionAssumption ==
  /\ None \notin Contents \cup Layouts
  /\ \A l \in Layouts, c \in Contents : DOMAIN Text[l][c] \subseteq Nat

VARIABLES
  versions,   \* content -> [state, stage]: state "none" is no row, stage the one that
              \* failed
  chunks,     \* rows of content_chunks
  verdicts,   \* candidate -> its state, "none" without a row
  reqs,
  overlap     \* history: content -> operations on it have been "apart", at once
              \* ("shared"), or so with different configurations ("mixed"), and those met
              \* since there was last no operation

rows == <<versions, chunks, verdicts>>
vars == <<rows, reqs, overlap>>

\* The stages that do work, each with the state it starts from.
Before ==
  [accepted |-> "registered", extracted |-> "accepted", normalized |-> "extracted",
   chunked |-> "normalized", enriched |-> "chunked"]

Stages == DOMAIN Before

States == Stages \cup {"none", "registered", "reviewed", "available", "failed"}

Idle ==
  [pc |-> "idle", op |-> "none", content |-> None, given |-> FALSE, layout |-> None,
   state |-> "none", todo |-> {}]

Init ==
  /\ versions = [c \in Contents |-> [state |-> "none", stage |-> "none"]]
  /\ chunks = {}
  /\ verdicts = [m \in Candidates |-> "none"]
  /\ reqs = [r \in Requests |-> Idle]
  /\ overlap = [c \in Contents |-> [kind |-> "apart", layouts |-> {}]]

Of(c) == {k \in chunks : k[1] = c}

Cited == {m[1] : m \in {n \in Candidates : verdicts[n] # "none"}}

At(r, pc) == reqs[r].pc = pc

\* The stage a run does next, if there is one.
Ahead(r) == {s \in Stages : Before[s] = reqs[r].state}

\* The content that some stages take is there.
Able(r) ==
  \A s \in Ahead(r) : s \in {"extracted", "normalized", "chunked"} => reqs[r].given

Does(r, s) == At(r, "work") /\ s \in Ahead(r) /\ Able(r)

Moves(r, pc) == reqs' = [reqs EXCEPT ![r].pc = pc]

Ends(r) == reqs' = [reqs EXCEPT ![r] = Idle]

Write(r, state, stage) ==
  versions' = [versions EXCEPT ![reqs[r].content] = [state |-> state, stage |-> stage]]

----------------------------------------------------------------------------
(* Requests *)

Others(c) == {r \in Requests : ~At(r, "idle") /\ reqs[r].content = c}

\* The history once an operation with layout l, or with none, starts on c.
Met(c, l) ==
  LET layouts == (IF Others(c) = {} THEN {} ELSE overlap[c].layouts) \cup ({l} \ {None}) IN
  [kind |-> IF Others(c) = {} THEN overlap[c].kind
            ELSE IF overlap[c].kind = "mixed" \/ \E x, y \in layouts : x # y THEN "mixed"
            ELSE "shared",
   layouts |-> layouts]

Ask(r, op, pc, c, given, l) ==
  /\ At(r, "idle")
  /\ reqs' = [reqs EXCEPT ![r] =
       [Idle EXCEPT !.pc = pc, !.op = op, !.content = c, !.given = given, !.layout = l]]
  /\ overlap' = [overlap EXCEPT ![c] = Met(c, l)]
  /\ UNCHANGED rows

\* Content is brought, or a version is run again, with its content or without.
Ingest(r) == \E c \in Contents, l \in Layouts : Ask(r, "run", "add", c, TRUE, l)

Resume(r) ==
  \E c \in Contents, l \in Layouts, given \in BOOLEAN :
    versions[c].state # "none" /\ Ask(r, "run", "load", c, given, l)

Conclude(r) ==
  \E c \in Contents, op \in {"review", "release"} :
    versions[c].state # "none" /\ Ask(r, op, "check", c, FALSE, None)

----------------------------------------------------------------------------
(* A run *)

\* One transaction: the version of this content, or a new one.
AddVersion(r) ==
  LET c == reqs[r].content IN
  /\ At(r, "add")
  /\ IF versions[c].state = "none"
     THEN /\ Write(r, "registered", "none")
          /\ Moves(r, "load")
     ELSE /\ UNCHANGED versions
          /\ IF versions[c].state \in {"enriched", "reviewed", "available"}
             THEN Ends(r) ELSE Moves(r, "load")
  /\ UNCHANGED <<chunks, verdicts, overlap>>

\* Mutant of Load: a failed version goes on after the stage that failed.
LoadPast(r) ==
  LET v == versions[reqs[r].content] IN
  /\ At(r, "load")
  /\ reqs' = [reqs EXCEPT
       ![r].state = IF v.state = "failed" THEN v.stage ELSE v.state,
       ![r].pc = IF v.state \in {"failed", "registered"} THEN "reset" ELSE "work"]
  /\ UNCHANGED <<rows, overlap>>

\* Mutant of Load: a run begins at the beginning.
LoadAnew(r) ==
  /\ At(r, "load")
  /\ reqs' = [reqs EXCEPT ![r].state = "registered", ![r].pc = "reset"]
  /\ UNCHANGED <<rows, overlap>>

\* A failed version goes back to where the stage that failed starts from.
Load(r) ==
  LET v == versions[reqs[r].content] IN
  /\ At(r, "load")
  /\ reqs' = [reqs EXCEPT
       ![r].state = IF v.state = "failed" THEN Before[v.stage] ELSE v.state,
       ![r].pc = IF v.state \in {"failed", "registered"} THEN "reset" ELSE "work"]
  /\ UNCHANGED <<rows, overlap>>

Reset(r) ==
  /\ At(r, "reset")
  /\ Write(r, reqs[r].state, "none")
  /\ Moves(r, "work")
  /\ UNCHANGED <<chunks, verdicts, overlap>>

\* Nothing is left to do, or the content that it takes was not given.
Stop(r) ==
  /\ At(r, "work")
  /\ Ahead(r) = {} \/ ~Able(r)
  /\ Ends(r)
  /\ UNCHANGED <<rows, overlap>>

\* The stages that only look at the source and its content.
Pass(r) ==
  \E s \in Stages :
    /\ Does(r, s)
    /\ s \in {"accepted", "extracted", "normalized"}
    /\ Write(r, s, "none")
    /\ reqs' = [reqs EXCEPT ![r].state = s]
    /\ UNCHANGED <<chunks, verdicts, overlap>>

Locked(c) == versions[c].state \in {"reviewed", "available"}

\* Mutant of ReplaceChunks: whatever cites them.
ReplaceCited(r) ==
  LET c == reqs[r].content IN
  /\ Does(r, "chunked")
  /\ IF Locked(c) THEN Moves(r, "fail") /\ UNCHANGED chunks
     ELSE Moves(r, "mark") /\ chunks' = (chunks \ Of(c)) \cup Cut(reqs[r].layout, c)
  /\ UNCHANGED <<versions, verdicts, overlap>>

\* One transaction: the chunks of another cut make way, unless they are cited.
ReplaceChunks(r) ==
  LET c == reqs[r].content
      laid == Cut(reqs[r].layout, c)
  IN  /\ Does(r, "chunked")
      /\ IF Locked(c) \/ (Of(c) \ laid) \cap Cited # {}
         THEN Moves(r, "fail") /\ UNCHANGED chunks
         ELSE Moves(r, "mark") /\ chunks' = (chunks \ Of(c)) \cup laid
      /\ UNCHANGED <<versions, verdicts, overlap>>

\* The claims of the chunks there are.
ListChunks(r) ==
  /\ Does(r, "enriched")
  /\ reqs' = [reqs EXCEPT
       ![r].pc = "save", ![r].todo = UNION {Claims(k) : k \in Of(reqs[r].content)}]
  /\ UNCHANGED <<rows, overlap>>

\* One candidate, chunk after chunk, each in its transaction. One that is there is let be,
\* and a new one must cite a chunk that still is.
SaveCandidate(r) ==
  /\ At(r, "save")
  /\ \E m \in reqs[r].todo :
       /\ \A n \in reqs[r].todo : m[1][3] <= n[1][3]
       /\ IF verdicts[m] # "none"
          THEN UNCHANGED verdicts /\ reqs' = [reqs EXCEPT ![r].todo = @ \ {m}]
          ELSE IF m[1] \in chunks
          THEN /\ verdicts' = [verdicts EXCEPT ![m] = "candidate"]
               /\ reqs' = [reqs EXCEPT ![r].todo = @ \ {m}]
          ELSE UNCHANGED verdicts /\ Moves(r, "fail")
  /\ UNCHANGED <<versions, chunks, overlap>>

AllSaved(r) ==
  /\ At(r, "save")
  /\ reqs[r].todo = {}
  /\ Moves(r, "mark")
  /\ UNCHANGED <<rows, overlap>>

\* The stage that was done is written, and the run goes on from it.
Mark(r) ==
  \E s \in Ahead(r) :
    /\ At(r, "mark")
    /\ Write(r, s, "none")
    /\ reqs' = [reqs EXCEPT ![r] = [@ EXCEPT !.state = s, !.pc = "work"]]
    /\ UNCHANGED <<chunks, verdicts, overlap>>

\* Inside a stage the content does not pass, a provider fails or the database does: the
\* failure is recorded next.
Fault(r) ==
  /\ \E s \in Ahead(r) : Does(r, s) \/ At(r, "save") \/ At(r, "mark")
  /\ Moves(r, "fail")
  /\ UNCHANGED <<rows, overlap>>

Record(r) ==
  \E s \in Ahead(r) :
    /\ At(r, "fail")
    /\ Write(r, "failed", s)
    /\ Ends(r)
    /\ UNCHANGED <<chunks, verdicts, overlap>>

----------------------------------------------------------------------------
(* Reviewers *)

\* A decision is written to a candidate that is still undecided.
DecideCandidate(m, verdict) ==
  /\ verdicts[m] = "candidate"
  /\ verdict = "accepted" => m[2] \notin Foreign
  /\ verdicts' = [verdicts EXCEPT ![m] = verdict]
  /\ UNCHANGED <<versions, chunks, reqs, overlap>>

From == [review |-> "enriched", release |-> "reviewed"]

To == [review |-> "reviewed", release |-> "available"]

Check(r) ==
  /\ At(r, "check")
  /\ IF versions[reqs[r].content].state # From[reqs[r].op] THEN Ends(r)
     ELSE Moves(r, IF reqs[r].op = "review" THEN "list" ELSE "set")
  /\ UNCHANGED <<rows, overlap>>

Undecided(c) == {m \in Candidates : m[1][1] = c /\ verdicts[m] = "candidate"}

ListPending(r) ==
  /\ At(r, "list")
  /\ IF Undecided(reqs[r].content) # {} THEN Ends(r) ELSE Moves(r, "set")
  /\ UNCHANGED <<rows, overlap>>

Set(r) ==
  /\ At(r, "set")
  /\ Write(r, To[reqs[r].op], "none")
  /\ Ends(r)
  /\ UNCHANGED <<chunks, verdicts, overlap>>

\* An error that is thrown to the caller, or the end of the process.
Die(r) ==
  /\ ~At(r, "idle")
  /\ Ends(r)
  /\ UNCHANGED <<rows, overlap>>

Serve(r) ==
  \/ Ingest(r) \/ Resume(r) \/ Conclude(r)
  \/ AddVersion(r) \/ Load(r) \/ Reset(r) \/ Stop(r) \/ Pass(r)
  \/ ReplaceChunks(r) \/ ListChunks(r) \/ SaveCandidate(r) \/ AllSaved(r)
  \/ Mark(r) \/ Fault(r) \/ Record(r)
  \/ Check(r) \/ ListPending(r) \/ Set(r)
  \/ Die(r)

Next ==
  \/ \E r \in Requests : Serve(r)
  \/ \E m \in Candidates, verdict \in {"accepted", "rejected"} : DecideCandidate(m, verdict)

Spec == Init /\ [][Next]_vars

----------------------------------------------------------------------------
(* Properties *)

\* Rows and requests have their types.
TypeOK ==
  /\ versions \in [Contents -> [state : States, stage : Stages \cup {"none"}]]
  /\ chunks \subseteq Chunks
  /\ verdicts \in [Candidates -> {"none", "candidate", "accepted", "rejected"}]
  /\ reqs \in [Requests ->
       [pc : {"idle", "add", "load", "reset", "work", "save", "mark", "fail", "check", "list",
              "set"},
        op : {"none", "run", "review", "release"}, content : Contents \cup {None},
        given : BOOLEAN, layout : Layouts \cup {None}, state : States,
        todo : SUBSET Candidates]]
  /\ overlap \in [Contents -> [kind : {"apart", "shared", "mixed"}, layouts : SUBSET Layouts]]

\* However often its runs stop, fail and race with others of the same configuration: what
\* is called enriched has every claim of its chunks, and what is called reviewed has none
\* undecided.
Converged ==
  \A c \in Contents : overlap[c].kind # "mixed" =>
    /\ versions[c].state \in {"enriched", "reviewed", "available"} =>
         /\ \E l \in Layouts : Of(c) = Cut(l, c)
         /\ \A k \in Of(c) : \A m \in Claims(k) : verdicts[m] # "none"
    /\ versions[c].state \in {"reviewed", "available"} => Undecided(c) = {}

\* As long as the operations on a version came one after another, crashes and resumptions
\* among them, what was reviewed stays so, and what is available stays available with
\* the chunks it has.
ReviewStands ==
  [][\A c \in Contents : overlap'[c].kind = "apart" /\ Locked(c) =>
       /\ versions'[c].state \in {versions[c].state, "available"}
       /\ {k \in chunks' : k[1] = c} = Of(c)]_vars

C == INSTANCE Corpus WITH
       known <- {c \in Contents : versions[c].state # "none"}, stored <- chunks

\* With every overlap, crash and change of configuration, the rows stay what is promised of
\* them: no version is lost, decisions are final, and what is cited stays.
KeepsCorpus == C!Spec

=============================================================================
