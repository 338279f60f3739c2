--------------------------- MODULE IngestionProofs ---------------------------
(***************************************************************************)
(* For any contents, configurations and number of requests: the rows of    *)
(* the ingestion keep what Corpus promises, a review stands as long as the *)
(* operations on its version do not overlap, and what is called enriched   *)
(* or reviewed is, as long as those at once are of one configuration.      *)
(*                                                                         *)
(* A run follows its own copy of a version's state.  What makes a lone run *)
(* harmless is that the copy is then the row's state, whatever stopped     *)
(* before it; what keeps a citation is that chunks make way only uncited,  *)
(* and a claim is written only beside its chunk; and what makes runs of    *)
(* one configuration converge is that of those at once either none has got *)
(* as far as the chunks, or all found them, or the first that came there   *)
(* laid the ones that any other would.                                     *)
(***************************************************************************)
EXTENDS Ingestion, TLAPS

Pcs == {"idle", "add", "load", "reset", "work", "save", "mark", "fail", "check", "list", "set"}

\* The steps of a run that follow its own copy of the state.
Copied == {"work", "save", "mark", "fail"}

VersionsOK ==
  /\ versions \in [Contents -> [state : States, stage : Stages \cup {"none"}]]
  /\ \A c \in Contents : versions[c].state = "failed" => versions[c].stage \in Stages

ChunksOK ==
  /\ chunks \subseteq Chunks
  /\ verdicts \in [Candidates -> {"none", "candidate", "accepted", "rejected"}]
  /\ Cited \subseteq chunks

Request ==
  [pc : Pcs, op : {"none", "run", "review", "release"}, content : Contents \cup {None},
   given : BOOLEAN, layout : Layouts \cup {None}, state : States, todo : SUBSET Candidates]

RequestOK(r) ==
  LET q == reqs[r] IN
  /\ q.pc # "idle" => q.content \in Contents
  /\ q.pc \in {"add", "load", "reset"} \cup Copied => q.layout \in Layouts
  /\ q.pc \notin {"idle", "add"} => versions[q.content].state # "none"
  /\ q.pc \in {"reset"} \cup Copied => q.state \notin {"none", "failed"}
  /\ q.pc \in {"check", "list", "set"} => q.op \in {"review", "release"}
  /\ q.pc = "list" => q.op = "review"

RequestsOK ==
  /\ reqs \in [Requests -> Request]
  /\ \A r \in Requests : RequestOK(r)

\* What a request that is alone on its version knows of it.
Knows(r) ==
  LET v == versions[reqs[r].content] IN
  /\ reqs[r].pc = "reset" => v.state \in {"failed", "registered"}
  /\ reqs[r].pc \in Copied => v.state = reqs[r].state
  /\ reqs[r].pc = "list" => v.state = "enriched"
  /\ reqs[r].pc = "set" => v.state = From[reqs[r].op]

Alone(c) ==
  overlap[c].kind = "apart" =>
    /\ \A r, q \in Others(c) : r = q
    /\ \A r \in Others(c) : Knows(r)

Histories == [kind : {"apart", "shared", "mixed"}, layouts : SUBSET Layouts]

HistoryOK ==
  /\ overlap \in [Contents -> Histories]
  /\ \A c \in Contents : Alone(c)

IInv == VersionsOK /\ ChunksOK /\ RequestsOK /\ HistoryOK

LEMMA StagesAre ==
  /\ Stages = {"accepted", "extracted", "normalized", "chunked", "enriched"}
  /\ \A s \in Stages : Before[s] \in States \ {"none", "failed", "enriched", "reviewed", "available"}
  /\ Before["accepted"] = "registered" /\ Before["extracted"] = "accepted"
  /\ Before["normalized"] = "extracted" /\ Before["chunked"] = "normalized"
  /\ Before["enriched"] = "chunked"
<1>1. Stages = {"accepted", "extracted", "normalized", "chunked", "enriched"}
  BY DEF Stages, Before
<1>2. /\ Before["accepted"] = "registered" /\ Before["extracted"] = "accepted"
      /\ Before["normalized"] = "extracted" /\ Before["chunked"] = "normalized"
      /\ Before["enriched"] = "chunked"
  BY DEF Before
<1>3. \A s \in Stages : Before[s] \in States \ {"none", "failed", "enriched", "reviewed", "available"}
  BY <1>1, <1>2 DEF States
<1> QED BY <1>1, <1>2, <1>3

LEMMA ClaimsAre ==
  /\ \A k \in Chunks : Claims(k) \subseteq Candidates
  /\ \A m \in Candidates : m[1] \in Chunks /\ m = <<m[1], m[2]>>
  /\ \A l \in Layouts, c \in Contents : Cut(l, c) \subseteq Chunks
<1>1. \A k \in Chunks : Claims(k) \subseteq Candidates
  BY DEF Candidates
<1>2. \A m \in Candidates : m[1] \in Chunks /\ m = <<m[1], m[2]>>
  BY DEF Candidates, Claims
<1>3. \A l \in Layouts, c \in Contents : Cut(l, c) \subseteq Chunks
  BY DEF Chunks
<1> QED BY <1>1, <1>2, <1>3

----------------------------------------------------------------------------
(* The invariant *)

LEMMA InitOK ==
  ASSUME Init PROVE IInv
<1>1. VersionsOK
  BY DEF Init, VersionsOK, States
<1>2. Cited = {}
  BY DEF Init, Cited
<1>3. ChunksOK
  BY <1>2 DEF Init, ChunksOK
<1>4. Idle \in Request
  BY DEF Idle, Request, Pcs, States
<1>5. RequestsOK
  BY <1>4 DEF Init, RequestsOK, RequestOK, Idle, Copied
<1>6. \A c \in Contents : Others(c) = {}
  BY DEF Init, Others, At, Idle
<1>7. HistoryOK
  BY <1>6 DEF Init, HistoryOK, Alone, Histories
<1> QED BY <1>1, <1>3, <1>5, <1>7 DEF IInv

\* A step of one request that was under way keeps what is known of all of them.
LEMMA OneMoves ==
  ASSUME IInv, NEW r \in Requests, reqs[r].pc # "idle", overlap' = overlap,
         reqs' \in [Requests -> Request],
         \A q \in Requests \ {r} : reqs'[q] = reqs[q],
         reqs'[r].pc # "idle" => reqs'[r].content = reqs[r].content,
         \A c \in Contents \ {reqs[r].content} : versions'[c] = versions[c],
         \A c \in Contents : versions[c].state # "none" => versions'[c].state # "none",
         RequestOK(r)',
         overlap[reqs[r].content].kind = "apart" /\ Knows(r) /\ reqs'[r].pc # "idle" => Knows(r)'
  PROVE  RequestsOK' /\ HistoryOK'
<1> DEFINE c == reqs[r].content
<1>0. c \in Contents
  BY DEF IInv, RequestsOK, RequestOK
<1>1. ASSUME NEW q \in Requests \ {r} PROVE RequestOK(q)'
  <2>1. RequestOK(q) /\ reqs'[q] = reqs[q]
    BY DEF IInv, RequestsOK
  <2> QED BY <2>1 DEF RequestOK, Copied
<1>2. RequestsOK'
  BY <1>1 DEF RequestsOK
<1>3. ASSUME NEW d \in Contents, overlap[d].kind = "apart" PROVE Alone(d)'
  <2>1. Others(d)' \subseteq Others(d)
    BY DEF Others, At
  <2>2. \A q, p \in Others(d) : q = p
    BY <1>3 DEF IInv, HistoryOK, Alone
  <2>3. \A q \in Others(d) : Knows(q)
    BY <1>3 DEF IInv, HistoryOK, Alone
  <2>4. ASSUME NEW q \in Others(d)' PROVE Knows(q)'
    <3>1. q \in Others(d) /\ q \in Requests
      BY <2>1 DEF Others
    <3>2. CASE q = r
      BY <1>3, <2>3, <3>1, <3>2, <2>4 DEF Others, At
    <3>3. CASE q # r
      <4>1. d # c
        BY <1>0, <2>2, <3>1, <3>3 DEF Others, At
      <4>2. reqs'[q] = reqs[q] /\ reqs[q].content = d /\ versions'[d] = versions[d]
        BY <3>1, <3>3, <4>1 DEF Others
      <4> QED BY <2>3, <3>1, <4>2 DEF Knows, Copied
    <3> QED BY <3>2, <3>3
  <2> QED BY <2>1, <2>2, <2>4 DEF Alone
<1>4. HistoryOK'
  BY <1>3 DEF IInv, HistoryOK, Alone
<1> QED BY <1>2, <1>4

\* What writing a version does.
LEMMA Written ==
  ASSUME IInv, NEW r \in Requests, reqs[r].pc # "idle",
         NEW state \in States \ {"none"}, NEW stage \in Stages \cup {"none"},
         state = "failed" => stage \in Stages,
         Write(r, state, stage)
  PROVE  /\ VersionsOK'
         /\ versions'[reqs[r].content].state = state
         /\ versions'[reqs[r].content].stage = stage
         /\ \A c \in Contents \ {reqs[r].content} : versions'[c] = versions[c]
         /\ \A c \in Contents : versions[c].state # "none" => versions'[c].state # "none"
<1> DEFINE c == reqs[r].content
<1>0. c \in Contents
  BY DEF IInv, RequestsOK, RequestOK
<1>1. versions \in [Contents -> [state : States, stage : Stages \cup {"none"}]]
  BY DEF IInv, VersionsOK
<1>2. versions' = [versions EXCEPT ![c] = [state |-> state, stage |-> stage]]
  BY <1>0, <1>1 DEF Write
<1>3. versions' \in [Contents -> [state : States, stage : Stages \cup {"none"}]]
  BY <1>0, <1>1, <1>2
<1>4. versions'[c].state = state /\ versions'[c].stage = stage
  BY <1>0, <1>1, <1>2
<1>5. \A d \in Contents \ {c} : versions'[d] = versions[d]
  BY <1>1, <1>2
<1>6. VersionsOK'
  BY <1>3, <1>4, <1>5 DEF IInv, VersionsOK
<1> QED BY <1>0, <1>4, <1>5, <1>6

\* The rest of a step that touches only its request.
LEMMA Quiet ==
  ASSUME IInv, NEW r \in Requests, reqs[r].pc # "idle", UNCHANGED <<rows, overlap>>,
         reqs' \in [Requests -> Request],
         \A q \in Requests \ {r} : reqs'[q] = reqs[q],
         reqs'[r].pc # "idle" => reqs'[r].content = reqs[r].content,
         RequestOK(r)',
         overlap[reqs[r].content].kind = "apart" /\ Knows(r) /\ reqs'[r].pc # "idle" => Knows(r)'
  PROVE  IInv'
<1>1. VersionsOK' /\ ChunksOK'
  BY DEF rows, IInv, VersionsOK, ChunksOK, Cited
<1>2. versions' = versions /\ overlap' = overlap
  BY DEF rows
<1>3. RequestsOK' /\ HistoryOK'
  BY <1>2, OneMoves
<1> QED BY <1>1, <1>3 DEF IInv

LEMMA EndOK ==
  ASSUME IInv, NEW r \in Requests, Ends(r)
  PROVE  /\ reqs' \in [Requests -> Request]
         /\ \A q \in Requests \ {r} : reqs'[q] = reqs[q]
         /\ reqs'[r].pc = "idle"
         /\ RequestOK(r)'
<1>1. Idle \in Request /\ Idle.pc = "idle"
  BY DEF Idle, Request, Pcs, States
<1>2. /\ reqs' \in [Requests -> Request]
      /\ \A q \in Requests \ {r} : reqs'[q] = reqs[q]
      /\ reqs'[r].pc = "idle"
  BY <1>1 DEF IInv, RequestsOK, Ends
<1> QED BY <1>2 DEF RequestOK, Copied

LEMMA MoveOK ==
  ASSUME IInv, NEW r \in Requests, NEW pc \in Pcs, Moves(r, pc)
  PROVE  /\ reqs' \in [Requests -> Request]
         /\ \A q \in Requests \ {r} : reqs'[q] = reqs[q]
         /\ reqs'[r].pc = pc
         /\ reqs'[r].content = reqs[r].content
         /\ reqs'[r].layout = reqs[r].layout
         /\ reqs'[r].state = reqs[r].state
         /\ reqs'[r].op = reqs[r].op
<1>1. reqs \in [Requests -> Request] /\ reqs[r] \in Request
  BY DEF IInv, RequestsOK
<1>2. reqs' = [reqs EXCEPT ![r] = [reqs[r] EXCEPT !.pc = pc]]
  BY <1>1 DEF Moves
<1>3. reqs'[r] = [reqs[r] EXCEPT !.pc = pc]
  BY <1>1, <1>2
<1>4. [reqs[r] EXCEPT !.pc = pc] \in Request
  BY <1>1 DEF Request
<1>5. reqs' \in [Requests -> Request]
  BY <1>1, <1>2, <1>4
<1>6. \A q \in Requests \ {r} : reqs'[q] = reqs[q]
  BY <1>1, <1>2
<1>7. /\ reqs'[r].pc = pc /\ reqs'[r].content = reqs[r].content
      /\ reqs'[r].layout = reqs[r].layout /\ reqs'[r].state = reqs[r].state
      /\ reqs'[r].op = reqs[r].op
  BY <1>1, <1>3 DEF Request
<1> QED BY <1>5, <1>6, <1>7

----------------------------------------------------------------------------
(* One lemma per kind of step *)

LEMMA AskOK ==
  ASSUME IInv, NEW r \in Requests, NEW c \in Contents, NEW given \in BOOLEAN,
         NEW l \in Layouts \cup {None}, NEW op \in {"run", "review", "release"},
         NEW pc \in {"add", "load", "check"},
         pc \in {"add", "load"} => l \in Layouts,
         pc # "add" => versions[c].state # "none",
         pc = "check" => op \in {"review", "release"},
         Ask(r, op, pc, c, given, l)
  PROVE  IInv'
<1> DEFINE x == [Idle EXCEPT !.pc = pc, !.op = op, !.content = c, !.given = given,
                             !.layout = l]
<1>1. /\ x \in Request /\ x.pc = pc /\ x.op = op /\ x.content = c /\ x.layout = l
  BY DEF Idle, Request, Pcs, States
<1>2. /\ reqs[r].pc = "idle" /\ reqs' = [reqs EXCEPT ![r] = x]
      /\ overlap' = [overlap EXCEPT ![c] = Met(c, l)]
      /\ UNCHANGED rows
  BY DEF Ask, At
<1>3. /\ reqs \in [Requests -> Request] /\ \A q \in Requests : RequestOK(q)
      /\ overlap \in [Contents -> Histories]
      /\ \A d \in Contents : Alone(d)
  BY DEF IInv, RequestsOK, HistoryOK
<1>4. VersionsOK' /\ ChunksOK' /\ versions' = versions
  BY <1>2 DEF rows, IInv, VersionsOK, ChunksOK, Cited
<1>5. reqs' \in [Requests -> Request] /\ reqs'[r] = x
  BY <1>1, <1>2, <1>3
<1>6. \A q \in Requests \ {r} : reqs'[q] = reqs[q]
  BY <1>2, <1>3
<1>7. RequestOK(r)'
  BY <1>1, <1>4, <1>5 DEF RequestOK, Copied
<1>8. \A q \in Requests \ {r} : RequestOK(q)'
  BY <1>3, <1>4, <1>6 DEF RequestOK, Copied
<1>9. RequestsOK'
  BY <1>5, <1>7, <1>8 DEF RequestsOK
<1>10. /\ Met(c, l) \in Histories
       /\ Met(c, l).kind = "apart" => Others(c) = {}
  <2> DEFINE layouts == (IF Others(c) = {} THEN {} ELSE overlap[c].layouts) \cup ({l} \ {None})
             kind == IF Others(c) = {} THEN overlap[c].kind
                     ELSE IF overlap[c].kind = "mixed" \/ \E j, k \in layouts : j # k
                     THEN "mixed" ELSE "shared"
  <2>1. overlap[c] \in Histories
    BY <1>3
  <2>2. layouts \in SUBSET Layouts
    BY <2>1 DEF Histories
  <2>3. kind \in {"apart", "shared", "mixed"} /\ (kind = "apart" => Others(c) = {})
    BY <2>1 DEF Histories
  <2>4. Met(c, l) = [kind |-> kind, layouts |-> layouts]
    BY DEF Met
  <2> QED BY <2>2, <2>3, <2>4 DEF Histories
<1>11. overlap' \in [Contents -> Histories] /\ overlap'[c] = Met(c, l)
  BY <1>2, <1>3, <1>10
<1>12. Alone(c)'
  <2>1. SUFFICES ASSUME Others(c) = {}
                 PROVE  /\ Others(c)' \subseteq {r}
                        /\ Knows(r)'
    BY <1>10, <1>11 DEF Alone, Others
  <2>2. Others(c)' \subseteq {r}
    BY <1>6, <2>1 DEF Others, At
  <2>3. Knows(r)'
    BY <1>1, <1>5 DEF Knows, Copied
  <2> QED BY <2>2, <2>3
<1>13. ASSUME NEW d \in Contents \ {c} PROVE Alone(d)'
  <2>1. overlap'[d] = overlap[d]
    BY <1>2, <1>3
  <2>2. r \notin Others(d)' /\ r \notin Others(d)
    BY <1>1, <1>2, <1>5 DEF Others, At
  <2>3. Others(d)' = Others(d)
    BY <1>6, <2>2 DEF Others, At
  <2>4. \A q \in Others(d) : reqs'[q] = reqs[q]
    BY <1>6, <2>2 DEF Others
  <2>5. \A q \in Others(d) : Knows(q) => Knows(q)'
    BY <1>4, <2>4 DEF Knows, Copied
  <2> QED BY <1>3, <2>1, <2>3, <2>5 DEF Alone
<1>14. HistoryOK'
  BY <1>11, <1>12, <1>13 DEF HistoryOK
<1> QED BY <1>4, <1>9, <1>14 DEF IInv

LEMMA StopOK ==
  ASSUME IInv, NEW r \in Requests, Stop(r) \/ Die(r) PROVE IInv'
<1>1. Ends(r) /\ UNCHANGED <<rows, overlap>> /\ reqs[r].pc # "idle"
  BY DEF Stop, Die, At
<1> QED BY <1>1, EndOK, Quiet

LEMMA AddVersionOK ==
  ASSUME IInv, NEW r \in Requests, AddVersion(r) PROVE IInv'
<1> DEFINE c == reqs[r].content
<1>0. /\ reqs[r].pc = "add" /\ c \in Contents /\ reqs[r].layout \in Layouts
      /\ UNCHANGED <<chunks, verdicts, overlap>>
  BY DEF AddVersion, At, IInv, RequestsOK, RequestOK
<1>1. CASE versions[c].state # "none" /\ Ends(r)
  <2>1. UNCHANGED <<rows, overlap>>
    BY <1>0, <1>1 DEF AddVersion, rows
  <2> QED BY <1>0, <1>1, <2>1, EndOK, Quiet
<1>2. CASE versions[c].state # "none" /\ Moves(r, "load")
  <2>1. UNCHANGED <<rows, overlap>>
    BY <1>0, <1>2 DEF AddVersion, rows
  <2>2. "load" \in Pcs
    BY DEF Pcs
  <2>3. /\ reqs' \in [Requests -> Request]
        /\ \A q \in Requests \ {r} : reqs'[q] = reqs[q]
        /\ reqs'[r].pc = "load" /\ reqs'[r].content = c
        /\ reqs'[r].layout = reqs[r].layout
    BY <1>2, <2>2, MoveOK
  <2>4. versions' = versions
    BY <2>1 DEF rows
  <2>5. RequestOK(r)'
    BY <1>0, <1>2, <2>3, <2>4 DEF RequestOK, Copied
  <2>6. Knows(r)'
    BY <2>3 DEF Knows, Copied
  <2> QED BY <1>0, <2>1, <2>3, <2>5, <2>6, Quiet
<1>3. CASE versions[c].state = "none"
  <2>1. Write(r, "registered", "none") /\ Moves(r, "load")
    BY <1>3 DEF AddVersion
  <2>2. "load" \in Pcs /\ "registered" \in States \ {"none"}
    BY DEF Pcs, States
  <2>3. /\ reqs' \in [Requests -> Request]
        /\ \A q \in Requests \ {r} : reqs'[q] = reqs[q]
        /\ reqs'[r].pc = "load" /\ reqs'[r].content = c
        /\ reqs'[r].layout = reqs[r].layout
    BY <2>1, <2>2, MoveOK
  <2>4. /\ VersionsOK'
        /\ versions'[c].state = "registered"
        /\ \A d \in Contents \ {c} : versions'[d] = versions[d]
        /\ \A d \in Contents : versions[d].state # "none" => versions'[d].state # "none"
    BY <1>0, <2>1, <2>2, Written
  <2>5. RequestOK(r)'
    BY <1>0, <2>3, <2>4 DEF RequestOK, Copied
  <2>6. Knows(r)'
    BY <2>3 DEF Knows, Copied
  <2>7. RequestsOK' /\ HistoryOK'
    BY <1>0, <2>3, <2>4, <2>5, <2>6, OneMoves
  <2>8. ChunksOK'
    BY <1>0 DEF IInv, ChunksOK, Cited
  <2> QED BY <2>4, <2>7, <2>8 DEF IInv
<1> QED BY <1>1, <1>2, <1>3 DEF AddVersion

LEMMA LoadOK ==
  ASSUME IInv, NEW r \in Requests, Load(r) PROVE IInv'
<1> DEFINE c == reqs[r].content
           v == versions[c]
           state == IF v.state = "failed" THEN Before[v.stage] ELSE v.state
           pc == IF v.state \in {"failed", "registered"} THEN "reset" ELSE "work"
           x == [reqs[r] EXCEPT !.state = state, !.pc = pc]
<1>1. /\ reqs[r].pc = "load" /\ c \in Contents /\ v.state # "none"
      /\ reqs[r].layout \in Layouts /\ UNCHANGED <<rows, overlap>>
      /\ reqs \in [Requests -> Request] /\ reqs[r] \in Request
      /\ versions' = versions
  BY DEF Load, At, IInv, RequestsOK, RequestOK, rows
<1>2. v.state \in States /\ (v.state = "failed" => v.stage \in Stages)
  BY <1>1 DEF IInv, VersionsOK
<1>3. state \in States \ {"none", "failed"}
  BY <1>1, <1>2, StagesAre
<1>4. x \in Request /\ x.pc = pc /\ x.content = c /\ x.layout = reqs[r].layout
      /\ x.state = state
  BY <1>1, <1>3 DEF Request, Pcs
<1>5. reqs' = [reqs EXCEPT ![r] = x]
  BY <1>1 DEF Load
<1>6. /\ reqs' \in [Requests -> Request] /\ reqs'[r] = x
      /\ \A q \in Requests \ {r} : reqs'[q] = reqs[q]
  BY <1>1, <1>4, <1>5
<1>7. RequestOK(r)'
  BY <1>1, <1>3, <1>4, <1>6 DEF RequestOK, Copied
<1>8. Knows(r)'
  BY <1>1, <1>4, <1>6 DEF Knows, Copied
<1> QED BY <1>1, <1>4, <1>6, <1>7, <1>8, Quiet

\* A step that writes a version and moves its request.
LEMMA WriteOK ==
  ASSUME IInv, NEW r \in Requests, reqs[r].pc \notin {"idle", "add"},
         UNCHANGED <<chunks, verdicts, overlap>>,
         NEW state \in States \ {"none"}, NEW stage \in Stages \cup {"none"},
         state = "failed" => stage \in Stages,
         Write(r, state, stage),
         reqs' \in [Requests -> Request],
         \A q \in Requests \ {r} : reqs'[q] = reqs[q],
         \/ reqs'[r].pc = "idle"
         \/ /\ reqs'[r].pc = "work" /\ state # "failed"
            /\ reqs'[r].content = reqs[r].content /\ reqs'[r].layout \in Layouts
            /\ reqs'[r].state = state
  PROVE  IInv'
<1> DEFINE c == reqs[r].content
<1>0. c \in Contents
  BY DEF IInv, RequestsOK, RequestOK
<1>1. /\ VersionsOK'
      /\ versions'[c].state = state
      /\ \A d \in Contents \ {c} : versions'[d] = versions[d]
      /\ \A d \in Contents : versions[d].state # "none" => versions'[d].state # "none"
  BY Written
<1>2. RequestOK(r)'
  BY <1>0, <1>1 DEF RequestOK, Copied
<1>3. reqs'[r].pc # "idle" => Knows(r)'
  BY <1>1 DEF Knows, Copied
<1>4. RequestsOK' /\ HistoryOK'
  BY <1>1, <1>2, <1>3, OneMoves
<1>5. ChunksOK'
  BY DEF IInv, ChunksOK, Cited
<1> QED BY <1>1, <1>4, <1>5 DEF IInv

LEMMA ResetOK ==
  ASSUME IInv, NEW r \in Requests, Reset(r) PROVE IInv'
<1>1. /\ reqs[r].pc = "reset" /\ UNCHANGED <<chunks, verdicts, overlap>>
      /\ Write(r, reqs[r].state, "none") /\ Moves(r, "work")
      /\ reqs[r].layout \in Layouts /\ reqs[r] \in Request
      /\ reqs[r].state \notin {"none", "failed"}
  BY DEF Reset, At, IInv, RequestsOK, RequestOK
<1>2. "work" \in Pcs /\ reqs[r].state \in States
  BY <1>1 DEF Pcs, Request
<1>3. /\ reqs' \in [Requests -> Request]
      /\ \A q \in Requests \ {r} : reqs'[q] = reqs[q]
      /\ reqs'[r].pc = "work" /\ reqs'[r].content = reqs[r].content
      /\ reqs'[r].layout = reqs[r].layout /\ reqs'[r].state = reqs[r].state
  BY <1>1, <1>2, MoveOK
<1> QED BY <1>1, <1>2, <1>3, WriteOK

LEMMA StageOK ==
  ASSUME IInv, NEW r \in Requests, Pass(r) \/ Mark(r) PROVE IInv'
<1> DEFINE x(s) == [reqs[r] EXCEPT !.state = s, !.pc = "work"]
<1>1. PICK s \in Stages :
        /\ reqs[r].pc \in {"work", "mark"} /\ Write(r, s, "none")
        /\ UNCHANGED <<chunks, verdicts, overlap>>
        /\ reqs' = [reqs EXCEPT ![r] = x(s)]
  <2>1. CASE Pass(r)
    <3>1. PICK s \in Stages :
            /\ At(r, "work")
            /\ Write(r, s, "none")
            /\ reqs' = [reqs EXCEPT ![r].state = s]
            /\ UNCHANGED <<chunks, verdicts, overlap>>
      BY <2>1 DEF Pass, Does
    <3>2. reqs \in [Requests -> Request] /\ reqs[r] \in Request /\ reqs[r].pc = "work"
      BY <3>1 DEF IInv, RequestsOK, At
    <3>3. [reqs[r] EXCEPT !.state = s] = x(s)
      BY <3>2 DEF Request
    <3>4. reqs' = [reqs EXCEPT ![r] = x(s)]
      BY <3>1, <3>2, <3>3
    <3> QED BY <3>1, <3>2, <3>4
  <2>2. CASE Mark(r)
    <3>1. PICK s \in Ahead(r) :
            /\ At(r, "mark")
            /\ Write(r, s, "none")
            /\ reqs' = [reqs EXCEPT ![r] = [@ EXCEPT !.state = s, !.pc = "work"]]
            /\ UNCHANGED <<chunks, verdicts, overlap>>
      BY <2>2 DEF Mark
    <3>2. s \in Stages
      BY DEF Ahead
    <3> QED BY <3>1, <3>2 DEF At, IInv, RequestsOK
  <2> QED BY <2>1, <2>2
<1>2. s \in States \ {"none", "failed"}
  BY StagesAre DEF States
<1>3. /\ reqs \in [Requests -> Request] /\ reqs[r] \in Request
      /\ reqs[r].layout \in Layouts
  BY <1>1 DEF IInv, RequestsOK, RequestOK, Copied
<1>4. /\ x(s) \in Request /\ x(s).pc = "work" /\ x(s).content = reqs[r].content
      /\ x(s).layout = reqs[r].layout /\ x(s).state = s
  BY <1>2, <1>3 DEF Request, Pcs
<1>5. /\ reqs' \in [Requests -> Request] /\ reqs'[r] = x(s)
      /\ \A q \in Requests \ {r} : reqs'[q] = reqs[q]
  BY <1>1, <1>3, <1>4
<1> QED BY <1>1, <1>2, <1>3, <1>4, <1>5, WriteOK

\* A step within a stage leaves the version alone and goes on in the same stage.
LEMMA WithinOK ==
  ASSUME IInv, NEW r \in Requests, reqs[r].pc \in Copied,
         UNCHANGED <<versions, overlap>>, ChunksOK',
         reqs' \in [Requests -> Request],
         \A q \in Requests \ {r} : reqs'[q] = reqs[q],
         reqs'[r].pc \in Copied,
         reqs'[r].content = reqs[r].content, reqs'[r].layout = reqs[r].layout,
         reqs'[r].state = reqs[r].state
  PROVE  IInv'
<1>1. VersionsOK'
  BY DEF IInv, VersionsOK
<1>2. reqs[r].pc # "idle" /\ RequestOK(r)
  BY DEF Copied, IInv, RequestsOK
<1>3. RequestOK(r)'
  BY <1>2 DEF RequestOK, Copied
<1>4. Knows(r) => Knows(r)'
  BY DEF Knows, Copied
<1>5. RequestsOK' /\ HistoryOK'
  BY <1>2, <1>3, <1>4, OneMoves
<1> QED BY <1>1, <1>5 DEF IInv

\* Chunks are replaced only where none is cited.
LEMMA ReplaceKeeps ==
  ASSUME IInv, NEW r \in Requests, ReplaceChunks(r)
  PROVE  /\ ChunksOK'
         /\ \A c \in Contents : Locked(c) \/ c # reqs[r].content =>
              {k \in chunks' : k[1] = c} = Of(c)
<1> DEFINE c == reqs[r].content
           laid == Cut(reqs[r].layout, c)
<1>1. /\ c \in Contents /\ reqs[r].layout \in Layouts
      /\ UNCHANGED <<versions, verdicts, overlap>>
  BY DEF ReplaceChunks, Does, At, IInv, RequestsOK, RequestOK, Copied
<1>2. laid \subseteq Chunks
  BY <1>1, ClaimsAre
<1>3. \A k \in laid : k[1] = c
  BY DEF Cut
<1>4. Cited' = Cited
  BY <1>1 DEF Cited
<1>5. CASE chunks' = chunks
  BY <1>1, <1>4, <1>5 DEF IInv, ChunksOK, Of
<1>6. CASE /\ ~Locked(c) /\ (Of(c) \ laid) \cap Cited = {}
           /\ chunks' = (chunks \ Of(c)) \cup laid
  <2>1. ChunksOK'
    BY <1>1, <1>2, <1>4, <1>6 DEF IInv, ChunksOK
  <2>2. ASSUME NEW d \in Contents, d # c
        PROVE  {k \in chunks' : k[1] = d} = Of(d)
    BY <1>3, <1>6, <2>2 DEF Of
  <2> QED BY <1>6, <2>1, <2>2
<1> QED BY <1>5, <1>6 DEF ReplaceChunks

LEMMA ReplaceOK ==
  ASSUME IInv, NEW r \in Requests, ReplaceChunks(r) PROVE IInv'
<1>1. PICK pc \in {"fail", "mark"} : Moves(r, pc)
  BY DEF ReplaceChunks
<1>2. pc \in Pcs /\ pc \in Copied
  BY DEF Pcs, Copied
<1>3. /\ reqs' \in [Requests -> Request]
      /\ \A q \in Requests \ {r} : reqs'[q] = reqs[q]
      /\ reqs'[r].pc = pc /\ reqs'[r].content = reqs[r].content
      /\ reqs'[r].layout = reqs[r].layout /\ reqs'[r].state = reqs[r].state
  BY <1>1, <1>2, MoveOK
<1>4. reqs[r].pc \in Copied /\ UNCHANGED <<versions, overlap>>
  BY DEF ReplaceChunks, Does, At, Copied
<1>5. ChunksOK'
  BY ReplaceKeeps
<1> QED BY <1>2, <1>3, <1>4, <1>5, WithinOK

LEMMA ListChunksOK ==
  ASSUME IInv, NEW r \in Requests, ListChunks(r) PROVE IInv'
<1> DEFINE todo == UNION {Claims(k) : k \in Of(reqs[r].content)}
           x == [reqs[r] EXCEPT !.pc = "save", !.todo = todo]
<1>1. /\ reqs[r].pc \in Copied /\ UNCHANGED <<rows, overlap>>
      /\ reqs \in [Requests -> Request] /\ reqs[r] \in Request
      /\ reqs' = [reqs EXCEPT ![r] = x]
  BY DEF ListChunks, Does, At, Copied, IInv, RequestsOK
<1>2. todo \subseteq Candidates
  BY ClaimsAre DEF IInv, ChunksOK, Of
<1>3. /\ x \in Request /\ x.pc = "save" /\ x.content = reqs[r].content
      /\ x.layout = reqs[r].layout /\ x.state = reqs[r].state
  BY <1>1, <1>2 DEF Request, Pcs
<1>4. /\ reqs' \in [Requests -> Request] /\ reqs'[r] = x
      /\ \A q \in Requests \ {r} : reqs'[q] = reqs[q]
  BY <1>1, <1>3
<1>5. ChunksOK' /\ UNCHANGED <<versions, overlap>>
  BY <1>1 DEF rows, IInv, ChunksOK, Cited
<1> QED BY <1>1, <1>3, <1>4, <1>5, WithinOK DEF Copied

\* A candidate is new only beside its chunk.
LEMMA SaveKeeps ==
  ASSUME IInv, NEW r \in Requests, SaveCandidate(r)
  PROVE  /\ ChunksOK'
         /\ \/ UNCHANGED verdicts
            \/ \E m \in Candidates :
                 /\ verdicts[m] = "none" /\ m[1] \in chunks
                 /\ verdicts' = [verdicts EXCEPT ![m] = "candidate"]
<1>1. chunks' = chunks
  BY DEF SaveCandidate
<1>2. CASE UNCHANGED verdicts
  BY <1>1, <1>2 DEF IInv, ChunksOK, Cited
<1>3. ASSUME NEW m \in Candidates, verdicts[m] = "none", m[1] \in chunks,
             verdicts' = [verdicts EXCEPT ![m] = "candidate"]
      PROVE  ChunksOK'
  <2>1. verdicts' \in [Candidates -> {"none", "candidate", "accepted", "rejected"}]
    BY <1>3 DEF IInv, ChunksOK
  <2>2. Cited' \subseteq Cited \cup {m[1]}
    BY <1>3 DEF Cited, IInv, ChunksOK
  <2> QED BY <1>1, <1>3, <2>1, <2>2 DEF IInv, ChunksOK
<1>4. reqs[r].todo \subseteq Candidates
  BY DEF IInv, RequestsOK, Request
<1> QED BY <1>2, <1>3, <1>4 DEF SaveCandidate

LEMMA SaveOK ==
  ASSUME IInv, NEW r \in Requests, SaveCandidate(r) PROVE IInv'
<1>1. /\ reqs[r].pc = "save" /\ UNCHANGED <<versions, overlap>>
      /\ reqs \in [Requests -> Request] /\ reqs[r] \in Request
  BY DEF SaveCandidate, At, IInv, RequestsOK
<1>2. ChunksOK'
  BY SaveKeeps
<1>3. CASE Moves(r, "fail")
  <2>1. "fail" \in Pcs /\ "fail" \in Copied /\ "save" \in Copied
    BY DEF Pcs, Copied
  <2>2. /\ reqs' \in [Requests -> Request]
        /\ \A q \in Requests \ {r} : reqs'[q] = reqs[q]
        /\ reqs'[r].pc = "fail" /\ reqs'[r].content = reqs[r].content
        /\ reqs'[r].layout = reqs[r].layout /\ reqs'[r].state = reqs[r].state
    BY <1>3, <2>1, MoveOK
  <2> QED BY <1>1, <1>2, <2>1, <2>2, WithinOK
<1>4. ASSUME NEW m, reqs' = [reqs EXCEPT ![r].todo = @ \ {m}] PROVE IInv'
  <2> DEFINE x == [reqs[r] EXCEPT !.todo = @ \ {m}]
  <2>1. reqs' = [reqs EXCEPT ![r] = x]
    BY <1>1, <1>4
  <2>2. /\ x \in Request /\ x.pc = "save" /\ x.content = reqs[r].content
        /\ x.layout = reqs[r].layout /\ x.state = reqs[r].state
    BY <1>1 DEF Request
  <2>3. /\ reqs' \in [Requests -> Request] /\ reqs'[r] = x
        /\ \A q \in Requests \ {r} : reqs'[q] = reqs[q]
    BY <1>1, <2>1, <2>2
  <2> QED BY <1>1, <1>2, <2>2, <2>3, WithinOK DEF Copied
<1> QED BY <1>3, <1>4 DEF SaveCandidate

LEMMA GoesOnOK ==
  ASSUME IInv, NEW r \in Requests, AllSaved(r) \/ Fault(r) PROVE IInv'
<1>1. PICK pc \in {"mark", "fail"} : Moves(r, pc)
  BY DEF AllSaved, Fault
<1>2. pc \in Pcs /\ pc \in Copied
  BY DEF Pcs, Copied
<1>3. /\ reqs' \in [Requests -> Request]
      /\ \A q \in Requests \ {r} : reqs'[q] = reqs[q]
      /\ reqs'[r].pc = pc /\ reqs'[r].content = reqs[r].content
      /\ reqs'[r].layout = reqs[r].layout /\ reqs'[r].state = reqs[r].state
  BY <1>1, <1>2, MoveOK
<1>4. reqs[r].pc \in Copied /\ UNCHANGED <<rows, overlap>>
  BY DEF AllSaved, Fault, Does, At, Copied
<1>5. ChunksOK' /\ UNCHANGED <<versions, overlap>>
  BY <1>4 DEF rows, IInv, ChunksOK, Cited
<1> QED BY <1>2, <1>3, <1>4, <1>5, WithinOK

LEMMA RecordOK ==
  ASSUME IInv, NEW r \in Requests, Record(r) PROVE IInv'
<1>1. PICK s \in Stages : Write(r, "failed", s)
  BY DEF Record, Ahead
<1>2. /\ reqs[r].pc = "fail" /\ Ends(r) /\ UNCHANGED <<chunks, verdicts, overlap>>
  BY DEF Record, At
<1>3. "failed" \in States \ {"none"}
  BY DEF States
<1> QED BY <1>1, <1>2, <1>3, EndOK, WriteOK

LEMMA DecideKeeps ==
  ASSUME IInv, NEW m \in Candidates, NEW verdict \in {"accepted", "rejected"},
         DecideCandidate(m, verdict)
  PROVE  IInv'
<1>1. UNCHANGED <<versions, chunks, reqs, overlap>>
  BY DEF DecideCandidate
<1>2. verdicts' \in [Candidates -> {"none", "candidate", "accepted", "rejected"}]
  BY DEF DecideCandidate, IInv, ChunksOK
<1>3. Cited' \subseteq Cited
  BY DEF DecideCandidate, IInv, ChunksOK, Cited
<1>4. ChunksOK'
  BY <1>1, <1>2, <1>3 DEF IInv, ChunksOK
<1>5. VersionsOK' /\ RequestsOK'
  BY <1>1 DEF IInv, VersionsOK, RequestsOK, RequestOK, Copied
<1>6. \A c \in Contents : Others(c)' = Others(c)
  BY <1>1 DEF Others, At
<1>7. \A r \in Requests : Knows(r)' <=> Knows(r)
  BY <1>1 DEF Knows, Copied
<1>8. HistoryOK'
  BY <1>1, <1>6, <1>7 DEF IInv, HistoryOK, Alone, Others
<1> QED BY <1>4, <1>5, <1>8 DEF IInv

LEMMA ConcludesAre ==
  /\ From["review"] = "enriched" /\ To["review"] = "reviewed"
  /\ From["release"] = "reviewed" /\ To["release"] = "available"
  BY DEF From, To

LEMMA CheckOK ==
  ASSUME IInv, NEW r \in Requests, Check(r) \/ ListPending(r) PROVE IInv'
<1>1. UNCHANGED <<rows, overlap>> /\ reqs[r].pc \in {"check", "list"}
  BY DEF Check, ListPending, At
<1>2. CASE Ends(r)
  BY <1>1, <1>2, EndOK, Quiet
<1>3. CASE \E pc \in {"list", "set"} : Moves(r, pc)
  <2>1. PICK pc \in {"list", "set"} : Moves(r, pc)
    BY <1>3
  <2>2. pc \in Pcs
    BY DEF Pcs
  <2>3. /\ reqs' \in [Requests -> Request]
        /\ \A q \in Requests \ {r} : reqs'[q] = reqs[q]
        /\ reqs'[r].pc = pc /\ reqs'[r].content = reqs[r].content
        /\ reqs'[r].layout = reqs[r].layout /\ reqs'[r].op = reqs[r].op
    BY <2>1, <2>2, MoveOK
  <2>4. RequestOK(r) /\ versions' = versions
    BY <1>1 DEF IInv, RequestsOK, rows
  <2>5. /\ pc = "list" => reqs[r].op = "review"
        /\ versions[reqs[r].content].state = From[reqs[r].op] \/ reqs[r].pc = "list"
        /\ reqs[r].pc = "list" => reqs[r].op = "review" /\ pc = "set"
    <3>1. CASE Check(r)
      <4>1. ~Ends(r) => /\ versions[reqs[r].content].state = From[reqs[r].op]
                        /\ Moves(r, IF reqs[r].op = "review" THEN "list" ELSE "set")
        BY <3>1 DEF Check
      <4>2. ~Ends(r)
        <5>1. Ends(r) => reqs'[r].pc = "idle"
          BY EndOK
        <5> QED BY <2>3, <5>1
      <4>3. pc = IF reqs[r].op = "review" THEN "list" ELSE "set"
        <5> DEFINE p == IF reqs[r].op = "review" THEN "list" ELSE "set"
        <5>1. p \in Pcs /\ Moves(r, p)
          BY <4>1, <4>2 DEF Pcs
        <5>2. reqs'[r].pc = p
          BY <5>1, MoveOK
        <5> QED BY <2>3, <5>2
      <4>4. reqs[r].pc = "check"
        BY <3>1 DEF Check, At
      <4> QED BY <4>1, <4>2, <4>3, <4>4
    <3>2. CASE ListPending(r)
      <4>1. reqs[r].pc = "list" /\ (Ends(r) \/ Moves(r, "set"))
        BY <3>2 DEF ListPending, At
      <4>2. Ends(r) => reqs'[r].pc = "idle"
        BY EndOK
      <4>3. Moves(r, "set") => reqs'[r].pc = "set"
        BY MoveOK DEF Pcs
      <4>4. pc = "set"
        BY <2>3, <4>1, <4>2, <4>3
      <4> QED BY <2>4, <4>1, <4>4 DEF RequestOK
    <3> QED BY <3>1, <3>2
  <2>6. RequestOK(r)'
    BY <1>1, <2>3, <2>4, <2>5 DEF RequestOK, Copied
  <2>7. Knows(r) => Knows(r)'
    BY <1>1, <2>3, <2>4, <2>5, ConcludesAre DEF Knows, Copied
  <2> QED BY <1>1, <2>3, <2>6, <2>7, Quiet
<1> QED BY <1>1, <1>2, <1>3 DEF Check, ListPending

LEMMA SetOK ==
  ASSUME IInv, NEW r \in Requests, Set(r) PROVE IInv'
<1>1. /\ reqs[r].pc = "set" /\ Write(r, To[reqs[r].op], "none") /\ Ends(r)
      /\ UNCHANGED <<chunks, verdicts, overlap>> /\ reqs[r].op \in {"review", "release"}
  BY DEF Set, At, IInv, RequestsOK, RequestOK
<1>2. To[reqs[r].op] \in States \ {"none", "failed"}
  BY <1>1, ConcludesAre DEF States
<1> QED BY <1>1, <1>2, EndOK, WriteOK

LEMMA StepOK ==
  ASSUME IInv, [Next]_vars PROVE IInv'
<1>1. ASSUME NEW r \in Requests, Serve(r) PROVE IInv'
  <2>1. CASE Ingest(r)
    BY <2>1, AskOK DEF Ingest
  <2>2. CASE Resume(r)
    BY <2>2, AskOK DEF Resume
  <2>3. CASE Conclude(r)
    BY <2>3, AskOK DEF Conclude
  <2> QED BY <1>1, <2>1, <2>2, <2>3, AddVersionOK, LoadOK, ResetOK, StopOK, StageOK,
             ReplaceOK, ListChunksOK, SaveOK, GoesOnOK, RecordOK, CheckOK, SetOK DEF Serve
<1>2. CASE UNCHANGED vars
  <2>1. UNCHANGED <<versions, chunks, verdicts, reqs, overlap>>
    BY <1>2 DEF vars, rows
  <2>2. VersionsOK' /\ ChunksOK' /\ RequestsOK'
    BY <2>1 DEF IInv, VersionsOK, ChunksOK, Cited, RequestsOK, RequestOK, Copied
  <2>3. HistoryOK'
    BY <2>1 DEF IInv, HistoryOK, Alone, Others, At, Knows, Copied
  <2> QED BY <2>2, <2>3 DEF IInv
<1> QED BY <1>1, <1>2, DecideKeeps DEF Next

THEOREM InvHolds == Spec => []IInv
  BY InitOK, StepOK, PTL DEF Spec

----------------------------------------------------------------------------
(* The results *)

\* At every state, under any interleaving, crash and change of configuration, the rows and
\* the requests of the ingestion have their types: a version that failed names the stage
\* that did.
THEOREM IngestionTypeCorrect == Spec => []TypeOK
<1>1. IInv => TypeOK
  BY DEF IInv, VersionsOK, ChunksOK, RequestsOK, HistoryOK, TypeOK, Histories, Request, Pcs
<1> QED BY <1>1, InvHolds, PTL

\* Each step on the rows is one that Corpus allows.
LEMMA StepKeepsCorpus ==
  ASSUME IInv, [Next]_vars
  PROVE  [C!Next]_(C!vars)
<1> DEFINE known == {c \in Contents : versions[c].state # "none"}
<1>0. known' = {c \in Contents : versions'[c].state # "none"}
  OBVIOUS
<1>1. UNCHANGED rows => UNCHANGED C!vars
  BY DEF rows, C!vars
<1>2. ASSUME NEW r \in Requests, reqs[r].pc # "idle",
             NEW state \in States \ {"none"}, NEW stage \in Stages \cup {"none"},
             state = "failed" => stage \in Stages,
             Write(r, state, stage), UNCHANGED <<chunks, verdicts>>
      PROVE  C!Next
  <2>1. reqs[r].content \in Contents
    BY <1>2 DEF IInv, RequestsOK, RequestOK
  <2>2. known' = known \cup {reqs[r].content}
    BY <1>2, <2>1, Written
  <2> QED BY <1>2, <2>1, <2>2 DEF C!Next, C!Register
<1>3. ASSUME NEW r \in Requests, Serve(r) PROVE [C!Next]_(C!vars)
  <2>1. CASE Ingest(r) \/ Resume(r) \/ Conclude(r)
    BY <1>1, <2>1 DEF Ingest, Resume, Conclude, Ask
  <2>2. CASE Stop(r) \/ Load(r) \/ ListChunks(r) \/ AllSaved(r) \/ Fault(r) \/ Check(r)
              \/ ListPending(r) \/ Die(r)
    BY <1>1, <2>2 DEF Stop, Load, ListChunks, AllSaved, Fault, Check, ListPending, Die
  <2>3. CASE AddVersion(r)
    <3>1. "registered" \in States \ {"none"}
      BY DEF States
    <3>2. reqs[r].pc # "idle" /\ UNCHANGED <<chunks, verdicts>>
      BY <2>3 DEF AddVersion, At
    <3>3. Write(r, "registered", "none") \/ UNCHANGED rows
      BY <2>3 DEF AddVersion, rows
    <3> QED BY <1>1, <1>2, <3>1, <3>2, <3>3
  <2>4. CASE Reset(r)
    <3>1. /\ reqs[r].pc # "idle" /\ Write(r, reqs[r].state, "none")
          /\ UNCHANGED <<chunks, verdicts>>
          /\ reqs[r].state \in States \ {"none", "failed"}
      BY <2>4 DEF Reset, At, IInv, RequestsOK, RequestOK, Request
    <3> QED BY <1>2, <3>1
  <2>5. CASE Pass(r) \/ Mark(r)
    <3>1. PICK s \in Stages : Write(r, s, "none")
      BY <2>5 DEF Pass, Mark, Ahead
    <3>2. reqs[r].pc # "idle" /\ UNCHANGED <<chunks, verdicts>>
      BY <2>5 DEF Pass, Mark, Does, At
    <3>3. s \in States \ {"none", "failed"}
      BY StagesAre DEF States
    <3> QED BY <1>2, <3>1, <3>2, <3>3
  <2>6. CASE Record(r)
    <3>1. PICK s \in Stages : Write(r, "failed", s)
      BY <2>6 DEF Record, Ahead
    <3>2. reqs[r].pc # "idle" /\ UNCHANGED <<chunks, verdicts>>
      BY <2>6 DEF Record, At
    <3>3. "failed" \in States \ {"none"}
      BY DEF States
    <3> QED BY <1>2, <3>1, <3>2, <3>3
  <2>7. CASE Set(r)
    <3>1. /\ reqs[r].pc # "idle" /\ UNCHANGED <<chunks, verdicts>>
          /\ reqs[r].op \in {"review", "release"} /\ Write(r, To[reqs[r].op], "none")
      BY <2>7 DEF Set, At, IInv, RequestsOK, RequestOK
    <3>2. To[reqs[r].op] \in States \ {"none", "failed"}
      BY <3>1, ConcludesAre DEF States
    <3> QED BY <1>2, <3>1, <3>2
  <2>8. CASE ReplaceChunks(r)
    <3>1. UNCHANGED <<versions, verdicts>>
      BY <2>8 DEF ReplaceChunks
    <3>2. chunks' \subseteq Chunks /\ Cited' \subseteq chunks' /\ Cited' = Cited
      BY <2>8, <3>1, ReplaceKeeps DEF ChunksOK, Cited
    <3>3. C!Cited = Cited
      BY DEF C!Cited, Cited
    <3> QED BY <3>1, <3>2, <3>3 DEF C!Next, C!Lay
  <2>9. CASE SaveCandidate(r)
    <3>1. UNCHANGED <<versions, chunks>>
      BY <2>9 DEF SaveCandidate
    <3>2. CASE UNCHANGED verdicts
      BY <1>1, <3>1, <3>2 DEF rows
    <3>3. CASE \E m \in Candidates :
                 /\ verdicts[m] = "none" /\ m[1] \in chunks
                 /\ verdicts' = [verdicts EXCEPT ![m] = "candidate"]
      BY <3>1, <3>3 DEF C!Next, C!Propose
    <3> QED BY <2>9, <3>2, <3>3, SaveKeeps
  <2> QED BY <1>3, <2>1, <2>2, <2>3, <2>4, <2>5, <2>6, <2>7, <2>8, <2>9 DEF Serve
<1>4. ASSUME NEW m \in Candidates, NEW verdict \in {"accepted", "rejected"},
             DecideCandidate(m, verdict)
      PROVE  C!Next
  BY <1>4 DEF DecideCandidate, C!Next, C!Decide
<1>5. CASE UNCHANGED vars
  BY <1>1, <1>5 DEF vars
<1> QED BY <1>3, <1>4, <1>5 DEF Next

\* The ingestion of one source keeps what Corpus promises of its rows: no version is lost,
\* a claim is written beside its chunk, which then stays, and is decided once.
THEOREM CorpusKept == Spec => KeepsCorpus
<1>1. Init => C!Init
  BY DEF Init, C!Init
<1>2. IInv /\ [Next]_vars => [C!Next]_(C!vars)
  BY StepKeepsCorpus
<1>3. Spec => C!Init /\ [][C!Next]_(C!vars)
  BY <1>1, <1>2, InvHolds, PTL DEF Spec
<1> QED BY <1>3 DEF KeepsCorpus, C!Spec

\* No operation that is alone on a locked version takes it back.
LEMMA StepKeepsReview ==
  ASSUME IInv, Next, NEW c \in Contents, overlap'[c].kind = "apart", Locked(c)
  PROVE  /\ versions'[c].state \in {versions[c].state, "available"}
         /\ {k \in chunks' : k[1] = c} = Of(c)
<1>1. ASSUME NEW r \in Requests, reqs[r].content = c, reqs[r].pc # "idle",
             overlap[c].kind = "apart"
      PROVE  Knows(r)
  BY <1>1 DEF IInv, HistoryOK, Alone, Others, At
<1>2. CASE UNCHANGED rows
  BY <1>2 DEF rows, Of
<1>3. ASSUME NEW r \in Requests, reqs[r].pc # "idle",
             NEW state \in States \ {"none"}, NEW stage \in Stages \cup {"none"},
             state = "failed" => stage \in Stages, Write(r, state, stage),
             UNCHANGED <<chunks, verdicts, overlap>>,
             reqs[r].content = c /\ Knows(r) =>
               state \in {versions[c].state, "available"}
      PROVE  /\ versions'[c].state \in {versions[c].state, "available"}
             /\ {k \in chunks' : k[1] = c} = Of(c)
  <2>1. {k \in chunks' : k[1] = c} = Of(c)
    BY <1>3 DEF Of
  <2>2. CASE reqs[r].content # c
    BY <1>3, <2>1, <2>2, Written
  <2>3. CASE reqs[r].content = c
    BY <1>1, <1>3, <2>1, <2>3, Written
  <2> QED BY <2>2, <2>3
<1>4. ASSUME NEW r \in Requests, Serve(r)
      PROVE  /\ versions'[c].state \in {versions[c].state, "available"}
             /\ {k \in chunks' : k[1] = c} = Of(c)
  <2>1. CASE Ingest(r) \/ Resume(r) \/ Conclude(r)
    BY <1>2, <2>1 DEF Ingest, Resume, Conclude, Ask
  <2>2. CASE Stop(r) \/ Load(r) \/ ListChunks(r) \/ AllSaved(r) \/ Fault(r) \/ Check(r)
              \/ ListPending(r) \/ Die(r)
    BY <1>2, <2>2 DEF Stop, Load, ListChunks, AllSaved, Fault, Check, ListPending, Die
  <2>3. CASE AddVersion(r)
    <3>1. reqs[r].pc # "idle" /\ UNCHANGED <<chunks, verdicts, overlap>>
      BY <2>3 DEF AddVersion, At
    <3>2. CASE versions[reqs[r].content].state = "none"
      <4>1. Write(r, "registered", "none") /\ reqs[r].content # c
        BY <2>3, <3>2 DEF AddVersion, Locked
      <4>2. "registered" \in States \ {"none"}
        BY DEF States
      <4> QED BY <1>3, <3>1, <4>1, <4>2
    <3>3. CASE versions[reqs[r].content].state # "none"
      BY <1>2, <2>3, <3>1, <3>3 DEF AddVersion, rows
    <3> QED BY <3>2, <3>3
  <2>4. CASE Reset(r)
    <3>1. /\ reqs[r].pc = "reset" /\ Write(r, reqs[r].state, "none")
          /\ UNCHANGED <<chunks, verdicts, overlap>>
          /\ reqs[r].state \in States \ {"none", "failed"}
      BY <2>4 DEF Reset, At, IInv, RequestsOK, RequestOK, Request
    <3>2. ~(reqs[r].content = c /\ Knows(r))
      BY <3>1 DEF Knows, Locked
    <3> QED BY <1>3, <3>1, <3>2
  <2>5. CASE Pass(r) \/ Mark(r)
    <3>1. PICK s \in Stages : Before[s] = reqs[r].state /\ Write(r, s, "none")
      BY <2>5 DEF Pass, Does, Mark, Ahead
    <3>2. reqs[r].pc \in {"work", "mark"} /\ UNCHANGED <<chunks, verdicts, overlap>>
      BY <2>5 DEF Pass, Mark, Does, At
    <3>3. s \in States \ {"none", "failed"} /\ reqs[r].state \notin {"reviewed", "available"}
      BY <3>1, StagesAre DEF States
    <3>4. ~(reqs[r].content = c /\ Knows(r))
      BY <3>2, <3>3 DEF Knows, Locked, Copied
    <3> QED BY <1>3, <3>1, <3>2, <3>3, <3>4
  <2>6. CASE Record(r)
    <3>1. PICK s \in Stages : Before[s] = reqs[r].state /\ Write(r, "failed", s)
      BY <2>6 DEF Record, Ahead
    <3>2. reqs[r].pc = "fail" /\ UNCHANGED <<chunks, verdicts, overlap>>
      BY <2>6 DEF Record, At
    <3>3. "failed" \in States \ {"none"} /\ reqs[r].state \notin {"reviewed", "available"}
      BY <3>1, StagesAre DEF States
    <3>4. ~(reqs[r].content = c /\ Knows(r))
      BY <3>2, <3>3 DEF Knows, Locked, Copied
    <3> QED BY <1>3, <3>1, <3>2, <3>3, <3>4
  <2>7. CASE Set(r)
    <3>1. /\ reqs[r].pc = "set" /\ UNCHANGED <<chunks, verdicts, overlap>>
          /\ reqs[r].op \in {"review", "release"} /\ Write(r, To[reqs[r].op], "none")
      BY <2>7 DEF Set, At, IInv, RequestsOK, RequestOK
    <3>2. To[reqs[r].op] \in States \ {"none", "failed"}
      BY <3>1, ConcludesAre DEF States
    <3>3. reqs[r].content = c /\ Knows(r) => To[reqs[r].op] = "available"
      BY <3>1, ConcludesAre DEF Knows, Locked
    <3> QED BY <1>3, <3>1, <3>2, <3>3
  <2>8. CASE ReplaceChunks(r)
    BY <2>8, ReplaceKeeps DEF ReplaceChunks
  <2>9. CASE SaveCandidate(r)
    BY <2>9 DEF SaveCandidate, Of
  <2> QED BY <1>4, <2>1, <2>2, <2>3, <2>4, <2>5, <2>6, <2>7, <2>8, <2>9 DEF Serve
<1>5. ASSUME NEW m \in Candidates, NEW verdict \in {"accepted", "rejected"},
             DecideCandidate(m, verdict)
      PROVE  /\ versions'[c].state \in {versions[c].state, "available"}
             /\ {k \in chunks' : k[1] = c} = Of(c)
  BY <1>5 DEF DecideCandidate, Of
<1> QED BY <1>4, <1>5 DEF Next

\* What was reviewed or released is not taken back, nor cut anew, by operations that come
\* one after another, however many of them stop, fail and are asked for again.
THEOREM ReviewIsKept == Spec => ReviewStands
<1>1. IInv /\ [Next]_vars =>
        [\A c \in Contents : overlap'[c].kind = "apart" /\ Locked(c) =>
           /\ versions'[c].state \in {versions[c].state, "available"}
           /\ {k \in chunks' : k[1] = c} = Of(c)]_vars
  BY StepKeepsReview
<1> QED BY <1>1, InvHolds, PTL DEF Spec, ReviewStands

----------------------------------------------------------------------------
(* Runs of one configuration *)

Low == {"registered", "accepted", "extracted", "normalized"}

High == {"chunked", "enriched", "reviewed", "available"}

\* The state that a run would go on from.
Base(c) ==
  IF versions[c].state = "failed" THEN Before[versions[c].stage] ELSE versions[c].state

Full(c) == \A k \in Of(c) : \A m \in Claims(k) : verdicts[m] # "none"

Settled(c) == Full(c) /\ Undecided(c) = {}

\* What a request relies on, wherever it stands.
Sound(r) ==
  LET q == reqs[r]
      c == q.content
  IN  /\ q.layout # None => q.layout \in overlap[c].layouts
      /\ q.pc = "reset" => q.state \in Low \cup {"chunked"}
      /\ q.pc = "save" =>
           /\ q.state = "chunked"
           /\ \A k \in Of(c) : \A m \in Claims(k) : m \in q.todo \/ verdicts[m] # "none"
      /\ q.pc = "mark" =>
           q.state \in {"normalized", "chunked"} /\ (q.state = "chunked" => Full(c))
      /\ q.pc = "list" => Full(c)
      /\ q.pc = "set" => Settled(c)

\* No operation that is under way has got as far as the chunks,
Upstream(r) ==
  /\ reqs[r].pc \in {"reset"} \cup Copied => reqs[r].state \in Low
  /\ reqs[r].pc \notin {"save", "mark", "list", "set"}

Early(c) == Base(c) \in Low \cup {"none"} /\ \A r \in Others(c) : Upstream(r)

\* or each of them found the chunks there,
Past(r) == reqs[r].pc \in {"reset"} \cup Copied => reqs[r].state \in High

Late(c) ==
  /\ Base(c) \in High /\ \A r \in Others(c) : Past(r)
  /\ \E l \in Layouts : Of(c) = Cut(l, c)

\* or one of them has laid the chunks, as any other would.
Laid(c) == overlap[c].layouts # {} /\ \A l \in overlap[c].layouts : Of(c) = Cut(l, c)

Earned(c) ==
  /\ versions[c].state \in {"enriched", "reviewed", "available"} => Full(c)
  /\ versions[c].state \in {"reviewed", "available"} => Undecided(c) = {}

Agrees(c) ==
  overlap[c].kind # "mixed" =>
    /\ \A l, k \in overlap[c].layouts : l = k
    /\ Early(c) \/ Late(c) \/ Laid(c)
    /\ \A r \in Others(c) : Sound(r)
    /\ Earned(c)

CInv == \A c \in Contents : Agrees(c)

\* A step that leaves the chunks of c, and takes back neither a claim nor a decision.
Steady(c) ==
  /\ Of(c)' = Of(c)
  /\ \A m \in Candidates : verdicts[m] # "none" => verdicts'[m] # "none"
  /\ Settled(c) => Undecided(c)' = {}

\* What a step of one request must do on its version c for all to agree still.
Keeps(r, c) ==
  /\ Early(c) => Base(c)' \in Low \cup {"none"}
  /\ Late(c) => Base(c)' \in High
  /\ reqs'[r].pc # "idle" =>
       Sound(r)' /\ (Early(c) => Upstream(r)') /\ (Late(c) => Past(r)')
  /\ Earned(c)'

LEMMA SteadyFull ==
  ASSUME IInv, NEW c \in Contents, Steady(c), Full(c) PROVE Full(c)'
<1>1. Of(c) \subseteq Chunks
  BY DEF IInv, ChunksOK, Of
<1>2. \A k \in Of(c) : Claims(k) \subseteq Candidates
  BY <1>1, ClaimsAre
<1>3. \A k \in Of(c) : Claims(k)' = Claims(k)
  BY DEF Claims
<1> QED BY <1>2, <1>3 DEF Steady, Full

LEMMA StillSound ==
  ASSUME IInv, NEW c \in Contents, Steady(c),
         overlap[c].layouts \subseteq overlap'[c].layouts,
         NEW r \in Requests, reqs[r].content = c, reqs'[r] = reqs[r], Sound(r)
  PROVE  Sound(r)'
<1> DEFINE q == reqs[r]
<1>1. Full(c) => Full(c)'
  BY SteadyFull
<1>2. Settled(c) => Settled(c)'
  BY <1>1 DEF Steady, Settled
<1>3. \A k \in Of(c) : Claims(k) \subseteq Candidates /\ Claims(k)' = Claims(k)
  BY ClaimsAre DEF IInv, ChunksOK, Of, Claims
<1>4. (\A k \in Of(c) : \A m \in Claims(k) : m \in q.todo \/ verdicts[m] # "none") =>
      (\A k \in Of(c)' : \A m \in Claims(k)' : m \in q.todo \/ verdicts'[m] # "none")
  BY <1>3 DEF Steady
<1> QED BY <1>1, <1>2, <1>4 DEF Sound

LEMMA Goes ==
  ASSUME IInv, NEW c \in Contents, Agrees(c), NEW r \in Requests, reqs[r].pc # "idle",
         overlap' = overlap,
         \A q \in Requests \ {r} : reqs'[q] = reqs[q],
         reqs'[r].pc # "idle" => reqs'[r].content = reqs[r].content,
         \A d \in Contents \ {reqs[r].content} : versions'[d] = versions[d],
         Steady(c),
         reqs[r].content = c /\ overlap[c].kind # "mixed" => Keeps(r, c)
  PROVE  Agrees(c)'
<1> SUFFICES ASSUME overlap[c].kind # "mixed"
             PROVE  /\ Early(c)' \/ Late(c)' \/ Laid(c)'
                    /\ \A q \in Others(c)' : Sound(q)'
                    /\ Earned(c)'
  BY DEF Agrees
<1>1. Others(c)' \subseteq Others(c)
  BY DEF Others, At
<1>2. /\ Early(c) \/ Late(c) \/ Laid(c)
      /\ \A q \in Others(c) : Sound(q)
      /\ Earned(c)
  BY DEF Agrees
<1>3. ASSUME NEW q \in Others(c)', q # r
      PROVE  /\ reqs'[q] = reqs[q] /\ reqs[q].content = c /\ q \in Others(c)
             /\ Sound(q)'
             /\ Upstream(q) => Upstream(q)'
             /\ Past(q) => Past(q)'
  <2>1. reqs'[q] = reqs[q] /\ q \in Others(c) /\ q \in Requests /\ reqs[q].content = c
    BY <1>1, <1>3 DEF Others
  <2>2. Sound(q)'
    BY <1>2, <2>1, StillSound
  <2>3. Upstream(q) => Upstream(q)'
    BY <2>1 DEF Upstream, Copied
  <2>4. Past(q) => Past(q)'
    BY <2>1 DEF Past, Copied
  <2> QED BY <2>1, <2>2, <2>3, <2>4
<1>4. CASE reqs[r].content = c
  <2>1. Keeps(r, c)
    BY <1>4
  <2>2. /\ Early(c) => Base(c)' \in Low \cup {"none"}
        /\ Late(c) => Base(c)' \in High
        /\ Earned(c)'
        /\ r \in Others(c)' =>
             Sound(r)' /\ (Early(c) => Upstream(r)') /\ (Late(c) => Past(r)')
    BY <1>4, <2>1 DEF Keeps, Others, At
  <2>3. \A q \in Others(c)' : Sound(q)'
    BY <1>3, <2>2
  <2>4. Early(c) => Early(c)'
    BY <1>3, <2>2 DEF Early
  <2>5. Late(c) => Late(c)'
    BY <1>3, <2>2 DEF Late, Steady, Cut
  <2>6. Laid(c) => Laid(c)'
    BY DEF Laid, Steady, Cut
  <2> QED BY <1>2, <2>2, <2>3, <2>4, <2>5, <2>6
<1>5. CASE reqs[r].content # c
  <2>1. r \notin Others(c)'
    BY <1>5 DEF Others, At
  <2>2. versions'[c] = versions[c]
    BY <1>5
  <2>3. Base(c)' = Base(c)
    BY <2>2 DEF Base
  <2>4. Earned(c)'
    BY <1>2, <2>2, SteadyFull DEF Earned, Steady, Settled
  <2>5. \A q \in Others(c)' : Sound(q)'
    BY <1>3, <2>1
  <2>6. Early(c) => Early(c)'
    BY <1>3, <2>1, <2>3 DEF Early
  <2>7. Late(c) => Late(c)'
    BY <1>3, <2>1, <2>3 DEF Late, Steady, Cut
  <2>8. Laid(c) => Laid(c)'
    BY DEF Laid, Steady, Cut
  <2> QED BY <1>2, <2>4, <2>5, <2>6, <2>7, <2>8
<1> QED BY <1>4, <1>5

LEMMA Under ==
  ASSUME IInv, NEW c \in Contents, Agrees(c), overlap[c].kind # "mixed",
         NEW r \in Requests, reqs[r].content = c, reqs[r].pc # "idle"
  PROVE  /\ Early(c) \/ Late(c) \/ Laid(c)
         /\ Sound(r) /\ Earned(c)
         /\ Early(c) => Base(c) \in Low \cup {"none"} /\ Upstream(r)
         /\ Late(c) => Base(c) \in High /\ Past(r)
<1>1. r \in Others(c)
  BY DEF Others, At
<1> QED BY <1>1 DEF Agrees, Early, Late

LEMMA RowsSteady ==
  ASSUME UNCHANGED <<chunks, verdicts>>, NEW c \in Contents
  PROVE  Steady(c) /\ (Full(c)' <=> Full(c)) /\ Undecided(c)' = Undecided(c)
<1>1. Of(c)' = Of(c) /\ Undecided(c)' = Undecided(c)
  BY DEF Of, Undecided
<1>2. Full(c)' <=> Full(c)
  BY <1>1 DEF Full, Claims
<1> QED BY <1>1, <1>2 DEF Steady, Settled

\* A step that leaves the rows.
LEMMA Rests ==
  ASSUME IInv, NEW c \in Contents, Agrees(c), NEW r \in Requests, reqs[r].pc # "idle",
         UNCHANGED <<rows, overlap>>,
         \A q \in Requests \ {r} : reqs'[q] = reqs[q],
         reqs'[r].pc # "idle" => reqs'[r].content = reqs[r].content,
         /\ reqs[r].content = c /\ overlap[c].kind # "mixed" /\ reqs'[r].pc # "idle"
         /\ Sound(r) /\ Earned(c)
         /\ Early(c) => Upstream(r)
         /\ Late(c) => Past(r)
         => Sound(r)' /\ (Early(c) => Upstream(r)') /\ (Late(c) => Past(r)')
  PROVE  Agrees(c)'
<1>1. UNCHANGED <<versions, chunks, verdicts, overlap>>
  BY DEF rows
<1>2. Steady(c) /\ (Full(c)' <=> Full(c)) /\ Undecided(c)' = Undecided(c)
  BY <1>1, RowsSteady
<1>3. Base(c)' = Base(c) /\ (Earned(c)' <=> Earned(c))
  BY <1>1, <1>2 DEF Base, Earned
<1>4. ASSUME reqs[r].content = c, overlap[c].kind # "mixed" PROVE Keeps(r, c)
  BY <1>3, <1>4, Under DEF Keeps
<1> QED BY <1>1, <1>2, <1>4, Goes

\* A step that writes a version.
LEMMA Writes ==
  ASSUME IInv, NEW c \in Contents, Agrees(c), NEW r \in Requests, reqs[r].pc # "idle",
         UNCHANGED <<chunks, verdicts, overlap>>,
         NEW state \in States \ {"none"}, NEW stage \in Stages \cup {"none"},
         state = "failed" => stage \in Stages,
         Write(r, state, stage),
         \A q \in Requests \ {r} : reqs'[q] = reqs[q],
         \/ reqs'[r].pc = "idle"
         \/ /\ reqs'[r].pc = "load" \/ (reqs'[r].pc = "work" /\ reqs'[r].state = state)
            /\ state # "failed"
            /\ reqs'[r].content = reqs[r].content /\ reqs'[r].layout = reqs[r].layout,
         /\ reqs[r].content = c
         /\ Sound(r) /\ Earned(c)
         /\ Early(c) => Upstream(r)
         /\ Late(c) => Base(c) \in High /\ Past(r)
         => LET base == IF state = "failed" THEN Before[stage] ELSE state IN
            /\ Early(c) => base \in Low
            /\ Late(c) => base \in High
            /\ state \in {"enriched", "reviewed", "available"} => Full(c)
            /\ state \in {"reviewed", "available"} => Undecided(c) = {}
  PROVE  Agrees(c)'
<1>1. /\ versions'[reqs[r].content].state = state
      /\ versions'[reqs[r].content].stage = stage
      /\ \A d \in Contents \ {reqs[r].content} : versions'[d] = versions[d]
  BY Written
<1>2. Steady(c) /\ (Full(c)' <=> Full(c)) /\ Undecided(c)' = Undecided(c)
  BY RowsSteady
<1>3. ASSUME reqs[r].content = c, overlap[c].kind # "mixed" PROVE Keeps(r, c)
  <2> DEFINE base == IF state = "failed" THEN Before[stage] ELSE state
  <2>1. /\ Sound(r) /\ Earned(c)
        /\ Early(c) => Upstream(r)
        /\ Late(c) => Base(c) \in High /\ Past(r)
    BY <1>3, Under
  <2>2. /\ Early(c) => base \in Low
        /\ Late(c) => base \in High
        /\ state \in {"enriched", "reviewed", "available"} => Full(c)
        /\ state \in {"reviewed", "available"} => Undecided(c) = {}
    BY <1>3, <2>1
  <2>3. Base(c)' = base
    BY <1>1, <1>3 DEF Base
  <2>4. Earned(c)'
    BY <1>1, <1>2, <1>3, <2>2 DEF Earned
  <2>5. ASSUME reqs'[r].pc # "idle"
        PROVE  Sound(r)' /\ (Early(c) => Upstream(r)') /\ (Late(c) => Past(r)')
    <3>1. /\ reqs'[r].pc = "load" \/ (reqs'[r].pc = "work" /\ reqs'[r].state = base)
          /\ reqs'[r].content = c /\ reqs'[r].layout = reqs[r].layout
      BY <1>3, <2>5
    <3>2. Sound(r)'
      BY <1>3, <2>1, <3>1 DEF Sound
    <3> HIDE DEF base
    <3> QED BY <2>2, <3>1, <3>2 DEF Upstream, Past, Copied
  <2> HIDE DEF base
  <2> QED BY <2>2, <2>3, <2>4, <2>5 DEF Keeps
<1> QED BY <1>1, <1>2, <1>3, Goes

LEMMA EndsAgrees ==
  ASSUME IInv, NEW c \in Contents, Agrees(c), NEW r \in Requests, reqs[r].pc # "idle",
         UNCHANGED <<rows, overlap>>, Ends(r)
  PROVE  Agrees(c)'
  BY EndOK, Rests

LEMMA MovesAgrees ==
  ASSUME IInv, NEW c \in Contents, Agrees(c), NEW r \in Requests, reqs[r].pc # "idle",
         UNCHANGED <<rows, overlap>>,
         NEW pc \in Pcs \ {"reset", "work", "save"}, Moves(r, pc),
         pc = "fail" => reqs[r].pc \in Copied,
         reqs[r].content = c /\ Sound(r) /\ Earned(c) =>
           /\ pc = "mark" => reqs[r].pc = "save" /\ reqs[r].todo = {}
           /\ pc = "list" => Full(c)
           /\ pc = "set" => Settled(c)
           /\ pc \in {"list", "set"} => ~Early(c)
  PROVE  Agrees(c)'
<1>1. /\ \A q \in Requests \ {r} : reqs'[q] = reqs[q]
      /\ reqs'[r].pc = pc
      /\ reqs'[r].content = reqs[r].content
      /\ reqs'[r].layout = reqs[r].layout
      /\ reqs'[r].state = reqs[r].state
  BY MoveOK
<1>2. ASSUME reqs[r].content = c, Sound(r), Earned(c), Early(c) => Upstream(r),
             Late(c) => Past(r)
      PROVE  Sound(r)' /\ (Early(c) => Upstream(r)') /\ (Late(c) => Past(r)')
  <2>1. Full(c)' <=> Full(c)
    BY RowsSteady DEF rows
  <2>2. Settled(c)' <=> Settled(c)
    BY <2>1, RowsSteady DEF rows, Settled
  <2>3. pc = "mark" => reqs[r].state = "chunked" /\ Full(c)
    BY <1>2 DEF Sound, Full
  <2>4. Sound(r)'
    BY <1>1, <1>2, <2>1, <2>2, <2>3 DEF Sound, Pcs
  <2>5. Early(c) => Upstream(r)'
    BY <1>1, <1>2, <2>3 DEF Upstream, Copied
  <2>6. Late(c) => Past(r)'
    BY <1>1, <1>2, <2>3 DEF Past, Copied, High
  <2> QED BY <2>4, <2>5, <2>6
<1> QED BY <1>1, <1>2, Rests

LEMMA StatesAre ==
  /\ States = {"none", "failed"} \cup Low \cup High
  /\ \A s \in Stages : Before[s] \in Low \cup {"chunked"}
  /\ \A s \in Stages : Before[s] \in Low => s \in Low \cup {"chunked"}
  /\ \A s \in {"accepted", "extracted", "normalized"} : s \in Stages /\ Before[s] \in Low
  /\ \A s \in Stages : Before[s] = "chunked" => s = "enriched"
  /\ \A s \in Stages : Before[s] = "normalized" => s = "chunked"
<1>1. Stages = {"accepted", "extracted", "normalized", "chunked", "enriched"}
  BY StagesAre
<1> QED BY <1>1, StagesAre DEF States, Low, High

LEMMA AddVersionAgrees ==
  ASSUME IInv, NEW c \in Contents, Agrees(c), NEW r \in Requests, AddVersion(r)
  PROVE  Agrees(c)'
<1> DEFINE d == reqs[r].content
<1>0. /\ reqs[r].pc = "add" /\ d \in Contents /\ UNCHANGED <<chunks, verdicts, overlap>>
  BY DEF AddVersion, At, IInv, RequestsOK, RequestOK
<1>1. CASE versions[d].state # "none" /\ Ends(r)
  <2>1. UNCHANGED <<rows, overlap>>
    BY <1>0, <1>1 DEF AddVersion, rows
  <2> QED BY <1>0, <1>1, <2>1, EndsAgrees
<1>2. CASE versions[d].state # "none" /\ Moves(r, "load")
  <2>1. UNCHANGED <<rows, overlap>>
    BY <1>0, <1>2 DEF AddVersion, rows
  <2>2. "load" \in Pcs \ {"reset", "work", "save"}
    BY DEF Pcs
  <2> QED BY <1>0, <1>2, <2>1, <2>2, MovesAgrees
<1>3. CASE versions[d].state = "none"
  <2> DEFINE state == "registered"
  <2>1. Write(r, state, "none") /\ Moves(r, "load")
    BY <1>3 DEF AddVersion
  <2>2. /\ "load" \in Pcs /\ state \in States \ {"none", "failed"} /\ state \in Low
        /\ state \notin {"enriched", "reviewed", "available"}
    BY DEF Pcs, States, Low
  <2>3. /\ \A q \in Requests \ {r} : reqs'[q] = reqs[q]
        /\ reqs'[r].pc = "load" /\ reqs'[r].content = d
        /\ reqs'[r].layout = reqs[r].layout
    BY <2>1, <2>2, MoveOK
  <2>4. d = c => ~Late(c)
    BY <1>3 DEF Late, Base, High
  <2> HIDE DEF state
  <2> QED BY <1>0, <2>1, <2>2, <2>3, <2>4, Writes
<1> QED BY <1>1, <1>2, <1>3 DEF AddVersion

LEMMA LoadAgrees ==
  ASSUME IInv, NEW c \in Contents, Agrees(c), NEW r \in Requests, Load(r)
  PROVE  Agrees(c)'
<1> DEFINE d == reqs[r].content
           v == versions[d]
           state == IF v.state = "failed" THEN Before[v.stage] ELSE v.state
           pc == IF v.state \in {"failed", "registered"} THEN "reset" ELSE "work"
           x == [reqs[r] EXCEPT !.state = state, !.pc = pc]
<1>1. /\ reqs[r].pc = "load" /\ d \in Contents /\ v.state # "none"
      /\ UNCHANGED <<rows, overlap>> /\ overlap' = overlap
      /\ reqs \in [Requests -> Request] /\ reqs[r] \in Request
  BY DEF Load, At, IInv, RequestsOK, RequestOK
<1>2. v.state \in States /\ (v.state = "failed" => v.stage \in Stages)
  BY <1>1 DEF IInv, VersionsOK
<1>3. /\ state \in Low \cup High
      /\ pc = "reset" => state \in Low \cup {"chunked"}
      /\ pc \in {"reset", "work"}
  BY <1>1, <1>2, StatesAre DEF Low, High
<1>4. reqs' = [reqs EXCEPT ![r] = x]
  BY <1>1 DEF Load
<1>5. state = Base(d)
  BY DEF Base
<1> HIDE DEF state, pc
<1>6. x.pc = pc /\ x.state = state /\ x.content = d /\ x.layout = reqs[r].layout
  BY <1>1 DEF Request
<1>7. reqs'[r] = x /\ \A q \in Requests \ {r} : reqs'[q] = reqs[q]
  BY <1>1, <1>4
<1> HIDE DEF x
<1>8. ASSUME d = c, Sound(r)
      PROVE  Sound(r)' /\ (Early(c) => Upstream(r)') /\ (Late(c) => Past(r)')
  <2>1. Sound(r)'
    BY <1>1, <1>3, <1>6, <1>7, <1>8 DEF Sound
  <2>2. Early(c) => state \in Low
    BY <1>3, <1>5, <1>8 DEF Early, Low, High
  <2>3. Late(c) => state \in High
    BY <1>5, <1>8 DEF Late
  <2>4. Early(c) => Upstream(r)'
    BY <1>3, <1>6, <1>7, <2>2 DEF Upstream
  <2>5. Late(c) => Past(r)'
    BY <1>3, <1>6, <1>7, <2>3 DEF Past
  <2> QED BY <2>1, <2>4, <2>5
<1> QED BY <1>1, <1>6, <1>7, <1>8, Rests

LEMMA ResetAgrees ==
  ASSUME IInv, NEW c \in Contents, Agrees(c), NEW r \in Requests, Reset(r)
  PROVE  Agrees(c)'
<1> DEFINE state == reqs[r].state
<1>1. /\ reqs[r].pc = "reset" /\ UNCHANGED <<chunks, verdicts, overlap>>
      /\ Write(r, state, "none") /\ Moves(r, "work")
      /\ state \in States \ {"none", "failed"}
  BY DEF Reset, At, IInv, RequestsOK, RequestOK, Request
<1>2. "work" \in Pcs
  BY DEF Pcs
<1>3. /\ \A q \in Requests \ {r} : reqs'[q] = reqs[q]
      /\ reqs'[r].pc = "work" /\ reqs'[r].content = reqs[r].content
      /\ reqs'[r].layout = reqs[r].layout /\ reqs'[r].state = state
  BY <1>1, <1>2, MoveOK
<1>4. /\ Sound(r) => state \in Low \cup {"chunked"}
      /\ Upstream(r) => state \in Low
      /\ Past(r) => state \in High
  BY <1>1 DEF Sound, Upstream, Past
<1>5. Sound(r) => state \notin {"enriched", "reviewed", "available"}
  BY <1>4 DEF Low
<1> HIDE DEF state
<1> QED BY <1>1, <1>3, <1>4, <1>5, Writes

\* A stage that is done is written: one before the chunks, the chunks, or the candidates.
LEMMA StageAgrees ==
  ASSUME IInv, NEW c \in Contents, Agrees(c), NEW r \in Requests, Pass(r) \/ Mark(r)
  PROVE  Agrees(c)'
<1> DEFINE x(s) == [reqs[r] EXCEPT !.state = s, !.pc = "work"]
           low == {"accepted", "extracted", "normalized"}
<1>1. reqs \in [Requests -> Request] /\ reqs[r] \in Request
  BY DEF IInv, RequestsOK
<1>2. PICK s \in Stages :
        /\ Before[s] = reqs[r].state
        /\ (reqs[r].pc = "work" /\ s \in low) \/ reqs[r].pc = "mark"
        /\ Write(r, s, "none")
        /\ UNCHANGED <<chunks, verdicts, overlap>>
        /\ reqs' = [reqs EXCEPT ![r] = x(s)]
  <2>1. CASE Pass(r)
    <3>1. PICK s \in Stages :
            /\ reqs[r].pc = "work" /\ Before[s] = reqs[r].state /\ s \in low
            /\ Write(r, s, "none")
            /\ reqs' = [reqs EXCEPT ![r].state = s]
            /\ UNCHANGED <<chunks, verdicts, overlap>>
      BY <2>1 DEF Pass, Does, At, Ahead
    <3>2. [reqs[r] EXCEPT !.state = s] = x(s)
      BY <1>1, <3>1 DEF Request
    <3>3. reqs' = [reqs EXCEPT ![r] = x(s)]
      BY <1>1, <3>1, <3>2
    <3> QED BY <3>1, <3>3
  <2>2. CASE Mark(r)
    <3>1. PICK s \in Ahead(r) :
            /\ reqs[r].pc = "mark"
            /\ Write(r, s, "none")
            /\ reqs' = [reqs EXCEPT ![r] = [@ EXCEPT !.state = s, !.pc = "work"]]
            /\ UNCHANGED <<chunks, verdicts, overlap>>
      BY <2>2 DEF Mark, At
    <3>2. s \in Stages /\ Before[s] = reqs[r].state
      BY DEF Ahead
    <3> QED BY <1>1, <3>1, <3>2
  <2> QED BY <2>1, <2>2
<1>3. /\ x(s).pc = "work" /\ x(s).content = reqs[r].content
      /\ x(s).layout = reqs[r].layout /\ x(s).state = s
  BY <1>1 DEF Request
<1>4. reqs'[r] = x(s) /\ \A q \in Requests \ {r} : reqs'[q] = reqs[q]
  BY <1>1, <1>2
<1>5. s \in States \ {"none", "failed"}
  BY StagesAre DEF States
<1>6. ASSUME Sound(r), reqs[r].content = c, Early(c) => Upstream(r), Late(c) => Past(r)
      PROVE  /\ Early(c) => s \in Low
             /\ Late(c) => s \in High
             /\ s \in {"enriched", "reviewed", "available"} => Full(c)
             /\ s \notin {"reviewed", "available"}
  <2>1. CASE reqs[r].pc = "work" /\ s \in low
    <3>1. s \in Low /\ Before[s] \in Low
      BY <2>1, StatesAre DEF Low
    <3>2. ~Past(r)
      BY <1>2, <2>1, <3>1 DEF Past, Copied, Low, High
    <3> QED BY <1>6, <2>1, <3>1, <3>2
  <2>2. CASE reqs[r].pc = "mark"
    <3>1. reqs[r].state \in {"normalized", "chunked"} /\ (reqs[r].state = "chunked" => Full(c))
      BY <1>6, <2>2 DEF Sound
    <3>2. ~Upstream(r) /\ (Past(r) => reqs[r].state = "chunked")
      BY <2>2, <3>1 DEF Upstream, Past, Copied, High
    <3>3. s = "chunked" \/ (s = "enriched" /\ Full(c))
      BY <1>2, <3>1, StatesAre
    <3> QED BY <1>6, <3>2, <3>3 DEF High
  <2> QED BY <1>2, <2>1, <2>2
<1> QED BY <1>2, <1>3, <1>4, <1>5, <1>6, Writes

LEMMA ListChunksAgrees ==
  ASSUME IInv, NEW c \in Contents, Agrees(c), NEW r \in Requests, ListChunks(r)
  PROVE  Agrees(c)'
<1> DEFINE todo == UNION {Claims(k) : k \in Of(reqs[r].content)}
           x == [reqs[r] EXCEPT !.pc = "save", !.todo = todo]
<1>1. /\ reqs[r].pc = "work" /\ UNCHANGED <<rows, overlap>>
      /\ reqs \in [Requests -> Request] /\ reqs[r] \in Request
      /\ reqs' = [reqs EXCEPT ![r] = x] /\ "enriched" \in Ahead(r)
  BY DEF ListChunks, Does, At, IInv, RequestsOK
<1>2. reqs[r].state = "chunked"
  BY <1>1, StagesAre DEF Ahead
<1>3. /\ x.pc = "save" /\ x.content = reqs[r].content /\ x.layout = reqs[r].layout
      /\ x.state = "chunked" /\ x.todo = todo
  BY <1>1, <1>2 DEF Request
<1>4. reqs'[r] = x /\ \A q \in Requests \ {r} : reqs'[q] = reqs[q]
  BY <1>1
<1>5. Of(c)' = Of(c) /\ overlap' = overlap
  BY <1>1 DEF rows, Of
<1>6. ASSUME reqs[r].content = c, Sound(r), Early(c) => Upstream(r)
      PROVE  Sound(r)' /\ (Early(c) => Upstream(r)') /\ (Late(c) => Past(r)')
  <2>1. \A k \in Of(c) : \A m \in Claims(k) : m \in todo
    BY <1>6
  <2> HIDE DEF todo, x
  <2>2. \A k \in Of(c)' : \A m \in Claims(k)' : m \in x.todo
    BY <1>3, <1>5, <2>1 DEF Claims
  <2>3. Sound(r)'
    BY <1>3, <1>4, <1>5, <1>6, <2>2 DEF Sound
  <2>4. ~Upstream(r)
    BY <1>1, <1>2 DEF Upstream, Copied, Low
  <2>5. Past(r)'
    BY <1>3, <1>4 DEF Past, High
  <2> QED BY <1>6, <2>3, <2>4, <2>5
<1> QED BY <1>1, <1>3, <1>4, <1>6, Rests

\* A new candidate is one of no version that has all.
LEMMA SaveSteady ==
  ASSUME IInv, NEW c \in Contents, NEW r \in Requests, SaveCandidate(r) PROVE Steady(c)
<1>1. CASE UNCHANGED verdicts
  BY <1>1, RowsSteady DEF SaveCandidate
<1>2. ASSUME NEW m \in Candidates, verdicts[m] = "none", m[1] \in chunks,
             verdicts' = [verdicts EXCEPT ![m] = "candidate"]
      PROVE  Steady(c)
  <2>1. Of(c)' = Of(c)
    BY DEF SaveCandidate, Of
  <2>2. /\ verdicts \in [Candidates -> {"none", "candidate", "accepted", "rejected"}]
        /\ \A n \in Candidates \ {m} : verdicts'[n] = verdicts[n]
        /\ verdicts'[m] = "candidate"
    BY <1>2 DEF IInv, ChunksOK
  <2>3. m \in Claims(m[1])
    BY DEF Candidates, Claims
  <2>4. Full(c) => m[1][1] # c
    BY <1>2, <2>3 DEF Full, Of
  <2>5. Full(c) => Undecided(c)' = Undecided(c)
    BY <2>2, <2>4 DEF Undecided
  <2> QED BY <2>1, <2>2, <2>5 DEF Steady, Settled
<1> QED BY <1>1, <1>2, SaveKeeps

LEMMA SaveAgrees ==
  ASSUME IInv, NEW c \in Contents, Agrees(c), NEW r \in Requests, SaveCandidate(r)
  PROVE  Agrees(c)'
<1>1. /\ reqs[r].pc = "save" /\ UNCHANGED <<versions, overlap>>
      /\ reqs \in [Requests -> Request] /\ reqs[r] \in Request
  BY DEF SaveCandidate, At, IInv, RequestsOK
<1>2. Steady(c)
  BY SaveSteady
<1>3. Full(c) => Full(c)'
  BY <1>2, SteadyFull
<1>4. Base(c)' = Base(c) /\ (Earned(c) => Earned(c)')
  BY <1>1, <1>2, <1>3 DEF Base, Earned, Steady, Settled
<1>5. CASE Moves(r, "fail")
  <2>1. "fail" \in Pcs
    BY DEF Pcs
  <2>2. /\ \A q \in Requests \ {r} : reqs'[q] = reqs[q]
        /\ reqs'[r].pc = "fail" /\ reqs'[r].content = reqs[r].content
        /\ reqs'[r].layout = reqs[r].layout /\ reqs'[r].state = reqs[r].state
    BY <1>5, <2>1, MoveOK
  <2>3. ASSUME reqs[r].content = c, overlap[c].kind # "mixed" PROVE Keeps(r, c)
    <3>1. /\ Sound(r) /\ Earned(c)
          /\ Early(c) => Base(c) \in Low \cup {"none"} /\ Upstream(r)
          /\ Late(c) => Base(c) \in High /\ Past(r)
      BY <1>1, <2>3, Under
    <3>2. Sound(r)'
      BY <1>1, <2>2, <2>3, <3>1 DEF Sound
    <3>3. (Upstream(r) => Upstream(r)') /\ (Past(r) => Past(r)')
      BY <1>1, <2>2 DEF Upstream, Past, Copied
    <3> QED BY <1>4, <3>1, <3>2, <3>3 DEF Keeps
  <2> QED BY <1>1, <1>2, <2>2, <2>3, Goes
<1>6. ASSUME NEW m \in reqs[r].todo, reqs' = [reqs EXCEPT ![r].todo = @ \ {m}],
             verdicts'[m] # "none"
      PROVE  Agrees(c)'
  <2> DEFINE x == [reqs[r] EXCEPT !.todo = reqs[r].todo \ {m}]
  <2>1. reqs' = [reqs EXCEPT ![r] = x]
    BY <1>1, <1>6
  <2>2. /\ x.pc = "save" /\ x.content = reqs[r].content
        /\ x.layout = reqs[r].layout /\ x.state = reqs[r].state
        /\ x.todo = reqs[r].todo \ {m}
    BY <1>1 DEF Request
  <2>3. /\ reqs'[r] = x
        /\ \A q \in Requests \ {r} : reqs'[q] = reqs[q]
    BY <1>1, <2>1
  <2> HIDE DEF x
  <2>4. ASSUME reqs[r].content = c, overlap[c].kind # "mixed" PROVE Keeps(r, c)
    <3>1. /\ Sound(r) /\ Earned(c)
          /\ Early(c) => Base(c) \in Low \cup {"none"} /\ Upstream(r)
          /\ Late(c) => Base(c) \in High /\ Past(r)
      BY <1>1, <2>4, Under
    <3>2. \A k \in Of(c) : \A n \in Claims(k) : n \in reqs[r].todo \/ verdicts[n] # "none"
      BY <1>1, <2>4, <3>1 DEF Sound
    <3>3. \A k \in Of(c) : Claims(k) \subseteq Candidates
      BY ClaimsAre DEF IInv, ChunksOK, Of
    <3>4. \A k \in Of(c)' : \A n \in Claims(k)' : n \in x.todo \/ verdicts'[n] # "none"
      BY <1>2, <1>6, <2>2, <3>2, <3>3 DEF Steady, Claims
    <3>5. Sound(r)'
      BY <1>1, <2>2, <2>3, <2>4, <3>1, <3>4 DEF Sound
    <3>6. (Upstream(r) => Upstream(r)') /\ (Past(r) => Past(r)')
      BY <1>1, <2>2, <2>3 DEF Upstream, Past, Copied
    <3> QED BY <1>4, <3>1, <3>5, <3>6 DEF Keeps
  <2> QED BY <1>1, <1>2, <2>2, <2>3, <2>4, Goes
<1>7. ASSUME NEW m \in reqs[r].todo, verdicts[m] # "none", UNCHANGED verdicts
      PROVE  verdicts'[m] # "none"
  BY <1>7
<1>8. ASSUME NEW m \in reqs[r].todo, verdicts' = [verdicts EXCEPT ![m] = "candidate"]
      PROVE  verdicts'[m] # "none"
  BY <1>1, <1>8 DEF Request, IInv, ChunksOK
<1> QED BY <1>5, <1>6, <1>7, <1>8 DEF SaveCandidate

LEMMA GoesOnAgrees ==
  ASSUME IInv, NEW c \in Contents, Agrees(c), NEW r \in Requests, AllSaved(r) \/ Fault(r)
  PROVE  Agrees(c)'
<1>1. PICK pc \in {"mark", "fail"} :
        /\ Moves(r, pc)
        /\ pc = "mark" => reqs[r].pc = "save" /\ reqs[r].todo = {}
  BY DEF AllSaved, Fault, At
<1>2. pc \in Pcs \ {"reset", "work", "save"} /\ pc \notin {"list", "set"}
  BY DEF Pcs
<1>3. reqs[r].pc \in Copied /\ reqs[r].pc # "idle" /\ UNCHANGED <<rows, overlap>>
  BY DEF AllSaved, Fault, Does, At, Copied
<1> QED BY <1>1, <1>2, <1>3, MovesAgrees

LEMMA RecordAgrees ==
  ASSUME IInv, NEW c \in Contents, Agrees(c), NEW r \in Requests, Record(r)
  PROVE  Agrees(c)'
<1> DEFINE state == "failed"
<1>1. PICK s \in Stages : Write(r, state, s) /\ Before[s] = reqs[r].state
  BY DEF Record, Ahead
<1>2. /\ reqs[r].pc = "fail" /\ Ends(r) /\ UNCHANGED <<chunks, verdicts, overlap>>
  BY DEF Record, At
<1>3. /\ state \in States \ {"none"} /\ s \in Stages \cup {"none"} /\ state = "failed"
      /\ state \notin {"enriched", "reviewed", "available"}
  BY DEF States
<1>4. (Upstream(r) => Before[s] \in Low) /\ (Past(r) => Before[s] \in High)
  BY <1>1, <1>2 DEF Upstream, Past, Copied
<1>5. reqs'[r].pc = "idle" /\ \A q \in Requests \ {r} : reqs'[q] = reqs[q]
  BY <1>2, EndOK
<1> HIDE DEF state
<1> QED BY <1>1, <1>2, <1>3, <1>4, <1>5, Writes

LEMMA SetAgrees ==
  ASSUME IInv, NEW c \in Contents, Agrees(c), NEW r \in Requests, Set(r)
  PROVE  Agrees(c)'
<1> DEFINE state == To[reqs[r].op]
<1>1. /\ reqs[r].pc = "set" /\ Write(r, state, "none") /\ Ends(r)
      /\ UNCHANGED <<chunks, verdicts, overlap>> /\ reqs[r].op \in {"review", "release"}
  BY DEF Set, At, IInv, RequestsOK, RequestOK
<1>2. state \in States \ {"none", "failed"} /\ state \in High
  BY <1>1, ConcludesAre DEF States, High
<1>3. ~Upstream(r) /\ (Sound(r) => Settled(reqs[r].content))
  BY <1>1 DEF Upstream, Sound
<1>4. reqs'[r].pc = "idle" /\ \A q \in Requests \ {r} : reqs'[q] = reqs[q]
  BY <1>1, EndOK
<1> HIDE DEF state
<1> QED BY <1>1, <1>2, <1>3, <1>4, Writes DEF Settled

\* A reviewer goes on only from what the version has earned.
LEMMA CheckAgrees ==
  ASSUME IInv, NEW c \in Contents, Agrees(c), NEW r \in Requests, Check(r) \/ ListPending(r)
  PROVE  Agrees(c)'
<1>1. UNCHANGED <<rows, overlap>> /\ reqs[r].pc # "idle"
  BY DEF Check, ListPending, At
<1>2. CASE Ends(r)
  BY <1>1, <1>2, EndsAgrees
<1>3. CASE Check(r) /\ ~Ends(r)
  <2> DEFINE op == reqs[r].op
             pc == IF op = "review" THEN "list" ELSE "set"
  <2>1. /\ reqs[r].pc = "check" /\ op \in {"review", "release"}
        /\ versions[reqs[r].content].state = From[op] /\ Moves(r, pc)
    BY <1>3 DEF Check, At, IInv, RequestsOK, RequestOK
  <2>2. pc \in Pcs \ {"reset", "work", "save"} /\ pc \notin {"mark", "fail"}
    BY DEF Pcs
  <2>3. ASSUME reqs[r].content = c, Earned(c)
        PROVE  /\ Full(c) /\ (pc = "set" => Settled(c))
               /\ ~Early(c)
    <3>1. versions[c].state = IF pc = "list" THEN "enriched" ELSE "reviewed"
      BY <2>1, <2>3, ConcludesAre
    <3>2. Full(c) /\ (pc = "set" => Settled(c))
      BY <2>3, <3>1 DEF Earned, Settled
    <3>3. ~Early(c)
      BY <3>1 DEF Early, Base, Low
    <3> QED BY <3>2, <3>3
  <2> HIDE DEF pc
  <2> QED BY <1>1, <2>1, <2>2, <2>3, MovesAgrees
<1>4. CASE ListPending(r) /\ ~Ends(r)
  <2> DEFINE pc == "set"
  <2>1. reqs[r].pc = "list" /\ Moves(r, pc) /\ Undecided(reqs[r].content) = {}
    BY <1>4 DEF ListPending, At
  <2>2. pc \in Pcs \ {"reset", "work", "save"} /\ pc \notin {"mark", "fail", "list"}
    BY DEF Pcs
  <2>3. (Sound(r) => Settled(reqs[r].content)) /\ ~Upstream(r)
    BY <2>1 DEF Sound, Settled, Upstream
  <2>4. ASSUME overlap[c].kind # "mixed", reqs[r].content = c PROVE ~Early(c)
    BY <1>1, <2>3, <2>4, Under
  <2> HIDE DEF pc
  <2>5. CASE overlap[c].kind = "mixed"
    BY <1>1, <2>5 DEF Agrees
  <2>6. CASE overlap[c].kind # "mixed"
    BY <1>1, <2>1, <2>2, <2>3, <2>4, <2>6, MovesAgrees
  <2> QED BY <2>5, <2>6
<1> QED BY <1>2, <1>3, <1>4

\* The first that lays the chunks does so before any other has got as far; who comes later
\* lays the same.
LEMMA ReplaceAgrees ==
  ASSUME IInv, NEW c \in Contents, Agrees(c), NEW r \in Requests, ReplaceChunks(r)
  PROVE  Agrees(c)'
<1> DEFINE d == reqs[r].content
           laid == Cut(reqs[r].layout, d)
<1>1. /\ reqs[r].pc = "work" /\ UNCHANGED <<versions, verdicts, overlap>>
      /\ d \in Contents /\ reqs[r].layout \in Layouts /\ "chunked" \in Ahead(r)
  BY DEF ReplaceChunks, Does, At, IInv, RequestsOK, RequestOK, Copied
<1>2. reqs[r].state = "normalized"
  BY <1>1, StagesAre DEF Ahead
<1>3. CASE Moves(r, "fail") /\ UNCHANGED chunks
  <2>1. "fail" \in Pcs \ {"reset", "work", "save"}
    BY DEF Pcs
  <2>2. reqs[r].pc # "idle" /\ reqs[r].pc \in Copied /\ UNCHANGED <<rows, overlap>>
    BY <1>1, <1>3 DEF Copied, rows
  <2> QED BY <1>3, <2>1, <2>2, MovesAgrees
<1>4. CASE Moves(r, "mark") /\ chunks' = (chunks \ Of(d)) \cup laid
  <2>1. /\ \A q \in Requests \ {r} : reqs'[q] = reqs[q]
        /\ reqs'[r].pc = "mark" /\ reqs'[r].content = d
        /\ reqs'[r].layout = reqs[r].layout /\ reqs'[r].state = "normalized"
    BY <1>2, <1>4, MoveOK DEF Pcs
  <2>2. \A k \in laid : k[1] = d
    BY DEF Cut
  <2>3. CASE d # c
    <3>1. Of(c)' = Of(c)
      BY <1>4, <2>2, <2>3 DEF Of
    <3>2. Steady(c)
      BY <1>1, <3>1 DEF Steady, Settled, Undecided
    <3> QED BY <1>1, <2>1, <2>3, <3>2, Goes
  <2>4. CASE d = c /\ overlap[c].kind # "mixed"
    <3>1. Of(c)' = laid
      BY <1>4, <2>2, <2>4 DEF Of
    <3>2. /\ Early(c) \/ Late(c) \/ Laid(c)
          /\ Sound(r) /\ Earned(c)
          /\ Early(c) => Base(c) \in Low \cup {"none"} /\ Upstream(r)
          /\ Late(c) => Past(r)
      BY <1>1, <2>4, Under
    <3>3. ~Late(c)
      BY <1>1, <1>2, <3>2 DEF Past, Copied, High
    <3>4. /\ reqs[r].layout \in overlap[c].layouts
          /\ \A l, k \in overlap[c].layouts : l = k
      BY <1>1, <2>4, <3>2, IngestionAssumption DEF Sound, Agrees
    <3>5. Laid(c)'
      <4>1. overlap[c].layouts # {} /\ \A l \in overlap[c].layouts : l = reqs[r].layout
        BY <3>4
      <4>2. \A l \in overlap[c].layouts : Of(c)' = Cut(l, c)
        BY <2>4, <3>1, <4>1
      <4> QED BY <1>1, <4>1, <4>2 DEF Laid, Cut
    <3>6. CASE Laid(c)
      <4>1. Of(c)' = Of(c)
        BY <2>4, <3>1, <3>4, <3>6 DEF Laid
      <4>2. Steady(c)
        BY <1>1, <4>1 DEF Steady, Settled, Undecided
      <4>3. Sound(r)'
        BY <1>1, <2>1, <2>4, <3>2 DEF Sound
      <4>4. Earned(c)'
        BY <1>1, <3>2, <4>2, SteadyFull DEF Earned, Undecided
      <4>5. Agrees(c)'
        <5>1. \A q \in Others(c)' : Sound(q)'
          <6> SUFFICES ASSUME NEW q \in Others(c)' PROVE Sound(q)'
            OBVIOUS
          <6>1. CASE q = r
            BY <4>3, <6>1
          <6>2. CASE q # r
            <7>1. /\ q \in Requests /\ reqs'[q] = reqs[q] /\ reqs[q].content = c
                  /\ q \in Others(c)
              BY <2>1, <6>2 DEF Others, At
            <7>2. Sound(q)
              BY <2>4, <7>1 DEF Agrees
            <7> QED BY <1>1, <4>2, <7>1, <7>2, StillSound
          <6> QED BY <6>1, <6>2
        <5> QED BY <1>1, <3>4, <3>5, <4>4, <5>1 DEF Agrees
      <4> QED BY <4>5
    <3>7. CASE Early(c)
      <4>1. versions'[c].state \notin {"enriched", "reviewed", "available"}
        BY <1>1, <3>2, <3>7 DEF Base, Low
      <4>2. Earned(c)'
        BY <4>1 DEF Earned
      <4>3. \A q \in Others(c)' : Sound(q)'
        <5> SUFFICES ASSUME NEW q \in Others(c)' PROVE Sound(q)'
          OBVIOUS
        <5>1. CASE q = r
          BY <1>1, <2>1, <2>4, <3>2, <5>1 DEF Sound
        <5>2. CASE q # r
          <6>1. /\ q \in Requests /\ reqs'[q] = reqs[q] /\ reqs[q].content = c
                /\ q \in Others(c)
            BY <2>1, <5>2 DEF Others, At
          <6>2. Sound(q) /\ Upstream(q)
            BY <2>4, <3>7, <6>1 DEF Agrees, Early
          <6>3. reqs[q].pc \notin {"save", "mark", "list", "set"}
            BY <6>2 DEF Upstream
          <6> QED BY <1>1, <6>1, <6>2, <6>3 DEF Sound
        <5> QED BY <5>1, <5>2
      <4> QED BY <1>1, <3>4, <3>5, <4>2, <4>3 DEF Agrees
    <3> QED BY <3>2, <3>3, <3>6, <3>7
  <2>5. CASE overlap[c].kind = "mixed"
    BY <1>1, <2>5 DEF Agrees
  <2> QED BY <2>3, <2>4, <2>5
<1> QED BY <1>3, <1>4 DEF ReplaceChunks

LEMMA DecideAgrees ==
  ASSUME IInv, NEW c \in Contents, Agrees(c), NEW m \in Candidates,
         NEW verdict \in {"accepted", "rejected"}, DecideCandidate(m, verdict)
  PROVE  Agrees(c)'
<1>1. /\ UNCHANGED <<versions, chunks, reqs, overlap>>
      /\ verdicts \in [Candidates -> {"none", "candidate", "accepted", "rejected"}]
      /\ verdicts[m] = "candidate" /\ verdicts' = [verdicts EXCEPT ![m] = verdict]
  BY DEF DecideCandidate, IInv, ChunksOK
<1>2. Of(c)' = Of(c) /\ Others(c)' = Others(c) /\ Base(c)' = Base(c)
  BY <1>1 DEF Of, Others, At, Base
<1>3. Undecided(c)' \subseteq Undecided(c)
  BY <1>1 DEF Undecided
<1>4. Steady(c)
  BY <1>1, <1>2, <1>3 DEF Steady, Settled
<1> SUFFICES ASSUME overlap[c].kind # "mixed"
             PROVE  /\ Early(c)' \/ Late(c)' \/ Laid(c)'
                    /\ \A q \in Others(c)' : Sound(q)'
                    /\ Earned(c)'
  BY <1>1 DEF Agrees
<1>5. \A q \in Others(c) : Sound(q)'
  <2> SUFFICES ASSUME NEW q \in Others(c) PROVE Sound(q)'
    OBVIOUS
  <2> QED BY <1>1, <1>4, StillSound DEF Agrees, Others
<1>6. Earned(c)'
  BY <1>1, <1>3, <1>4, SteadyFull DEF Agrees, Earned
<1>7. (Early(c) => Early(c)') /\ (Late(c) => Late(c)') /\ (Laid(c) => Laid(c)')
  BY <1>1, <1>2 DEF Early, Late, Laid, Upstream, Past, Copied, Cut
<1> QED BY <1>2, <1>5, <1>6, <1>7 DEF Agrees

\* An operation starts: the first one sees the version as it stands, another one is of the
\* same configuration or the history is mixed.
LEMMA AskAgrees ==
  ASSUME IInv, NEW d \in Contents, Agrees(d), NEW r \in Requests, NEW c \in Contents,
         NEW given \in BOOLEAN, NEW l \in Layouts \cup {None},
         NEW op \in {"run", "review", "release"}, NEW pc \in {"add", "load", "check"},
         Ask(r, op, pc, c, given, l)
  PROVE  Agrees(d)'
<1> DEFINE x == [Idle EXCEPT !.pc = pc, !.op = op, !.content = c, !.given = given,
                             !.layout = l]
<1>1. x.pc = pc /\ x.content = c /\ x.layout = l
  BY DEF Idle
<1>2. /\ reqs[r].pc = "idle" /\ reqs' = [reqs EXCEPT ![r] = x]
      /\ overlap' = [overlap EXCEPT ![c] = Met(c, l)]
      /\ UNCHANGED <<versions, chunks, verdicts>>
  BY DEF Ask, At, rows
<1>3. reqs \in [Requests -> Request] /\ overlap \in [Contents -> Histories]
  BY DEF IInv, RequestsOK, HistoryOK
<1> HIDE DEF x
<1>4. reqs'[r] = x /\ \A q \in Requests \ {r} : reqs'[q] = reqs[q]
  BY <1>2, <1>3
<1>5. overlap'[c] = Met(c, l) /\ \A e \in Contents \ {c} : overlap'[e] = overlap[e]
  BY <1>2, <1>3
<1>6. /\ Steady(d) /\ (Full(d)' <=> Full(d)) /\ Undecided(d)' = Undecided(d)
      /\ Of(d)' = Of(d) /\ Base(d)' = Base(d) /\ (Earned(d)' <=> Earned(d))
  BY <1>2, RowsSteady DEF Earned, Base, Steady
<1>7. Others(d)' = IF d = c THEN Others(d) \cup {r} ELSE Others(d)
  BY <1>1, <1>2, <1>4 DEF Others, At
<1>8. \A q \in Others(d) : reqs'[q] = reqs[q] /\ q # r /\ q \in Requests /\ reqs[q].content = d
  BY <1>2, <1>4 DEF Others, At
<1>9. \A q \in Others(d) : (Upstream(q) => Upstream(q)') /\ (Past(q) => Past(q)')
  BY <1>8 DEF Upstream, Past, Copied
<1>10. Upstream(r)' /\ Past(r)'
  BY <1>1, <1>4 DEF Upstream, Past, Copied
<1>11. (Early(d) => Early(d)') /\ (Late(d) => Late(d)')
  BY <1>6, <1>7, <1>9, <1>10 DEF Early, Late, Cut
<1>12. CASE d # c
  <2>1. overlap'[d] = overlap[d]
    BY <1>5, <1>12
  <2> SUFFICES ASSUME overlap[d].kind # "mixed"
               PROVE  /\ Early(d)' \/ Late(d)' \/ Laid(d)'
                      /\ \A q \in Others(d) : Sound(q)'
                      /\ Earned(d)'
    BY <1>7, <1>12, <2>1 DEF Agrees
  <2>2. \A q \in Others(d) : Sound(q)'
    <3> SUFFICES ASSUME NEW q \in Others(d) PROVE Sound(q)'
      OBVIOUS
    <3> QED BY <1>6, <1>8, <2>1, StillSound DEF Agrees
  <2>3. Laid(d) => Laid(d)'
    BY <1>6, <2>1 DEF Laid, Cut
  <2> QED BY <1>6, <1>11, <2>2, <2>3 DEF Agrees
<1>13. CASE d = c
  <2> DEFINE layouts == (IF Others(d) = {} THEN {} ELSE overlap[d].layouts) \cup ({l} \ {None})
  <2>1. /\ overlap'[d].layouts = layouts
        /\ overlap'[d].kind # "mixed" =>
             /\ overlap[d].kind # "mixed"
             /\ Others(d) # {} => \A j, k \in layouts : j = k
    BY <1>5, <1>13 DEF Met
  <2> SUFFICES ASSUME overlap'[d].kind # "mixed"
               PROVE  /\ \A j, k \in layouts : j = k
                      /\ Early(d)' \/ Late(d)' \/ Laid(d)'
                      /\ \A q \in Others(d) \cup {r} : Sound(q)'
                      /\ Earned(d)'
    BY <1>7, <1>13, <2>1 DEF Agrees
  <2>2. /\ Early(d) \/ Late(d) \/ Laid(d)
        /\ \A q \in Others(d) : Sound(q)
        /\ Earned(d)
    BY <2>1 DEF Agrees
  <2>3. \A j, k \in layouts : j = k
    BY <2>1
  <2>4. Sound(r)'
    <3>1. l # None => l \in layouts
      OBVIOUS
    <3> HIDE DEF layouts
    <3> QED BY <1>1, <1>4, <1>13, <2>1, <3>1 DEF Sound
  <2>5. \A q \in Others(d) : Sound(q)'
    <3> SUFFICES ASSUME NEW q \in Others(d) PROVE Sound(q)'
      OBVIOUS
    <3>1. overlap[d].layouts \subseteq overlap'[d].layouts
      BY <2>1
    <3> QED BY <1>6, <1>8, <2>2, <3>1, StillSound
  <2>6. CASE Laid(d) /\ Others(d) # {}
    <3>1. layouts = overlap[d].layouts
      BY <2>3, <2>6 DEF Laid
    <3>2. Laid(d)'
      <4>1. overlap'[d].layouts = overlap[d].layouts
        BY <2>1, <3>1
      <4> QED BY <1>6, <2>6, <4>1 DEF Laid, Cut
    <3> QED BY <1>6, <2>2, <2>3, <2>4, <2>5, <3>2
  <2>7. CASE Laid(d) /\ Others(d) = {}
    <3>1. Base(d) \in {"none"} \cup Low \cup High
      <4>1. /\ versions[d].state \in States
            /\ versions[d].state = "failed" => versions[d].stage \in Stages
        BY DEF IInv, VersionsOK
      <4> QED BY <4>1, StatesAre DEF Base, High
    <3>2. \E j \in Layouts : Of(d) = Cut(j, d)
      <4>1. overlap[d].layouts \subseteq Layouts
        BY <1>3 DEF Histories
      <4> QED BY <2>7, <4>1 DEF Laid
    <3>3. Early(d) \/ Late(d)
      BY <2>7, <3>1, <3>2 DEF Early, Late
    <3> QED BY <1>6, <1>11, <2>2, <2>3, <2>4, <2>5, <3>3
  <2>8. CASE Early(d) \/ Late(d)
    BY <1>6, <1>11, <2>2, <2>3, <2>4, <2>5, <2>8
  <2> QED BY <2>2, <2>6, <2>7, <2>8
<1> QED BY <1>12, <1>13

LEMMA StepAgrees ==
  ASSUME IInv, CInv, [Next]_vars PROVE CInv'
<1> SUFFICES ASSUME NEW c \in Contents PROVE Agrees(c)'
  BY DEF CInv
<1>0. Agrees(c)
  BY DEF CInv
<1>1. ASSUME NEW r \in Requests, Serve(r) PROVE Agrees(c)'
  <2>1. CASE Ingest(r)
    BY <1>0, <2>1, AskAgrees DEF Ingest
  <2>2. CASE Resume(r)
    BY <1>0, <2>2, AskAgrees DEF Resume
  <2>3. CASE Conclude(r)
    BY <1>0, <2>3, AskAgrees DEF Conclude
  <2>4. CASE Stop(r) \/ Die(r)
    BY <1>0, <2>4, EndsAgrees DEF Stop, Die, At
  <2> QED BY <1>0, <1>1, <2>1, <2>2, <2>3, <2>4, AddVersionAgrees, LoadAgrees, ResetAgrees,
             StageAgrees, ReplaceAgrees, ListChunksAgrees, SaveAgrees, GoesOnAgrees,
             RecordAgrees, CheckAgrees, SetAgrees DEF Serve
<1>2. CASE UNCHANGED vars
  <2>1. UNCHANGED <<versions, chunks, verdicts, reqs, overlap>>
    BY <1>2 DEF vars, rows
  <2>2. /\ Steady(c) /\ Undecided(c)' = Undecided(c) /\ Of(c)' = Of(c)
        /\ Others(c)' = Others(c) /\ Base(c)' = Base(c) /\ (Earned(c)' <=> Earned(c))
    BY <2>1, RowsSteady DEF Steady, Others, At, Base, Earned
  <2>3. \A q \in Others(c) : Sound(q) => Sound(q)'
    BY <2>1, <2>2, StillSound DEF Others
  <2>4. (Early(c) => Early(c)') /\ (Late(c) => Late(c)') /\ (Laid(c) => Laid(c)')
    BY <2>1, <2>2 DEF Early, Late, Laid, Upstream, Past, Copied, Cut
  <2> QED BY <1>0, <2>1, <2>2, <2>3, <2>4 DEF Agrees
<1> QED BY <1>0, <1>1, <1>2, DecideAgrees DEF Next

LEMMA InitAgrees == ASSUME Init PROVE CInv
<1> SUFFICES ASSUME NEW c \in Contents PROVE Agrees(c)
  BY DEF CInv
<1>1. Others(c) = {}
  BY DEF Init, Others, At, Idle
<1>2. versions[c].state = "none" /\ overlap[c].layouts = {}
  BY DEF Init
<1>3. Early(c) /\ Earned(c)
  BY <1>1, <1>2 DEF Early, Base, Earned
<1> QED BY <1>1, <1>2, <1>3 DEF Agrees

\* However its runs stop, fail, resume and race with others of the same configuration,
\* reviews and releases among them, a version that is called enriched has the chunks of one
\* configuration and a candidate for every claim of theirs, and one that is called reviewed
\* has none undecided.
THEOREM RunsConverge == Spec => []Converged
<1>1. IInv /\ CInv => Converged
  <2> SUFFICES ASSUME IInv, CInv, NEW c \in Contents, overlap[c].kind # "mixed",
                      versions[c].state \in {"enriched", "reviewed", "available"}
               PROVE  /\ \E l \in Layouts : Of(c) = Cut(l, c)
                      /\ \A k \in Of(c) : \A m \in Claims(k) : verdicts[m] # "none"
                      /\ versions[c].state \in {"reviewed", "available"} => Undecided(c) = {}
    BY DEF Converged
  <2>1. Agrees(c)
    BY DEF CInv
  <2>2. Earned(c) /\ (Early(c) \/ Late(c) \/ Laid(c))
    BY <2>1 DEF Agrees
  <2>3. ~Early(c)
    BY DEF Early, Base, Low
  <2>4. overlap[c].layouts \subseteq Layouts
    BY DEF IInv, HistoryOK, Histories
  <2>5. \E l \in Layouts : Of(c) = Cut(l, c)
    BY <2>2, <2>3, <2>4 DEF Late, Laid
  <2> QED BY <2>2, <2>5 DEF Earned, Full
<1>2. Init => CInv
  BY InitAgrees
<1>3. IInv /\ CInv /\ [Next]_vars => CInv'
  BY StepAgrees
<1> QED BY <1>1, <1>2, <1>3, InvHolds, PTL DEF Spec

=============================================================================
