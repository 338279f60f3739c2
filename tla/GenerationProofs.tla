-------------------------- MODULE GenerationProofs --------------------------
(***************************************************************************)
(* For any number of questions, requests and reviewers, any contents and   *)
(* batches: what is published was judged, a content has one identity, a    *)
(* batch accounts for its specifications, and every question lives the     *)
(* life of ContentLife.                                                    *)
(*                                                                         *)
(* Many actors write the questions, but every transaction writes one row   *)
(* that is good by itself, whose fingerprint is nobody's and which may     *)
(* become what it becomes (Writes).  All that is proved of the rows is     *)
(* proved of such a write, once; of every action it is proved that it is   *)
(* one, however old the list is by which a request judges.  The batch      *)
(* then needs only that rows stay, and that a rejected one stays as it is. *)
(***************************************************************************)
EXTENDS Generation, TLAPS, FiniteSetTheorems

-----------------------------------------------------------------------------
(* The order of a batch *)

\* The order of a batch is an order: it has the specifications of the batch, as many places,
\* and no specification before a smaller one.
LEMMA OrderedSpecs ==
  ASSUME NEW specs \in Seq(Nat)
  PROVE  /\ Ordered(specs) \in Seq(Nat)
         /\ Len(Ordered(specs)) = Len(specs)
         /\ \A m, n \in 1 .. Len(specs) : m < n => Ordered(specs)[m] <= Ordered(specs)[n]
<1> DEFINE N == Len(specs)
           Upto(i) == {j \in DOMAIN specs :
                         specs[j] < specs[i] \/ (specs[j] = specs[i] /\ j <= i)}
           Place(i) == Cardinality(Upto(i))
           At(n) == CHOOSE i \in DOMAIN specs : Place(i) = n
<1>1. N \in Nat /\ DOMAIN specs = 1 .. N /\ \A i \in 1 .. N : specs[i] \in Nat
  OBVIOUS
<1> HIDE DEF N
<1>2. IsFiniteSet(1 .. N) /\ Cardinality(1 .. N) = N
  BY <1>1, FS_Interval
<1>3. \A i \in 1 .. N : IsFiniteSet(Upto(i)) /\ Upto(i) \subseteq 1 .. N /\ i \in Upto(i)
  <2> TAKE i \in 1 .. N
  <2>1. Upto(i) \subseteq 1 .. N /\ i \in Upto(i)
    BY <1>1
  <2> QED
    BY <1>2, <2>1, FS_Subset
<1>4. \A i \in 1 .. N : Place(i) \in 1 .. N
  <2> TAKE i \in 1 .. N
  <2> HIDE DEF Upto
  <2>1. Place(i) \in Nat /\ Place(i) <= N /\ Place(i) # 0
    BY <1>2, <1>3, FS_Subset, FS_EmptySet, FS_CardinalityType
  <2> QED
    BY <1>1, <2>1
<1>5. \A i, j \in 1 .. N :
         (specs[i] < specs[j] \/ (specs[i] = specs[j] /\ i < j)) => Place(i) < Place(j)
  <2> TAKE i, j \in 1 .. N
  <2> HAVE specs[i] < specs[j] \/ (specs[i] = specs[j] /\ i < j)
  <2>1. Upto(i) \subseteq Upto(j) /\ j \notin Upto(i)
    BY <1>1
  <2> HIDE DEF Upto
  <2>2. Upto(i) # Upto(j)
    BY <1>3, <2>1
  <2>3. Place(i) <= Place(j) /\ Place(i) # Place(j)
    BY <1>3, <2>1, <2>2, FS_Subset
  <2>4. Place(i) \in Nat /\ Place(j) \in Nat
    BY <1>3, FS_CardinalityType
  <2> QED
    BY <2>3, <2>4
<1> HIDE DEF Place
<1>6. \A n \in 1 .. N : \E i \in 1 .. N : Place(i) = n
  <2> SUFFICES ASSUME NEW n \in 1 .. N, \A i \in 1 .. N : Place(i) # n PROVE FALSE
    OBVIOUS
  <2> DEFINE f == [i \in 1 .. N |-> Place(i)]
             T == (1 .. N) \ {n}
  <2>1. f \in [1 .. N -> T]
    BY <1>4
  <2>2. IsFiniteSet(T) /\ Cardinality(T) = N - 1
    BY <1>1, <1>2, FS_RemoveElement
  <2>3. Cardinality(T) < Cardinality(1 .. N)
    BY <1>1, <1>2, <2>2
  <2> HIDE DEF f, T
  <2>4. PICK i, j \in 1 .. N : i # j /\ f[i] = f[j]
    BY <1>2, <2>1, <2>2, <2>3, FS_PigeonHole
  <2>5. Place(i) = Place(j)
    BY <2>4 DEF f
  <2>6. Place(i) \in Nat
    BY <1>4
  <2>7. Place(i) < Place(j) \/ Place(j) < Place(i)
    BY <1>1, <1>5, <2>4
  <2> QED
    BY <2>5, <2>6, <2>7
<1>7. \A n \in 1 .. N : At(n) \in 1 .. N /\ Place(At(n)) = n
  BY <1>1, <1>6
<1>8. Ordered(specs) = [n \in 1 .. N |-> specs[At(n)]]
  BY <1>1 DEF Ordered, Place, Upto
<1> HIDE DEF At
<1>9. \A m, n \in 1 .. N : m < n => specs[At(m)] <= specs[At(n)]
  <2> TAKE m, n \in 1 .. N
  <2> HAVE m < n
  <2>1. specs[At(m)] \in Nat /\ specs[At(n)] \in Nat
    BY <1>1, <1>7
  <2>2. CASE specs[At(n)] < specs[At(m)]
    <3>1. Place(At(n)) < Place(At(m))
      BY <1>5, <1>7, <2>2
    <3> QED
      BY <1>1, <1>7, <3>1
  <2> QED
    BY <2>1, <2>2
<1>10. Ordered(specs) \in Seq(Nat) /\ Len(Ordered(specs)) = N
  BY <1>1, <1>7, <1>8
<1>11. \A m, n \in 1 .. N : m < n => Ordered(specs)[m] <= Ordered(specs)[n]
  BY <1>8, <1>9
<1> QED
  BY <1>10, <1>11 DEF N

-----------------------------------------------------------------------------
(* The inductive invariant *)

PrintOf(row) == IF row.origin = "unknown" THEN None ELSE row.item.print

\* What is true of every row that is stored, whoever wrote it.
GoodRow(row) ==
  /\ row \in RowType
  /\ row.index = PrintOf(row)
  /\ row.state = "human_reviewed" => row.review # None
  /\ row.state # "published" => row.via = "none"
  /\ row.state = "published" =>
       /\ row.item.hard => row.review # None
       /\ row.via = "gates" => row.item.sound /\ ~AnswerFails(row) /\ ~AnswerOpen(row)

GoodRows ==
  /\ rows = [id \in Ids |-> rows[id]]
  /\ \A id \in Ids : rows[id] # None => GoodRow(rows[id])

OneIndex ==
  \A i, j \in Ids :
    i # j /\ Live(i) /\ Live(j) /\ rows[i].index # None => rows[i].index # rows[j].index

RowsInv == GoodRows /\ OneIndex

ReqsInv ==
  /\ reqs = [r \in Requests |-> reqs[r]]
  /\ \A r \in Requests :
       /\ reqs[r].pc \in {"idle", "listed"}
       /\ reqs[r].pc = "listed" => reqs[r].id \in Ids /\ rows[reqs[r].id] # None
       /\ reqs[r].op = "review" => reqs[r].review \in Reviews

-----------------------------------------------------------------------------
(* Writing one row *)

\* Nobody else that is alive has the fingerprint.
Unclaimed(id, row) ==
  \/ row.state = "rejected"
  \/ row.index = None
  \/ \A o \in Ids \ {id} : Live(o) => rows[o].index # row.index

\* A question may be what it becomes.
Allowed(id, row) ==
  \/ rows[id] = None /\ row.state \in {"draft", "ai_validated"}
  \/ /\ rows[id] # None
     /\ rows[id].state \notin Terminal
     /\ \/ row.state = "draft"
        \/ row.item = rows[id].item /\ row.state = "rejected"
        \/ row.item = rows[id].item /\ <<rows[id].state, row.state>> \in L!Follows

Writes(id, row) ==
  /\ GoodRow(row)
  /\ Unclaimed(id, row)
  /\ Allowed(id, row)
  /\ rows' = [rows EXCEPT ![id] = row]

WriteOne == \E id \in Ids : \E row : Writes(id, row)

\* A write leaves one good row more, and no fingerprint twice.
LEMMA WriteKeepsRows ==
  ASSUME RowsInv, NEW id \in Ids, NEW row, Writes(id, row)
  PROVE  RowsInv'
<1>1. \A o \in Ids : rows'[o] = IF o = id THEN row ELSE rows[o]
  BY DEF Writes, RowsInv, GoodRows
<1>2. rows' = [o \in Ids |-> rows'[o]]
  BY DEF Writes, RowsInv, GoodRows
<1>3. GoodRow(row)
  BY DEF Writes
<1>4. ASSUME NEW o \in Ids, rows'[o] # None PROVE GoodRow(rows'[o])
  BY <1>1, <1>3, <1>4 DEF RowsInv, GoodRows
<1>5. ASSUME NEW o \in Ids PROVE GoodRow(rows[o])' = GoodRow(rows'[o])
  BY DEF GoodRow, PrintOf, AnswerFails, AnswerOpen, Cautious, Verified
<1>6. GoodRows'
  BY <1>2, <1>4, <1>5 DEF GoodRows
<1>7. ASSUME NEW i \in Ids, NEW j \in Ids, i # j, Live(i)', Live(j)', rows'[i].index # None
      PROVE  rows'[i].index # rows'[j].index
  <2>1. CASE i # id /\ j # id
    BY <1>1, <1>7, <2>1 DEF RowsInv, OneIndex, Live
  <2>2. CASE i = id
    <3>1. /\ rows'[i] = row /\ row.state # "rejected"
          /\ rows'[j] = rows[j] /\ Live(j) /\ j \in Ids \ {id}
      BY <1>1, <1>7, <2>2 DEF Live
    <3> QED
      BY <1>7, <3>1 DEF Writes, Unclaimed
  <2>3. CASE j = id
    <3>1. /\ rows'[j] = row /\ row.state # "rejected"
          /\ rows'[i] = rows[i] /\ Live(i) /\ i \in Ids \ {id}
      BY <1>1, <1>7, <2>3 DEF Live
    <3> QED
      BY <1>7, <3>1 DEF Writes, Unclaimed
  <2> QED
    BY <2>1, <2>2, <2>3
<1>8. OneIndex'
  BY <1>7 DEF OneIndex
<1> QED
  BY <1>6, <1>8 DEF RowsInv

\* What is stored stays stored, and what is rejected stays as it is.
RowsRemain ==
  \A id \in Ids :
    rows[id] # None =>
      /\ rows'[id] # None
      /\ rows[id].state = "rejected" => rows'[id] = rows[id]

LEMMA WriteRemains ==
  ASSUME RowsInv, WriteOne
  PROVE  RowsRemain
<1>1. PICK id \in Ids : \E row : Writes(id, row)
  BY DEF WriteOne
<1>2. PICK row : Writes(id, row)
  BY <1>1
<1>3. \A o \in Ids : rows'[o] = IF o = id THEN row ELSE rows[o]
  BY <1>2 DEF Writes, RowsInv, GoodRows
<1>4. row # None
  BY <1>2, NoneAssumption DEF Writes, GoodRow
<1>5. rows[id] # None => rows[id].state # "rejected"
  BY <1>2 DEF Writes, Allowed, Terminal
<1> QED
  BY <1>3, <1>4, <1>5 DEF RowsRemain

\* A write is a step of the life of its question.
LEMMA WriteLives ==
  ASSUME RowsInv, WriteOne
  PROVE  L!Next
<1> DEFINE life == [o \in Ids |-> Life(o)]
<1>1. PICK id \in Ids : \E row : Writes(id, row)
  BY DEF WriteOne
<1>2. PICK row : Writes(id, row)
  BY <1>1
<1>3. \A o \in Ids : rows'[o] = IF o = id THEN row ELSE rows[o]
  BY <1>2 DEF Writes, RowsInv, GoodRows
<1>4. row # None /\ row.item \in Items /\ row.state \in States
  BY <1>2, NoneAssumption DEF Writes, GoodRow, RowType
<1>5. life' = [life EXCEPT ![id] = [item |-> row.item, state |-> row.state]]
  BY <1>3, <1>4 DEF Life
<1>6. life[id] = IF rows[id] = None THEN None ELSE [item |-> rows[id].item, state |-> rows[id].state]
  BY DEF Life
<1> HIDE DEF life
<1>7. L!Set(id, row.item, row.state)
  BY <1>5 DEF L!Set, life
<1>8. CASE rows[id] = None /\ row.state \in {"draft", "ai_validated"}
  <2>1. L!Store(id, row.item, row.state)
    BY <1>6, <1>7, <1>8 DEF L!Store, life
  <2> QED
    BY <1>4, <1>8, <2>1 DEF L!Next
<1>9. CASE rows[id] # None /\ rows[id].state \notin Terminal
  <2>1. rows[id].item \in Items /\ rows[id].state \in States
    BY <1>9 DEF RowsInv, GoodRows, GoodRow, RowType
  <2>2. life[id] # None /\ life[id].item = rows[id].item /\ life[id].state = rows[id].state
    BY <1>6, <1>9, <2>1, NoneAssumption
  <2>3. L!Alive(id)
    BY <1>9, <2>2 DEF L!Alive, life, Terminal
  <2>4. CASE row.state = "draft"
    <3>1. L!Edit(id, row.item)
      BY <1>7, <2>3, <2>4 DEF L!Edit
    <3> QED
      BY <1>4, <3>1 DEF L!Next
  <2>5. CASE row.item = rows[id].item /\ row.state = "rejected"
    <3>1. L!Reject(id)
      BY <1>7, <2>2, <2>3, <2>5 DEF L!Reject, life
    <3> QED
      BY <3>1 DEF L!Next
  <2>6. CASE row.item = rows[id].item /\ <<rows[id].state, row.state>> \in L!Follows
    <3>1. L!Advance(id, row.state)
      BY <1>7, <2>2, <2>3, <2>6 DEF L!Advance, life
    <3>2. row.state \in {"ai_validated", "human_reviewed", "published"}
      BY <2>6 DEF L!Follows
    <3> QED
      BY <3>1, <3>2 DEF L!Next
  <2> QED
    BY <1>2, <1>9, <2>4, <2>5, <2>6 DEF Writes, Allowed
<1> QED
  BY <1>2, <1>8, <1>9 DEF Writes, Allowed

-----------------------------------------------------------------------------
(* What a transaction writes *)

\* Moving a row to a state changes its state, and its fingerprint to what it should be.
LEMMA ToRow ==
  \A row \in RowType : \A state \in States :
    /\ To(row, state) \in RowType
    /\ To(row, state).state = state
    /\ To(row, state).index = PrintOf(row)
    /\ To(row, state).item = row.item
    /\ To(row, state).origin = row.origin
    /\ To(row, state).review = row.review
    /\ To(row, state).rederived = row.rederived
    /\ To(row, state).via = row.via
<1> TAKE row \in RowType
<1> TAKE state \in States
<1> DEFINE moved == [row EXCEPT !.state = state]
<1>1. /\ moved \in RowType /\ moved.state = state /\ moved.item = row.item
      /\ moved.origin = row.origin /\ moved.review = row.review
      /\ moved.rederived = row.rederived /\ moved.via = row.via
  BY DEF RowType
<1>2. PrintOf(row) \in Prints \cup {None}
  BY DEF PrintOf, Prints, RowType
<1>3. To(row, state) = [moved EXCEPT !.index = PrintOf(row)]
  BY <1>1 DEF To, Reindexed, PrintOf
<1> HIDE DEF moved
<1>4. /\ To(row, state) \in RowType
      /\ To(row, state).index = PrintOf(row)
  BY <1>1, <1>2, <1>3 DEF RowType
<1> QED
  BY <1>1, <1>3, <1>4 DEF RowType

\* The answer gates look at the content, the origin, the review and the second derivation.
LEMMA SameAnswer ==
  ASSUME NEW p, NEW q, p.item = q.item, p.origin = q.origin, p.review = q.review,
         p.rederived = q.rederived
  PROVE  AnswerFails(p) = AnswerFails(q) /\ AnswerOpen(p) = AnswerOpen(q)
BY DEF AnswerFails, AnswerOpen, Cautious, Verified

\* A row that moves short of publication is good.
LEMMA ToGood ==
  ASSUME NEW row \in RowType, row.via = "none"
  PROVE  /\ GoodRow(To(row, "ai_validated"))
         /\ GoodRow(To(row, "rejected"))
         /\ row.review # None => GoodRow(To(row, "human_reviewed"))
<1>1. ASSUME NEW state \in States, state # "published",
             state = "human_reviewed" => row.review # None
      PROVE  GoodRow(To(row, state))
  <2> DEFINE moved == To(row, state)
  <2>1. /\ moved \in RowType /\ moved.state = state /\ moved.index = PrintOf(row)
        /\ moved.item = row.item /\ moved.origin = row.origin /\ moved.review = row.review
        /\ moved.via = row.via
    BY ToRow
  <2> HIDE DEF moved
  <2>2. PrintOf(moved) = PrintOf(row)
    BY <2>1 DEF PrintOf
  <2>3. GoodRow(moved)
    BY <1>1, <2>1, <2>2 DEF GoodRow
  <2> QED
    BY <2>3 DEF moved
<1> QED
  BY <1>1 DEF States

\* A row with the fingerprint it had takes nobody's.
LEMMA Kept ==
  ASSUME RowsInv, NEW id \in Ids, rows[id] # None, rows[id].state # "rejected",
         NEW row, row.index = rows[id].index
  PROVE  Unclaimed(id, row)
BY DEF Unclaimed, RowsInv, OneIndex, Live

LEMMA CollidesNot ==
  ASSUME NEW id \in Ids, NEW row, ~Collides(id, row)
  PROVE  Unclaimed(id, row)
BY DEF Collides, Unclaimed

\* A new question is a good row, and its fingerprint is free.
LEMMA NewRow ==
  ASSUME RowsInv, NEW id \in Ids, rows[id] = None, NEW item \in Items, Same(item) = {},
         NEW origin \in Origins, origin # "unknown", NEW rederived \in Rederivations,
         NEW seed \in (Nat \X Prints) \cup {None}, Stored(id, item, origin, rederived, seed)
  PROVE  WriteOne
<1> DEFINE row == Row(item, origin, "draft", rederived, item.print, seed)
<1>1. row \in RowType
  BY DEF Row, RowType, Prints, States
<1>2. GoodRow(row)
  BY <1>1 DEF GoodRow, Row, PrintOf
<1>3. Unclaimed(id, row)
  BY DEF Unclaimed, Row, Same
<1>4. Allowed(id, row)
  BY DEF Allowed, Row
<1>5. rows' = [rows EXCEPT ![id] = row]
  BY DEF Stored
<1> QED
  BY <1>2, <1>3, <1>4, <1>5 DEF Writes, WriteOne

-----------------------------------------------------------------------------
(* Every write is a write of one row *)

LEMMA CreateDraftWrites ==
  ASSUME RowsInv, NEW id \in Ids, NEW item \in Items, NEW origin \in Origins \ {"unknown"},
         NEW answer \in Rederivations, CreateDraft(id, item, origin, answer)
  PROVE  WriteOne
BY NewRow DEF CreateDraft

LEMMA EditWrites ==
  ASSUME RowsInv, NEW id \in Ids, NEW item \in Items, NEW answer \in Rederivations,
         Edit(id, item, answer)
  PROVE  WriteOne
<1> DEFINE row == Edited(rows[id], item, answer)
           edited == [rows[id] EXCEPT !.item = item, !.rederived = answer, !.state = "draft",
                                      !.review = None]
<1>1. /\ rows[id] # None /\ rows[id].state \notin Terminal
      /\ ~Collides(id, row)
      /\ rows' = [rows EXCEPT ![id] = row]
  BY DEF Edit
<1>2. GoodRow(rows[id])
  BY <1>1 DEF RowsInv, GoodRows
<1>3. rows[id] \in RowType /\ rows[id].via = "none"
  BY <1>1, <1>2 DEF GoodRow, Terminal
<1>4. /\ edited \in RowType /\ edited.state = "draft" /\ edited.via = "none"
      /\ edited.origin = rows[id].origin /\ edited.item = item
  BY <1>3 DEF RowType, States
<1>5. row = [edited EXCEPT !.index = PrintOf(edited)]
  BY DEF Edited, Reindexed, PrintOf
<1>6. PrintOf(edited) \in Prints \cup {None}
  BY <1>4 DEF PrintOf, Prints
<1> HIDE DEF edited
<1>7. /\ row \in RowType /\ row.state = "draft" /\ row.via = "none" /\ row.index = PrintOf(edited)
      /\ row.origin = edited.origin /\ row.item = edited.item
  BY <1>4, <1>5, <1>6 DEF RowType
<1> HIDE DEF row
<1>8. GoodRow(row)
  BY <1>7 DEF GoodRow, PrintOf
<1>9. Unclaimed(id, row)
  BY <1>1, CollidesNot
<1>10. Allowed(id, row)
  BY <1>1, <1>7 DEF Allowed
<1> QED
  BY <1>1, <1>8, <1>9, <1>10 DEF Writes, WriteOne

\* Rejecting a question that can be rejected is a write.
LEMMA RejectionWrites ==
  ASSUME RowsInv, NEW id \in Ids, rows[id] # None, rows[id].state \notin Terminal,
         rows' = [rows EXCEPT ![id] = To(rows[id], "rejected")]
  PROVE  WriteOne
<1> DEFINE row == To(rows[id], "rejected")
<1>1. rows[id] \in RowType /\ rows[id].via = "none"
  BY DEF RowsInv, GoodRows, GoodRow, Terminal
<1>2. "rejected" \in States
  BY DEF States
<1>3. GoodRow(row)
  BY <1>1, ToGood
<1>4. row.state = "rejected" /\ row.item = rows[id].item
  BY <1>1, <1>2, ToRow
<1>5. Unclaimed(id, row) /\ Allowed(id, row)
  BY <1>4 DEF Unclaimed, Allowed
<1> QED
  BY <1>3, <1>5 DEF Writes, WriteOne

LEMMA RejectWrites ==
  ASSUME RowsInv, NEW id \in Ids, Reject(id)
  PROVE  WriteOne
<1>1. /\ rows[id] # None /\ rows[id].state \notin Terminal
      /\ rows' = [rows EXCEPT ![id] = To(rows[id], "rejected")]
  BY DEF Reject
<1> QED
  BY <1>1, RejectionWrites

LEMMA ImportWrites ==
  ASSUME RowsInv, NEW id \in Ids, NEW item \in Items, Import(id, item)
  PROVE  WriteOne
<1> DEFINE row == Row(item, "unknown", "ai_validated", None, None, None)
<1>1. rows[id] = None /\ rows' = [rows EXCEPT ![id] = row]
  BY DEF Import
<1>2. row \in RowType
  BY AuthoringAssumption DEF Row, RowType, States, Origins
<1>3. GoodRow(row)
  BY <1>2 DEF GoodRow, Row, PrintOf
<1>4. Unclaimed(id, row) /\ Allowed(id, row)
  BY <1>1 DEF Unclaimed, Allowed, Row
<1> QED
  BY <1>1, <1>3, <1>4 DEF Writes, WriteOne

LEMMA DecidePublishWrites ==
  ASSUME RowsInv, NEW id \in Ids, DecidePublish(id)
  PROVE  WriteOne
<1> DEFINE row == [rows[id] EXCEPT !.state = "published", !.via = "decision"]
<1>1. rows[id] # None /\ DecidesToPublish(rows[id])
  BY DEF DecidePublish
<1>2. GoodRow(rows[id])
  BY <1>1 DEF RowsInv, GoodRows
<1>3. /\ row \in RowType /\ row.state = "published" /\ row.via = "decision"
      /\ row.item = rows[id].item /\ row.review = rows[id].review
      /\ row.index = rows[id].index /\ row.origin = rows[id].origin
  BY <1>2 DEF GoodRow, RowType, States
<1>4. rows' = [rows EXCEPT ![id] = row]
  BY <1>2 DEF DecidePublish, RowsInv, GoodRows, GoodRow, RowType
<1> HIDE DEF row
<1>5. GoodRow(row)
  BY <1>1, <1>2, <1>3 DEF GoodRow, PrintOf, DecidesToPublish
<1>6. rows[id].state \in {"ai_validated", "human_reviewed"}
  BY <1>1 DEF DecidesToPublish
<1>7. Unclaimed(id, row)
  BY <1>1, <1>3, <1>6, Kept
<1>8. Allowed(id, row)
  BY <1>1, <1>3, <1>6 DEF Allowed, Terminal, L!Follows
<1> QED
  BY <1>4, <1>5, <1>7, <1>8 DEF Writes, WriteOne

-----------------------------------------------------------------------------
(* The requests *)

LEMMA AuthorWrites ==
  ASSUME RowsInv, Author
  PROVE  WriteOne
<1>1. CASE \E id \in Ids, item \in Items, answer \in Rederivations :
             \E origin \in Origins \ {"unknown"} : CreateDraft(id, item, origin, answer)
  BY <1>1, CreateDraftWrites
<1>2. CASE \E id \in Ids, item \in Items, answer \in Rederivations : Edit(id, item, answer)
  BY <1>2, EditWrites
<1>3. CASE \E id \in Ids, item \in Items : Import(id, item)
  BY <1>3, ImportWrites
<1>4. CASE \E id \in Ids : Reject(id)
  BY <1>4, RejectWrites
<1>5. CASE \E id \in Ids : DecidePublish(id)
  BY <1>5, DecidePublishWrites
<1> QED
  BY <1>1, <1>2, <1>3, <1>4, <1>5 DEF Author

\* Saving a good row that may be what it becomes is a write, or nothing happens.
LEMMA SaveWrites ==
  ASSUME RowsInv, NEW r \in Requests, reqs[r].id \in Ids, NEW row, GoodRow(row),
         Allowed(reqs[r].id, row), Save(r, row)
  PROVE  WriteOne \/ UNCHANGED rows
<1>1. CASE Collides(reqs[r].id, row)
  BY <1>1 DEF Save
<1>2. CASE ~Collides(reqs[r].id, row)
  <2>1. Unclaimed(reqs[r].id, row)
    BY <1>2, CollidesNot
  <2>2. rows' = [rows EXCEPT ![reqs[r].id] = row]
    BY <1>2 DEF Save
  <2> QED
    BY <2>1, <2>2 DEF Writes, WriteOne
<1> QED
  BY <1>1, <1>2

LEMMA ValidateWrites ==
  ASSUME RowsInv, ReqsInv, NEW r \in Requests, Validate(r)
  PROVE  WriteOne \/ UNCHANGED rows
<1> DEFINE row == rows[reqs[r].id]
<1>1. reqs[r].id \in Ids /\ row # None
  BY DEF Validate, ReqsInv
<1>2. CASE Validates(row, reqs[r].id, reqs[r].refs)
  <2>1. row.state = "draft"
    BY <1>2 DEF Validates
  <2>2. row \in RowType /\ row.via = "none"
    BY <1>1, <2>1 DEF RowsInv, GoodRows, GoodRow
  <2>3. GoodRow(To(row, "ai_validated"))
    BY <2>2, ToGood
  <2>4. "ai_validated" \in States
    BY DEF States
  <2>5. To(row, "ai_validated").state = "ai_validated" /\ To(row, "ai_validated").item = row.item
    BY <2>2, <2>4, ToRow
  <2>6. Allowed(reqs[r].id, To(row, "ai_validated"))
    BY <1>1, <2>1, <2>5 DEF Allowed, L!Follows, Terminal
  <2>7. Save(r, To(row, "ai_validated"))
    BY <1>2 DEF Validate
  <2> QED
    BY <1>1, <2>3, <2>6, <2>7, SaveWrites
<1>3. CASE ~Validates(row, reqs[r].id, reqs[r].refs)
  BY <1>3 DEF Validate
<1> QED
  BY <1>2, <1>3

LEMMA ReviewWrites ==
  ASSUME RowsInv, ReqsInv, NEW r \in Requests, Review(r)
  PROVE  WriteOne \/ UNCHANGED rows
<1> DEFINE row == rows[reqs[r].id]
           reviewed == [row EXCEPT !.review = reqs[r].review]
<1>1. reqs[r].id \in Ids /\ row # None /\ reqs[r].review \in Reviews
  BY DEF Review, ReqsInv
<1>2. CASE reviewed.state # "ai_validated"
  BY <1>2 DEF Review
<1>3. CASE reviewed.state = "ai_validated"
  <2>1. GoodRow(row)
    BY <1>1 DEF RowsInv, GoodRows
  <2>2. row.state = "ai_validated"
    BY <1>3, <2>1 DEF GoodRow, RowType
  <2>3. /\ reviewed \in RowType /\ reviewed.via = "none" /\ reviewed.item = row.item
        /\ reviewed.review # None
    BY <1>1, <2>1, <2>2, NoneAssumption DEF GoodRow, RowType
  <2>4. \/ UNCHANGED rows
        \/ Save(r, To(reviewed, "rejected"))
        \/ Save(r, To(reviewed, "human_reviewed"))
    BY <1>3 DEF Review
  <2> HIDE DEF reviewed
  <2>5. "rejected" \in States /\ "human_reviewed" \in States
    BY DEF States
  <2>6. /\ To(reviewed, "rejected").state = "rejected"
        /\ To(reviewed, "rejected").item = row.item
        /\ To(reviewed, "human_reviewed").state = "human_reviewed"
        /\ To(reviewed, "human_reviewed").item = row.item
    BY <2>3, <2>5, ToRow
  <2>7. GoodRow(To(reviewed, "rejected")) /\ GoodRow(To(reviewed, "human_reviewed"))
    BY <2>3, ToGood
  <2>8. /\ Allowed(reqs[r].id, To(reviewed, "rejected"))
        /\ Allowed(reqs[r].id, To(reviewed, "human_reviewed"))
    BY <1>1, <2>2, <2>6 DEF Allowed, L!Follows, Terminal
  <2> QED
    BY <1>1, <2>4, <2>7, <2>8, SaveWrites
<1> QED
  BY <1>2, <1>3

\* Whoever is published by a request has passed every gate as it is in the transaction.
LEMMA PublishWrites ==
  ASSUME RowsInv, ReqsInv, NEW r \in Requests, Publish(r)
  PROVE  WriteOne \/ UNCHANGED rows
<1> DEFINE row == rows[reqs[r].id]
           moved == To(row, "published")
           published == [moved EXCEPT !.via = "gates"]
<1>1. reqs[r].id \in Ids /\ row # None
  BY DEF Publish, ReqsInv
<1>2. CASE Publishable(row, reqs[r].id, reqs[r].refs)
  <2>1. GoodRow(row)
    BY <1>1 DEF RowsInv, GoodRows
  <2>2. DecidesToPublish(row)
    BY <1>2 DEF Publishable
  <2>3. Failed(row, reqs[r].id, reqs[r].refs) = {}
    BY <1>2 DEF Publishable
  <2>4. RequiresHuman(row, reqs[r].id, reqs[r].refs) = {}
    BY <1>2 DEF Publishable
  <2>5. "content" \notin Failed(row, reqs[r].id, reqs[r].refs)
    BY <2>3
  <2>6. "answer" \notin Failed(row, reqs[r].id, reqs[r].refs)
    BY <2>3
  <2>7. "answer" \notin RequiresHuman(row, reqs[r].id, reqs[r].refs)
    BY <2>4
  <2>8. row.item.sound
    BY <2>5 DEF Failed
  <2>9. ~AnswerFails(row)
    BY <2>6 DEF Failed
  <2>10. ~AnswerOpen(row)
    BY <2>7, <2>9 DEF RequiresHuman
  <2>11. Save(r, published)
    BY <1>2 DEF Publish
  <2>12. "published" \in States
    BY DEF States
  <2>13. /\ moved \in RowType /\ moved.state = "published" /\ moved.index = PrintOf(row)
         /\ moved.item = row.item /\ moved.origin = row.origin /\ moved.review = row.review
         /\ moved.rederived = row.rederived
    BY <2>1, <2>12, ToRow DEF GoodRow
  <2> HIDE DEF moved
  <2>14. /\ published \in RowType /\ published.state = "published" /\ published.via = "gates"
         /\ published.index = PrintOf(row) /\ published.item = row.item
         /\ published.origin = row.origin /\ published.review = row.review
         /\ published.rederived = row.rederived
    BY <2>13 DEF RowType
  <2> HIDE DEF published
  <2>15. ~AnswerFails(published) /\ ~AnswerOpen(published)
    BY <2>9, <2>10, <2>14, SameAnswer
  <2>16. published.item.hard => published.review # None
    BY <2>1, <2>2, <2>14 DEF DecidesToPublish, GoodRow
  <2>17. GoodRow(published)
    BY <2>8, <2>14, <2>15, <2>16 DEF GoodRow, PrintOf
  <2>18. Allowed(reqs[r].id, published)
    BY <1>1, <2>2, <2>14 DEF Allowed, DecidesToPublish, L!Follows, Terminal
  <2> QED
    BY <1>1, <2>11, <2>17, <2>18, SaveWrites
<1>3. CASE ~Publishable(row, reqs[r].id, reqs[r].refs)
  BY <1>3 DEF Publish
<1> QED
  BY <1>2, <1>3

LEMMA AskUnchanged ==
  ASSUME NEW r \in Requests, AskValidate(r) \/ AskReview(r) \/ AskPublish(r)
  PROVE  UNCHANGED rows
BY DEF AskValidate, AskReview, AskPublish, Ask

\* A request either writes one row or none.
LEMMA ServeWrites ==
  ASSUME RowsInv, ReqsInv, NEW r \in Requests, Serve(r)
  PROVE  WriteOne \/ UNCHANGED rows
<1>1. CASE AskValidate(r) \/ AskReview(r) \/ AskPublish(r)
  BY <1>1, AskUnchanged
<1>2. CASE Validate(r)
  BY <1>2, ValidateWrites
<1>3. CASE Review(r)
  BY <1>3, ReviewWrites
<1>4. CASE Publish(r)
  BY <1>4, PublishWrites
<1> QED
  BY <1>1, <1>2, <1>3, <1>4 DEF Serve

\* Requests are asked for questions there are, and answered.
ReqsStep ==
  \/ UNCHANGED reqs
  \/ \E r \in Requests : reqs' = [reqs EXCEPT ![r] = Idle]
  \/ \E r \in Requests, id \in Ids, op \in {"validate", "review", "publish"},
        review \in Reviews \cup {None}, decision \in {"none", "approve", "reject"} :
       /\ rows[id] # None
       /\ op = "review" => review \in Reviews
       /\ reqs' = [reqs EXCEPT ![r] =
            [pc |-> "listed", op |-> op, id |-> id, review |-> review, decision |-> decision,
             refs |-> Refs(rows)]]

LEMMA ServeSteps ==
  ASSUME NEW r \in Requests, Serve(r)
  PROVE  ReqsStep
<1>1. CASE AskValidate(r)
  BY <1>1 DEF AskValidate, Ask, ReqsStep
<1>2. CASE AskReview(r)
  <2>1. PICK id \in Ids, review \in Reviews, decision \in Decisions :
          Ask(r, "review", id, review, decision)
    BY <1>2 DEF AskReview
  <2>2. decision \in {"none", "approve", "reject"} /\ review \in Reviews \cup {None}
    BY DEF Decisions
  <2>3. /\ rows[id] # None
        /\ reqs' = [reqs EXCEPT ![r] =
             [pc |-> "listed", op |-> "review", id |-> id, review |-> review,
              decision |-> decision, refs |-> Refs(rows)]]
    BY <2>1 DEF Ask
  <2> QED
    BY <2>2, <2>3 DEF ReqsStep
<1>3. CASE AskPublish(r)
  BY <1>3 DEF AskPublish, Ask, ReqsStep
<1>4. CASE Validate(r) \/ Review(r) \/ Publish(r)
  BY <1>4 DEF Validate, Review, Publish, Answered, ReqsStep
<1> QED
  BY <1>1, <1>2, <1>3, <1>4 DEF Serve

LEMMA ReqsKept ==
  ASSUME ReqsInv, ReqsStep, RowsRemain
  PROVE  ReqsInv'
<1>1. CASE UNCHANGED reqs
  BY <1>1 DEF ReqsInv, RowsRemain
<1>2. ASSUME NEW r \in Requests, reqs' = [reqs EXCEPT ![r] = Idle] PROVE ReqsInv'
  <2>1. \A o \in Requests : reqs'[o] = IF o = r THEN Idle ELSE reqs[o]
    BY <1>2 DEF ReqsInv
  <2>2. reqs' = [o \in Requests |-> reqs'[o]]
    BY <1>2 DEF ReqsInv
  <2>3. Idle.pc = "idle" /\ Idle.op = "none"
    BY DEF Idle
  <2> QED
    BY <2>1, <2>2, <2>3 DEF ReqsInv, RowsRemain
<1>3. ASSUME NEW r \in Requests, NEW id \in Ids, NEW op, NEW review, NEW decision,
             rows[id] # None, op = "review" => review \in Reviews,
             reqs' = [reqs EXCEPT ![r] =
               [pc |-> "listed", op |-> op, id |-> id, review |-> review,
                decision |-> decision, refs |-> Refs(rows)]]
      PROVE  ReqsInv'
  <2> DEFINE asked == [pc |-> "listed", op |-> op, id |-> id, review |-> review,
                       decision |-> decision, refs |-> Refs(rows)]
  <2>1. \A o \in Requests : reqs'[o] = IF o = r THEN asked ELSE reqs[o]
    BY <1>3 DEF ReqsInv
  <2>2. reqs' = [o \in Requests |-> reqs'[o]]
    BY <1>3 DEF ReqsInv
  <2>3. asked.pc = "listed" /\ asked.op = op /\ asked.id = id /\ asked.review = review
    OBVIOUS
  <2> HIDE DEF asked
  <2> QED
    BY <1>3, <2>1, <2>2, <2>3 DEF ReqsInv, RowsRemain
<1> QED
  BY <1>1, <1>2, <1>3 DEF ReqsStep

-----------------------------------------------------------------------------
(* The batch *)

Kinds ==
  {"duplicate_spec_in_batch", "skipped_budget", "spec_invalid", "generation_failed",
   "not_storable", "exact_duplicate", "rejected_by_checks", "draft_failed_gates",
   "ai_validated_awaiting_review"}

Candidates == [item : Items, blocked : BOOLEAN, rederived : Rederivations]

Listings == [Ids -> [print : Prints, text : {i.text : i \in Items}, state : States] \cup {None}]

BatchType ==
  [pc : {"idle", "next", "create", "reject", "list", "validate", "done", "broken"},
   specs : Seq(Nat), outcomes : Seq([kind : Kinds, id : Ids \cup {None}]), spent : Nat,
   call : Candidates \cup {None}, id : Ids \cup {None}, refs : Listings \cup {None}]

\* The budget, overrun by what one pipeline may cost.
Within(spent) == \E cost \in Costs : spent <= 2 * Budget + cost

\* An outcome says whether the specification came before; a refused candidate is rejected.
Accounted(i) ==
  LET o == batch.outcomes[i] IN
  /\ o.kind = "duplicate_spec_in_batch" <=> \E j \in 1 .. (i - 1) : batch.specs[j] = batch.specs[i]
  /\ o.kind = "rejected_by_checks" =>
       o.id \in Ids /\ rows[o.id] # None /\ rows[o.id].state = "rejected"

BatchInv ==
  /\ batch \in BatchType
  /\ Len(batch.outcomes) <= Len(batch.specs)
  /\ batch.pc \in {"create", "reject", "list", "validate"} =>
       Len(batch.outcomes) < Len(batch.specs) /\ Spec1 \notin Earlier
  /\ batch.pc = "create" => batch.call \in Candidates
  /\ batch.pc \in {"reject", "list", "validate"} => batch.id \in Ids /\ rows[batch.id] # None
  /\ batch.pc = "done" => Len(batch.outcomes) = Len(batch.specs)
  /\ Within(batch.spent)
  /\ \A i \in 1 .. Len(batch.outcomes) : Accounted(i)

\* A step that settles no specification.
Moves ==
  /\ batch' \in BatchType
  /\ batch'.specs = batch.specs
  /\ batch'.outcomes = batch.outcomes
  /\ Within(batch'.spent)
  /\ batch'.pc \in {"create", "reject", "list", "validate"} =>
       Len(batch.outcomes) < Len(batch.specs) /\ Spec1 \notin Earlier
  /\ batch'.pc = "create" => batch'.call \in Candidates
  /\ batch'.pc \in {"reject", "list", "validate"} => batch'.id \in Ids /\ rows'[batch'.id] # None
  /\ batch'.pc = "done" => Len(batch.outcomes) = Len(batch.specs)

\* A step that settles the next one.
Settles(kind, id) ==
  /\ Len(batch.outcomes) < Len(batch.specs)
  /\ batch' \in BatchType
  /\ batch'.pc = "next"
  /\ batch'.specs = batch.specs
  /\ batch'.outcomes = Append(batch.outcomes, [kind |-> kind, id |-> id])
  /\ Within(batch'.spent)
  /\ kind = "duplicate_spec_in_batch" <=> Spec1 \in Earlier
  /\ kind = "rejected_by_checks" => id \in Ids /\ rows'[id] # None /\ rows'[id].state = "rejected"

\* A step to another batch, or to none.
Renews ==
  /\ batch' \in BatchType
  /\ batch'.pc \in {"idle", "next"}
  /\ batch'.outcomes = <<>>
  /\ batch'.spent = 0

BatchStep == Moves \/ Renews \/ \E kind \in Kinds, id \in Ids \cup {None} : Settles(kind, id)

LEMMA WithinStart == Within(0)
<1>1. PICK cost \in Costs : TRUE
  BY GenerationAssumption
<1>2. cost \in Nat /\ Budget \in Nat
  BY GenerationAssumption
<1>3. 0 <= 2 * Budget + cost
  BY <1>2
<1> QED
  BY <1>3 DEF Within

\* What was accounted for stays so.
LEMMA StaysAccounted ==
  ASSUME RowsRemain, NEW i \in Nat, Accounted(i), batch'.outcomes[i] = batch.outcomes[i],
         batch'.specs = batch.specs
  PROVE  Accounted(i)'
BY DEF Accounted, RowsRemain

LEMMA BatchKept ==
  ASSUME BatchInv, BatchStep, RowsRemain
  PROVE  BatchInv'
<1>1. CASE Moves
  <2>1. \A i \in 1 .. Len(batch.outcomes) : Accounted(i)'
    BY <1>1, StaysAccounted DEF Moves, BatchInv
  <2>2. Spec1' = Spec1 /\ Earlier' = Earlier
    BY <1>1 DEF Moves, Spec1, Earlier
  <2>3. /\ batch' \in BatchType
        /\ Len(batch'.outcomes) <= Len(batch'.specs)
    BY <1>1 DEF Moves, BatchInv
  <2>4. Within(batch.spent)'
    BY <1>1 DEF Moves, Within
  <2> QED
    BY <1>1, <2>1, <2>2, <2>3, <2>4 DEF Moves, BatchInv
<1>2. CASE Renews
  <2>1. batch'.outcomes = <<>> /\ batch'.specs \in Seq(Nat)
    BY <1>2 DEF Renews, BatchType
  <2>2. Len(batch'.outcomes) = 0 /\ Len(batch'.specs) \in Nat
    BY <2>1
  <2>3. Within(batch.spent)'
    BY <1>2, WithinStart DEF Renews, Within
  <2>4. Len(batch'.outcomes) <= Len(batch'.specs) /\ 1 .. Len(batch'.outcomes) = {}
    BY <2>2
  <2> QED
    BY <1>2, <2>3, <2>4 DEF Renews, BatchInv
<1>3. ASSUME NEW kind \in Kinds, NEW id \in Ids \cup {None}, Settles(kind, id)
      PROVE  BatchInv'
  <2>1. batch.outcomes \in Seq([kind : Kinds, id : Ids \cup {None}]) /\ batch.specs \in Seq(Nat)
    BY DEF BatchInv, BatchType
  <2>0. PICK n \in Nat : n = Len(batch.outcomes)
    BY <2>1
  <2>2. Len(batch.specs) \in Nat /\ n < Len(batch.specs)
    BY <1>3, <2>0, <2>1 DEF Settles
  <2>3. /\ Len(batch'.outcomes) = n + 1
        /\ \A i \in 1 .. n : batch'.outcomes[i] = batch.outcomes[i]
        /\ batch'.outcomes[n + 1] = [kind |-> kind, id |-> id]
    BY <1>3, <2>0, <2>1 DEF Settles
  <2>4. \A i \in 1 .. n : Accounted(i)'
    BY <1>3, <2>0, <2>3, StaysAccounted DEF Settles, BatchInv
  <2>5. Spec1 \in Earlier <=> \E j \in 1 .. n : batch.specs[j] = batch.specs[n + 1]
    BY <2>0 DEF Spec1, Earlier
  <2>6. (n + 1) - 1 = n
    BY <2>2
  <2>7. Accounted(n + 1)'
    <3>1. \A i : Accounted(i)' <=>
            /\ batch'.outcomes[i].kind = "duplicate_spec_in_batch" <=>
                 \E j \in 1 .. (i - 1) : batch'.specs[j] = batch'.specs[i]
            /\ batch'.outcomes[i].kind = "rejected_by_checks" =>
                 /\ batch'.outcomes[i].id \in Ids
                 /\ rows'[batch'.outcomes[i].id] # None
                 /\ rows'[batch'.outcomes[i].id].state = "rejected"
      BY DEF Accounted
    <3> QED
      BY <1>3, <2>3, <2>5, <2>6, <3>1 DEF Settles
  <2>8. \A i \in 1 .. (n + 1) : i \in 1 .. n \/ i = n + 1
    BY <2>2
  <2>9. \A i \in 1 .. Len(batch'.outcomes) : Accounted(i)'
    BY <2>3, <2>4, <2>7, <2>8
  <2>10. Within(batch.spent)'
    BY <1>3 DEF Settles, Within
  <2>11. Len(batch'.outcomes) <= Len(batch'.specs)
    BY <1>3, <2>2, <2>3 DEF Settles
  <2> QED
    BY <1>3, <2>9, <2>10, <2>11 DEF Settles, BatchInv
<1> QED
  BY <1>1, <1>2, <1>3 DEF BatchStep

\* The outcome of a specification leaves the rest of the batch.
LEMMA OutcomeOf ==
  ASSUME batch \in BatchType
  PROVE  \A kind \in Kinds, id \in Ids \cup {None} :
           /\ Outcome(kind, id) \in BatchType
           /\ Outcome(kind, id).pc = "next"
           /\ Outcome(kind, id).specs = batch.specs
           /\ Outcome(kind, id).outcomes = Append(batch.outcomes, [kind |-> kind, id |-> id])
           /\ Outcome(kind, id).spent = batch.spent
<1> TAKE kind \in Kinds, id \in Ids \cup {None}
<1> DEFINE told == Append(batch.outcomes, [kind |-> kind, id |-> id])
           next == [batch EXCEPT !.outcomes = told, !.pc = "next", !.call = None, !.id = None,
                                 !.refs = None]
<1>1. batch.outcomes \in Seq([kind : Kinds, id : Ids \cup {None}])
  BY DEF BatchType
<1>2. [kind |-> kind, id |-> id] \in [kind : Kinds, id : Ids \cup {None}]
  OBVIOUS
<1>3. told \in Seq([kind : Kinds, id : Ids \cup {None}])
  BY <1>1, <1>2
<1>4. Outcome(kind, id) = next
  BY DEF Outcome
<1> HIDE DEF told
<1>5. next \in BatchType /\ next.pc = "next" /\ next.specs = batch.specs
      /\ next.outcomes = told /\ next.spent = batch.spent
  BY <1>3 DEF BatchType
<1> QED
  BY <1>4, <1>5 DEF told

LEMMA Remains ==
  ASSUME RowsInv, WriteOne \/ UNCHANGED rows
  PROVE  RowsRemain
<1>1. CASE UNCHANGED rows
  BY <1>1 DEF RowsRemain
<1> QED
  BY <1>1, WriteRemains

\* What one step of the engine does to the questions and to the batch.
EngineStep == (WriteOne \/ UNCHANGED rows) /\ UNCHANGED reqs /\ BatchStep

\* An outcome of which nothing is said but that it is one.
LEMMA PlainOutcome ==
  ASSUME BatchInv, Len(batch.outcomes) < Len(batch.specs), Spec1 \notin Earlier,
         NEW kind \in Kinds, NEW id \in Ids \cup {None},
         kind # "duplicate_spec_in_batch", kind # "rejected_by_checks",
         batch' = Outcome(kind, id)
  PROVE  BatchStep
<1>1. batch \in BatchType /\ Within(batch.spent)
  BY DEF BatchInv
<1>2. Settles(kind, id)
  BY <1>1, OutcomeOf DEF Settles
<1> QED
  BY <1>2 DEF BatchStep

LEMMA StartSteps ==
  ASSUME Start
  PROVE  EngineStep
<1>1. PICK specs \in Batches : batch' = [NoBatch EXCEPT !.pc = "next", !.specs = Ordered(specs)]
  BY DEF Start
<1>2. Ordered(specs) \in Seq(Nat)
  BY GenerationAssumption, OrderedSpecs
<1>3. batch' = [pc |-> "next", specs |-> Ordered(specs), outcomes |-> <<>>, spent |-> 0,
                call |-> None, id |-> None, refs |-> None]
  BY <1>1 DEF NoBatch
<1>4. Renews
  BY <1>2, <1>3 DEF Renews, BatchType
<1> QED
  BY <1>4 DEF EngineStep, BatchStep, Start

LEMMA RestartSteps ==
  ASSUME Restart
  PROVE  EngineStep
<1>1. Renews
  BY DEF Restart, Renews, NoBatch, BatchType
<1> QED
  BY <1>1 DEF EngineStep, BatchStep, Restart, content

LEMMA RepeatedSteps ==
  ASSUME BatchInv, Repeated
  PROVE  EngineStep
<1> DEFINE kind == "duplicate_spec_in_batch"
<1>1. batch \in BatchType /\ Within(batch.spent)
  BY DEF BatchInv
<1>2. kind \in Kinds /\ None \in Ids \cup {None} /\ kind # "rejected_by_checks"
  BY DEF Kinds
<1>3. batch' = Outcome(kind, None) /\ Spec1 \in Earlier /\ Len(batch.outcomes) < Len(batch.specs)
  BY DEF Repeated, Waiting
<1>4. Settles(kind, None)
  BY <1>1, <1>2, <1>3, OutcomeOf DEF Settles
<1> QED
  BY <1>2, <1>4 DEF EngineStep, BatchStep, Repeated, content

LEMMA OverBudgetSteps ==
  ASSUME BatchInv, OverBudget
  PROVE  EngineStep
<1> DEFINE kind == "skipped_budget"
<1>1. kind \in Kinds /\ kind # "duplicate_spec_in_batch" /\ kind # "rejected_by_checks"
  BY DEF Kinds
<1>2. batch' = Outcome(kind, None) /\ Spec1 \notin Earlier /\ Len(batch.outcomes) < Len(batch.specs)
  BY DEF OverBudget, Waiting
<1> HIDE DEF kind
<1>3. BatchStep
  BY <1>1, <1>2, PlainOutcome
<1> QED
  BY <1>3 DEF EngineStep, OverBudget, content

\* A pipeline begun within the budget overruns it by one call at most.
LEMMA CostWithin ==
  ASSUME NEW c \in Calls, NEW spent \in Nat, spent <= Budget
  PROVE  spent + Cost(c) \in Nat /\ Within(spent + Cost(c))
<1>1. Budget \in Nat /\ c.generation \in Costs /\ c.derivation \in Costs /\ c.judge \in Costs
  BY GenerationAssumption DEF Calls
<1>2. c.generation \in Nat /\ c.derivation \in Nat /\ c.judge \in Nat
  BY <1>1, GenerationAssumption
<1>3. Cost(c) \in Nat
  BY <1>2 DEF Cost
<1>4. \/ Cost(c) <= Budget + c.generation
      \/ Cost(c) <= Budget + c.derivation
      \/ Cost(c) <= Budget + c.judge
  BY <1>1, <1>2 DEF Cost, Derives, Judges
<1>5. \/ spent + Cost(c) <= 2 * Budget + c.generation
      \/ spent + Cost(c) <= 2 * Budget + c.derivation
      \/ spent + Cost(c) <= 2 * Budget + c.judge
  BY <1>1, <1>2, <1>3, <1>4
<1> QED
  BY <1>1, <1>3, <1>5 DEF Within

LEMMA GenerateSteps ==
  ASSUME BatchInv, Generate
  PROVE  EngineStep
<1>1. batch \in BatchType /\ batch.spent \in Nat
  BY DEF BatchInv, BatchType
<1>2. Spec1 \notin Earlier /\ Len(batch.outcomes) < Len(batch.specs) /\ batch.spent <= Budget
  BY DEF Generate, Waiting
<1>3. ASSUME batch' = Outcome("spec_invalid", None) PROVE BatchStep
  <2> DEFINE kind == "spec_invalid"
  <2>1. kind \in Kinds /\ kind # "duplicate_spec_in_batch" /\ kind # "rejected_by_checks"
    BY DEF Kinds
  <2>2. batch' = Outcome(kind, None)
    BY <1>3
  <2> HIDE DEF kind
  <2> QED
    BY <1>2, <2>1, <2>2, PlainOutcome
<1>4. ASSUME NEW cost \in Costs,
             batch' = [Outcome("generation_failed", None) EXCEPT !.spent = @ + cost]
      PROVE  BatchStep
  <2> DEFINE kind == "generation_failed"
             next == Outcome(kind, None)
  <2>1. kind \in Kinds /\ kind # "duplicate_spec_in_batch" /\ kind # "rejected_by_checks"
    BY DEF Kinds
  <2>2. batch' = [next EXCEPT !.spent = next.spent + cost]
    BY <1>4
  <2> HIDE DEF kind
  <2>3. /\ next \in BatchType /\ next.pc = "next" /\ next.specs = batch.specs
        /\ next.outcomes = Append(batch.outcomes, [kind |-> kind, id |-> None])
        /\ next.spent = batch.spent
    BY <1>1, <2>1, OutcomeOf
  <2> HIDE DEF next
  <2>4. cost \in Nat /\ Budget \in Nat
    BY GenerationAssumption
  <2>5. batch.spent + cost \in Nat /\ batch.spent + cost <= 2 * Budget + cost
    BY <1>1, <1>2, <2>4
  <2>6. Within(batch.spent + cost)
    BY <2>5 DEF Within
  <2>7. /\ batch' \in BatchType /\ batch'.pc = "next" /\ batch'.specs = batch.specs
        /\ batch'.outcomes = Append(batch.outcomes, [kind |-> kind, id |-> None])
        /\ batch'.spent = batch.spent + cost
    BY <2>2, <2>3, <2>5 DEF BatchType
  <2>8. Settles(kind, None)
    BY <1>2, <2>1, <2>6, <2>7 DEF Settles
  <2> QED
    BY <2>1, <2>8 DEF BatchStep
<1>5. ASSUME NEW c \in Calls,
             batch' = [batch EXCEPT
               !.pc = "create", !.spent = @ + Cost(c),
               !.call = [item |-> c.item, blocked |-> Blocked(c),
                         rederived |-> IF Derives(c) THEN c.rederived ELSE None]]
      PROVE  BatchStep
  <2> DEFINE call == [item |-> c.item, blocked |-> Blocked(c),
                      rederived |-> IF Derives(c) THEN c.rederived ELSE None]
  <2>1. Blocked(c) \in BOOLEAN
    BY DEF Blocked, Calls
  <2>2. c.item \in Items /\ c.rederived \in Rederivations /\ None \in Rederivations
    BY AuthoringAssumption DEF Calls
  <2>3. call \in Candidates
    BY <2>1, <2>2 DEF Candidates
  <2>4. batch' = [batch EXCEPT !.pc = "create", !.spent = batch.spent + Cost(c), !.call = call]
    BY <1>5
  <2> HIDE DEF call
  <2>5. batch.spent + Cost(c) \in Nat /\ Within(batch.spent + Cost(c))
    BY <1>1, <1>2, CostWithin
  <2>6. /\ batch' \in BatchType /\ batch'.pc = "create" /\ batch'.specs = batch.specs
        /\ batch'.outcomes = batch.outcomes /\ batch'.call = call
        /\ batch'.spent = batch.spent + Cost(c)
    BY <1>1, <2>3, <2>4, <2>5 DEF BatchType
  <2>7. Moves
    BY <1>2, <2>3, <2>5, <2>6 DEF Moves
  <2> QED
    BY <2>7 DEF BatchStep
<1>6. BatchStep
  BY <1>3, <1>4, <1>5 DEF Generate
<1> QED
  BY <1>6 DEF EngineStep, Generate, content

\* The end of a batch by an error.
LEMMA BreakSteps ==
  ASSUME BatchInv, batch' = Break
  PROVE  BatchStep
<1>1. batch \in BatchType /\ Within(batch.spent)
  BY DEF BatchInv
<1>2. /\ batch' \in BatchType /\ batch'.pc = "broken" /\ batch'.specs = batch.specs
      /\ batch'.outcomes = batch.outcomes /\ batch'.spent = batch.spent
  BY <1>1 DEF Break, BatchType
<1> QED
  BY <1>1, <1>2 DEF Moves, BatchStep

LEMMA CreateSteps ==
  ASSUME RowsInv, BatchInv, Create
  PROVE  EngineStep
<1>1. /\ batch \in BatchType /\ Within(batch.spent)
      /\ Len(batch.outcomes) < Len(batch.specs) /\ Spec1 \notin Earlier
      /\ batch.call \in Candidates
  BY DEF BatchInv, Create
<1>2. CASE batch' = Outcome("not_storable", None) /\ UNCHANGED content
  <2> DEFINE kind == "not_storable"
  <2>1. kind \in Kinds /\ kind # "duplicate_spec_in_batch" /\ kind # "rejected_by_checks"
    BY DEF Kinds
  <2>2. batch' = Outcome(kind, None)
    BY <1>2
  <2> HIDE DEF kind
  <2>3. BatchStep
    BY <1>1, <2>1, <2>2, PlainOutcome
  <2> QED
    BY <1>2, <2>3 DEF EngineStep, content
<1>3. CASE batch' = Outcome("exact_duplicate", None) /\ UNCHANGED content
  <2> DEFINE kind == "exact_duplicate"
  <2>1. kind \in Kinds /\ kind # "duplicate_spec_in_batch" /\ kind # "rejected_by_checks"
    BY DEF Kinds
  <2>2. batch' = Outcome(kind, None)
    BY <1>3
  <2> HIDE DEF kind
  <2>3. BatchStep
    BY <1>1, <2>1, <2>2, PlainOutcome
  <2> QED
    BY <1>3, <2>3 DEF EngineStep, content
<1>4. ASSUME NEW id \in Ids, Same(batch.call.item) = {}, rows[id] = None,
             Stored(id, batch.call.item, "ai_generated", batch.call.rederived,
                    <<Spec1, batch.call.item.print>>),
             batch' = [batch EXCEPT !.id = id,
                                    !.pc = IF batch.call.blocked THEN "reject" ELSE "list"],
             UNCHANGED <<reqs, work>>
      PROVE  EngineStep
  <2> DEFINE seed == <<Spec1, batch.call.item.print>>
             origin == "ai_generated"
  <2>1. batch.call.item \in Items /\ batch.call.rederived \in Rederivations
    BY <1>1 DEF Candidates
  <2>2. Spec1 \in Nat
    <3>1. batch.specs \in Seq(Nat) /\ Len(batch.outcomes) \in Nat
      BY <1>1 DEF BatchType
    <3> QED
      BY <1>1, <3>1 DEF Spec1
  <2>3. seed \in (Nat \X Prints) \cup {None}
    BY <2>1, <2>2 DEF Prints
  <2>4. origin \in Origins /\ origin # "unknown"
    BY DEF Origins
  <2>5. Stored(id, batch.call.item, origin, batch.call.rederived, seed)
    BY <1>4
  <2> HIDE DEF seed, origin
  <2>6. WriteOne
    BY <1>4, <2>1, <2>3, <2>4, <2>5, NewRow
  <2>7. rows'[id] # None
    <3>1. rows'[id] = Row(batch.call.item, origin, "draft", batch.call.rederived,
                          batch.call.item.print, seed)
      BY <2>5 DEF Stored, RowsInv, GoodRows
    <3>2. Row(batch.call.item, origin, "draft", batch.call.rederived, batch.call.item.print, seed)
            \in RowType
      BY <2>1, <2>3, <2>4 DEF Row, RowType, Prints, States
    <3> QED
      BY <3>1, <3>2, NoneAssumption
  <2>8. /\ batch' \in BatchType /\ batch'.pc \in {"reject", "list"} /\ batch'.specs = batch.specs
        /\ batch'.outcomes = batch.outcomes /\ batch'.spent = batch.spent /\ batch'.id = id
    BY <1>1, <1>4 DEF BatchType
  <2>9. Moves
    BY <1>1, <2>7, <2>8 DEF Moves
  <2> QED
    BY <1>4, <2>6, <2>9 DEF EngineStep, BatchStep
<1> QED
  BY <1>2, <1>3, <1>4 DEF Create

LEMMA RejectBlockedSteps ==
  ASSUME RowsInv, BatchInv, RejectBlocked
  PROVE  EngineStep
<1> DEFINE id == batch.id
<1>1. /\ batch \in BatchType /\ Within(batch.spent)
      /\ Len(batch.outcomes) < Len(batch.specs) /\ Spec1 \notin Earlier
      /\ id \in Ids /\ rows[id] # None
  BY DEF BatchInv, RejectBlocked
<1>2. CASE rows[id].state \in Terminal
  <2>1. batch' = Break /\ UNCHANGED rows
    BY <1>2 DEF RejectBlocked
  <2>2. BatchStep
    BY <2>1, BreakSteps
  <2> QED
    BY <2>1, <2>2 DEF EngineStep, RejectBlocked
<1>3. CASE rows[id].state \notin Terminal
  <2> DEFINE kind == "rejected_by_checks"
  <2>1. rows' = [rows EXCEPT ![id] = To(rows[id], "rejected")]
    BY <1>3 DEF RejectBlocked
  <2>2. WriteOne
    BY <1>1, <1>3, <2>1, RejectionWrites
  <2>3. RowsRemain
    BY <2>2, Remains
  <2>4. rows[id] \in RowType /\ "rejected" \in States
    BY <1>1 DEF RowsInv, GoodRows, GoodRow, States
  <2>5. rows'[id] = To(rows[id], "rejected")
    BY <1>1, <2>1 DEF RowsInv, GoodRows
  <2>6. rows'[id] # None /\ rows'[id].state = "rejected"
    BY <1>1, <2>3, <2>4, <2>5, ToRow DEF RowsRemain
  <2>7. kind \in Kinds /\ kind # "duplicate_spec_in_batch"
    BY DEF Kinds
  <2>8. batch' = Outcome(kind, id)
    BY <1>3 DEF RejectBlocked
  <2>9. Settles(kind, id)
    BY <1>1, <2>6, <2>7, <2>8, OutcomeOf DEF Settles
  <2> QED
    BY <1>1, <2>2, <2>7, <2>9 DEF EngineStep, BatchStep, RejectBlocked
<1> QED
  BY <1>2, <1>3

LEMMA ListSteps ==
  ASSUME RowsInv, BatchInv, List
  PROVE  EngineStep
<1>1. /\ batch \in BatchType /\ Within(batch.spent)
      /\ Len(batch.outcomes) < Len(batch.specs) /\ Spec1 \notin Earlier
      /\ batch.id \in Ids /\ rows[batch.id] # None
  BY DEF BatchInv, List
<1>2. \A id \in Ids : rows[id] # None =>
        rows[id].item.print \in Prints /\ rows[id].item.text \in {i.text : i \in Items}
        /\ rows[id].state \in States
  BY DEF RowsInv, GoodRows, GoodRow, RowType, Prints
<1>3. Refs(rows) \in Listings
  BY <1>2 DEF Refs, Listings
<1>4. batch' = [batch EXCEPT !.refs = Refs(rows), !.pc = "validate"] /\ UNCHANGED content
  BY DEF List
<1>5. /\ batch' \in BatchType /\ batch'.pc = "validate" /\ batch'.specs = batch.specs
      /\ batch'.outcomes = batch.outcomes /\ batch'.spent = batch.spent /\ batch'.id = batch.id
  BY <1>1, <1>3, <1>4 DEF BatchType
<1>6. Moves
  BY <1>1, <1>4, <1>5 DEF Moves, content
<1> QED
  BY <1>4, <1>6 DEF EngineStep, BatchStep, content

LEMMA ValidateCandidateSteps ==
  ASSUME RowsInv, BatchInv, ValidateCandidate
  PROVE  EngineStep
<1> DEFINE id == batch.id
           row == rows[id]
<1>1. /\ batch \in BatchType /\ Within(batch.spent)
      /\ Len(batch.outcomes) < Len(batch.specs) /\ Spec1 \notin Earlier
      /\ id \in Ids /\ row # None
  BY DEF BatchInv, ValidateCandidate
<1>2. CASE row.state # "draft"
  <2>1. batch' = Break /\ UNCHANGED rows
    BY <1>2 DEF ValidateCandidate
  <2>2. BatchStep
    BY <2>1, BreakSteps
  <2> QED
    BY <2>1, <2>2 DEF EngineStep, ValidateCandidate
<1>3. CASE row.state = "draft" /\ Failed(row, id, batch.refs) # {}
  <2> DEFINE kind == "draft_failed_gates"
  <2>1. kind \in Kinds /\ kind # "duplicate_spec_in_batch" /\ kind # "rejected_by_checks"
    BY DEF Kinds
  <2>2. batch' = Outcome(kind, id) /\ UNCHANGED rows
    BY <1>3 DEF ValidateCandidate
  <2> HIDE DEF kind
  <2>3. BatchStep
    BY <1>1, <2>1, <2>2, PlainOutcome
  <2> QED
    BY <2>2, <2>3 DEF EngineStep, ValidateCandidate
<1>4. CASE row.state = "draft" /\ Failed(row, id, batch.refs) = {}
  <2> DEFINE kind == "ai_validated_awaiting_review"
             moved == To(row, "ai_validated")
  <2>1. kind \in Kinds /\ kind # "duplicate_spec_in_batch" /\ kind # "rejected_by_checks"
    BY DEF Kinds
  <2>2. batch' = Outcome(kind, id) /\ rows' = [rows EXCEPT ![id] = moved]
    BY <1>4 DEF ValidateCandidate
  <2> HIDE DEF kind
  <2>3. BatchStep
    BY <1>1, <2>1, <2>2, PlainOutcome
  <2>4. row \in RowType /\ row.via = "none" /\ row.index = PrintOf(row)
    BY <1>1, <1>4 DEF RowsInv, GoodRows, GoodRow
  <2>5. "ai_validated" \in States
    BY DEF States
  <2>6. GoodRow(moved)
    BY <2>4, ToGood
  <2>7. moved.state = "ai_validated" /\ moved.item = row.item /\ moved.index = row.index
    BY <2>4, <2>5, ToRow
  <2> HIDE DEF moved
  <2>8. Unclaimed(id, moved)
    BY <1>1, <1>4, <2>7, Kept
  <2>9. Allowed(id, moved)
    BY <1>1, <1>4, <2>7 DEF Allowed, L!Follows, Terminal
  <2>10. WriteOne
    BY <1>1, <2>2, <2>6, <2>8, <2>9 DEF Writes, WriteOne
  <2> QED
    BY <2>3, <2>10 DEF EngineStep, ValidateCandidate
<1> QED
  BY <1>2, <1>3, <1>4

LEMMA FinishSteps ==
  ASSUME BatchInv, Finish
  PROVE  EngineStep
<1>1. batch \in BatchType /\ Within(batch.spent) /\ Len(batch.outcomes) = Len(batch.specs)
  BY DEF BatchInv, Finish
<1>2. batch' = [batch EXCEPT !.pc = "done"] /\ UNCHANGED content
  BY DEF Finish
<1>3. /\ batch' \in BatchType /\ batch'.pc = "done" /\ batch'.specs = batch.specs
      /\ batch'.outcomes = batch.outcomes /\ batch'.spent = batch.spent
  BY <1>1, <1>2 DEF BatchType
<1>4. Moves
  BY <1>1, <1>3 DEF Moves
<1> QED
  BY <1>2, <1>4 DEF EngineStep, BatchStep, content

LEMMA EngineSteps ==
  ASSUME RowsInv, BatchInv, Engine
  PROVE  EngineStep
BY StartSteps, RepeatedSteps, OverBudgetSteps, GenerateSteps, CreateSteps, RejectBlockedSteps,
   ListSteps, ValidateCandidateSteps, FinishSteps, RestartSteps DEF Engine

-----------------------------------------------------------------------------
(* The invariant *)

IInv == RowsInv /\ ReqsInv /\ BatchInv /\ work \in 0 .. MaxWork

\* Every step writes one question or none, whoever takes it.
LEMMA StepWrites ==
  ASSUME IInv, [Next]_vars
  PROVE  (WriteOne \/ UNCHANGED rows) /\ ReqsStep /\ (BatchStep \/ UNCHANGED batch)
<1> USE DEF IInv
<1>1. CASE Author /\ UNCHANGED batch
  <2>1. WriteOne
    BY <1>1, AuthorWrites
  <2>2. UNCHANGED reqs
    BY <1>1 DEF Author, CreateDraft, Edit, Import, Reject, DecidePublish
  <2> QED
    BY <1>1, <2>1, <2>2 DEF ReqsStep
<1>2. ASSUME NEW r \in Requests, Serve(r), UNCHANGED batch
      PROVE  (WriteOne \/ UNCHANGED rows) /\ ReqsStep /\ UNCHANGED batch
  BY <1>2, ServeWrites, ServeSteps
<1>3. CASE Engine
  BY <1>3, EngineSteps DEF EngineStep, ReqsStep
<1>4. CASE UNCHANGED vars
  BY <1>4 DEF vars, ReqsStep
<1> QED
  BY <1>1, <1>2, <1>3, <1>4 DEF Next

LEMMA WorkKept ==
  ASSUME work \in 0 .. MaxWork, [Next]_vars
  PROVE  work' \in 0 .. MaxWork
<1>1. MaxWork \in Nat
  BY AuthoringAssumption
<1>2. Works => work' \in 0 .. MaxWork
  BY <1>1 DEF Works
<1>3. CASE Author
  BY <1>2, <1>3 DEF Author, CreateDraft, Edit, Import, Reject, DecidePublish
<1>4. ASSUME NEW r \in Requests, Serve(r) PROVE Works \/ UNCHANGED work
  BY <1>4 DEF Serve, AskValidate, AskReview, AskPublish, Ask, Validate, Review, Publish, Answered
<1>5. CASE Engine
  BY <1>2, <1>5 DEF Engine, Start, Repeated, OverBudget, Generate, Create, RejectBlocked, List,
     ValidateCandidate, Finish, Restart, content
<1>6. CASE UNCHANGED vars
  BY <1>6 DEF vars
<1> QED
  BY <1>2, <1>3, <1>4, <1>5, <1>6 DEF Next

LEMMA InvInit == Init => IInv
<1> SUFFICES ASSUME Init PROVE IInv
  OBVIOUS
<1> USE DEF Init, AuthoringInit
<1>1. RowsInv
  BY DEF RowsInv, GoodRows, OneIndex, Live
<1>2. ReqsInv
  BY DEF ReqsInv, Idle
<1>3. batch \in BatchType /\ batch.pc = "idle" /\ batch.specs = <<>> /\ batch.outcomes = <<>>
      /\ batch.spent = 0
  BY DEF NoBatch, BatchType
<1>4. Len(batch.outcomes) = 0 /\ Len(batch.specs) = 0 /\ 1 .. Len(batch.outcomes) = {}
  BY <1>3
<1>5. BatchInv
  BY <1>3, <1>4, WithinStart DEF BatchInv
<1>6. work \in 0 .. MaxWork
  BY AuthoringAssumption
<1> QED
  BY <1>1, <1>2, <1>5, <1>6 DEF IInv

LEMMA InvNext == IInv /\ [Next]_vars => IInv'
<1> SUFFICES ASSUME IInv, [Next]_vars PROVE IInv'
  OBVIOUS
<1>1. RowsInv /\ ReqsInv /\ BatchInv
  BY DEF IInv
<1>2. (WriteOne \/ UNCHANGED rows) /\ ReqsStep /\ (BatchStep \/ UNCHANGED batch)
  BY StepWrites
<1>3. RowsRemain
  BY <1>1, <1>2, Remains
<1>4. RowsInv'
  <2>1. CASE WriteOne
    BY <1>1, <2>1, WriteKeepsRows DEF WriteOne
  <2>2. CASE UNCHANGED rows
    BY <1>1, <2>2 DEF RowsInv, GoodRows, OneIndex, Live, GoodRow, PrintOf, AnswerFails, AnswerOpen,
       Cautious, Verified
  <2> QED
    BY <1>2, <2>1, <2>2
<1>5. ReqsInv'
  BY <1>1, <1>2, <1>3, ReqsKept
<1>6. BatchInv'
  <2>1. UNCHANGED batch => Moves
    BY <1>1, <1>3 DEF BatchInv, Moves, RowsRemain
  <2>2. BatchStep
    BY <1>2, <2>1 DEF BatchStep
  <2> QED
    BY <1>1, <1>3, <2>2, BatchKept
<1>7. work' \in 0 .. MaxWork
  BY WorkKept DEF IInv
<1> QED
  BY <1>4, <1>5, <1>6, <1>7 DEF IInv

\* Every stored row is good, no fingerprint is claimed twice, a request is for a question there
\* is, and the batch has accounted for what it has settled.
THEOREM Invariance == Spec => []IInv
<1>1. Init => IInv
  BY InvInit
<1>2. IInv /\ [Next]_vars => IInv'
  BY InvNext
<1> QED
  BY <1>1, <1>2, PTL DEF Spec

-----------------------------------------------------------------------------
(* The theorems *)

\* Rows, requests and the batch always have their types (questions.repository.ts,
\* authoring.service.ts, engine.ts).
THEOREM TypesHold == Spec => []TypeOK
<1>1. IInv => TypeOK
  BY DEF IInv, RowsInv, GoodRows, GoodRow, ReqsInv, BatchInv, BatchType, TypeOK
<1> QED
  BY <1>1, Invariance, PTL

\* What is published is what was judged in the transaction that published it, for any number of
\* questions, requests and batches: the list a request brings can be as old as it likes.
THEOREM PublishedIsJudged == Spec => []Judged
<1>1. IInv => Judged
  BY DEF IInv, RowsInv, GoodRows, GoodRow, Judged
<1> QED
  BY <1>1, Invariance, PTL

\* Two questions of known origin that are not rejected never have the same content: every write
\* either asks the index or leaves the fingerprint as it was.
THEOREM IdentityIsOne == Spec => []OneIdentity
<1>1. ASSUME IInv, NEW i \in Ids, NEW j \in Ids, i # j,
             Live(i), rows[i].origin # "unknown", Live(j), rows[j].origin # "unknown"
      PROVE  rows[i].item.print # rows[j].item.print
  <2>1. GoodRow(rows[i]) /\ GoodRow(rows[j])
    BY <1>1 DEF IInv, RowsInv, GoodRows, Live
  <2>2. rows[i].item \in Items /\ rows[i].index = rows[i].item.print
        /\ rows[j].index = rows[j].item.print
    BY <1>1, <2>1 DEF GoodRow, PrintOf, RowType
  <2>3. rows[i].index # None
    BY <2>2, NoneAssumption DEF Prints
  <2> QED
    BY <1>1, <2>2, <2>3 DEF IInv, RowsInv, OneIndex
<1>2. IInv => OneIdentity
  BY <1>1 DEF OneIdentity
<1> QED
  BY <1>2, Invariance, PTL

\* A batch of any length accounts for every specification, in order, spends its budget and one
\* pipeline more at most, and what its checks refuse stays rejected.
THEOREM BatchIsAccounted == Spec => []BatchAccounted
<1>1. ASSUME IInv, NEW i \in 1 .. Len(batch.outcomes), batch.outcomes[i].kind = "rejected_by_checks"
      PROVE  LET o == batch.outcomes[i] IN
             rows[o.id].state = "rejected" /\ rows[o.id].via = "none"
  <2> DEFINE id == batch.outcomes[i].id
  <2>1. id \in Ids /\ rows[id] # None /\ rows[id].state = "rejected"
    BY <1>1 DEF IInv, BatchInv, Accounted
  <2>2. rows[id].via = "none"
    BY <1>1, <2>1 DEF IInv, RowsInv, GoodRows, GoodRow
  <2> QED
    BY <2>1, <2>2
<1>2. IInv => BatchAccounted
  BY <1>1 DEF IInv, BatchInv, Within, Accounted, BatchAccounted
<1> QED
  BY <1>2, Invariance, PTL

\* Generation and authoring implement the life of a question that ContentLife states: every step
\* of theirs is one of its steps, or leaves every question as it is.
THEOREM LifeIsKept == Spec => KeepsLife
<1>1. Init => L!Init
  BY DEF Init, AuthoringInit, L!Init, Life
<1>2. IInv /\ [Next]_vars => [L!Next]_[id \in Ids |-> Life(id)]
  <2> SUFFICES ASSUME IInv, [Next]_vars PROVE [L!Next]_[id \in Ids |-> Life(id)]
    OBVIOUS
  <2>1. RowsInv /\ (WriteOne \/ UNCHANGED rows)
    BY StepWrites DEF IInv
  <2>2. CASE WriteOne
    BY <2>1, <2>2, WriteLives
  <2>3. CASE UNCHANGED rows
    BY <2>3 DEF Life
  <2> QED
    BY <2>1, <2>2, <2>3
<1> QED
  BY <1>1, <1>2, Invariance, PTL DEF Spec, KeepsLife, L!Spec

=============================================================================
