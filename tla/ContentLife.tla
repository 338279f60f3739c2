----------------------------- MODULE ContentLife -----------------------------
(***************************************************************************)
(* What authoring promises of every question: it moves one state at a time *)
(* from draft to published, any change of its content sends it back to     *)
(* draft, and once published or rejected it is what it is for good.        *)
(***************************************************************************)
CONSTANTS None, Ids, Items

VARIABLE life

Lives ==
  [item : Items,
   state : {"draft", "ai_validated", "human_reviewed", "published", "rejected"}]

TypeOK == life \in [Ids -> Lives \cup {None}]

Init == life = [id \in Ids |-> None]

Alive(id) == life[id] # None /\ life[id].state \notin {"published", "rejected"}

Set(id, item, state) == life' = [life EXCEPT ![id] = [item |-> item, state |-> state]]

\* A candidate that passed the generation pipeline is stored as validated.
Store(id, item, state) ==
  life[id] = None /\ state \in {"draft", "ai_validated"} /\ Set(id, item, state)

Edit(id, item) == Alive(id) /\ Set(id, item, "draft")

Follows == {<<"draft", "ai_validated">>, <<"ai_validated", "human_reviewed">>,
            <<"ai_validated", "published">>, <<"human_reviewed", "published">>}

Advance(id, state) ==
  /\ Alive(id)
  /\ <<life[id].state, state>> \in Follows
  /\ Set(id, life[id].item, state)

Reject(id) == Alive(id) /\ Set(id, life[id].item, "rejected")

Next ==
  \E id \in Ids :
    \/ \E item \in Items :
         Edit(id, item) \/ \E state \in {"draft", "ai_validated"} : Store(id, item, state)
    \/ \E state \in {"ai_validated", "human_reviewed", "published"} : Advance(id, state)
    \/ Reject(id)

Spec == Init /\ [][Next]_life

=============================================================================
