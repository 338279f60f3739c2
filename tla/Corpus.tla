------------------------------- MODULE Corpus -------------------------------
(***************************************************************************)
(* What the ingestion of one source promises of its rows, whoever runs it: *)
(* no version is lost; a claim is proposed from a passage that is stored,  *)
(* which then stays; a reviewer decides it once; and a claim about what is *)
(* no concept of the exam is never accepted.                               *)
(***************************************************************************)
CONSTANTS
  Contents,
  Chunks,      \* passages that a content may be cut into
  Candidates,  \* claims: <<chunk, name>>
  Foreign      \* names that are no concept of the exam

VARIABLES
  known,       \* the contents that have a version
  stored,      \* the chunks there are
  verdicts     \* candidate -> "none", or how it stands

vars == <<known, stored, verdicts>>

Verdicts == {"none", "candidate", "accepted", "rejected"}

TypeOK ==
  /\ known \subseteq Contents
  /\ stored \subseteq Chunks
  /\ verdicts \in [Candidates -> Verdicts]

Cited == {m[1] : m \in {n \in Candidates : verdicts[n] # "none"}}

Init ==
  /\ known = {}
  /\ stored = {}
  /\ verdicts = [m \in Candidates |-> "none"]

Register(c) ==
  /\ known' = known \cup {c}
  /\ UNCHANGED <<stored, verdicts>>

Lay ==
  /\ stored' \subseteq Chunks
  /\ Cited \subseteq stored'
  /\ UNCHANGED <<known, verdicts>>

Propose(m) ==
  /\ verdicts[m] = "none"
  /\ m[1] \in stored
  /\ verdicts' = [verdicts EXCEPT ![m] = "candidate"]
  /\ UNCHANGED <<known, stored>>

Decide(m, verdict) ==
  /\ verdicts[m] = "candidate"
  /\ verdict = "accepted" => m[2] \notin Foreign
  /\ verdicts' = [verdicts EXCEPT ![m] = verdict]
  /\ UNCHANGED <<known, stored>>

Next ==
  \/ \E c \in Contents : Register(c)
  \/ Lay
  \/ \E m \in Candidates :
       Propose(m) \/ \E verdict \in {"accepted", "rejected"} : Decide(m, verdict)

Spec == Init /\ [][Next]_vars

=============================================================================
