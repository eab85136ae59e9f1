--------------------------- MODULE AnswerService ---------------------------
(***************************************************************************)
(* What the chat API promises its clients, whatever happens inside: a      *)
(* request is closed once; the answer it is closed with, if any, was       *)
(* generated for it, or was generated earlier for a matching request.      *)
(* Without the semantic cache only a request of the same user with the     *)
(* same question in the same context matches.                              *)
(***************************************************************************)
CONSTANTS Requests, NoText, Similar(_, _)

VARIABLES
  semantic,  \* is the semantic cache in use?
  topic,     \* per request, its user, question and conversation context
  phase,     \* per request: "idle", "open", "closed"
  given,     \* per request, the text of the answer, or NoText
  known      \* the answers generated so far, each with its topic

vars == <<semantic, topic, phase, given, known>>

Matches(t, u) == IF semantic THEN Similar(t.question, u.question) ELSE t = u

Init ==
  /\ phase = [r \in Requests |-> "idle"]
  /\ given = [r \in Requests |-> NoText]
  /\ known = {}

Ask(r) ==
  /\ phase[r] = "idle"
  /\ phase' = [phase EXCEPT ![r] = "open"]
  /\ \A o \in Requests \ {r} : topic'[o] = topic[o]
  /\ UNCHANGED <<semantic, given, known>>

Generate(r) ==
  /\ phase[r] = "open"
  /\ known' = known \cup {[topic |-> topic[r], by |-> r]}
  /\ UNCHANGED <<semantic, topic, phase, given>>

\* The answer may be generated in the step that delivers it.
Close(R) ==
  /\ R # {} /\ \A r \in R : phase[r] # "closed"
  /\ phase' = [r \in Requests |-> IF r \in R THEN "closed" ELSE phase[r]]
  /\ known' \in {known, known \cup {[topic |-> topic'[r], by |-> r] : r \in R}}
  /\ \A r \in Requests :
       IF r \notin R THEN given'[r] = given[r] /\ topic'[r] = topic[r]
       ELSE \/ given'[r] = NoText
            \/ \E k \in known' : k.by = given'[r].by /\ Matches(k.topic, topic'[r])
  /\ UNCHANGED semantic

Next ==
  \/ \E r \in Requests : Ask(r) \/ Generate(r)
  \/ \E R \in SUBSET Requests : Close(R)

Spec == Init /\ [][Next]_vars
=============================================================================
