--------------------------- MODULE MC_ChatService ---------------------------
(* Two concurrent requests of two clients, one of them anonymous; the two  *)
(* questions are different and similar.                                    *)
EXTENDS ChatService

CONSTANTS q1, q2

MCQuestions == {q1, q2}
MCAlike == MCQuestions \X MCQuestions

MCConfigurations ==
  {[semantic |-> FALSE, ungrounded |-> TRUE,  graph |-> FALSE, retriever |-> TRUE],
   [semantic |-> TRUE,  ungrounded |-> FALSE, graph |-> FALSE, retriever |-> TRUE],
   [semantic |-> FALSE, ungrounded |-> FALSE, graph |-> TRUE,  retriever |-> FALSE]}

Send(s, q, m, f) == [session |-> s, question |-> q, mode |-> m, refresh |-> f]
MCAsks ==
  {Send(1, q1, "plain", FALSE), Send(1, q1, "stream", FALSE), Send(2, q2, "plain", TRUE),
   Send(2, q1, "plain", FALSE), Send(2, q2, "skip", FALSE), Send(1, q2, "pass", FALSE)}
=============================================================================
