----------------------------- MODULE ArmServer ------------------------------
(***************************************************************************)
(* What an arm driver promises to the nodes that command it over topics:   *)
(* every message is served at most once, the messages of one topic in the  *)
(* order they were published, and the topics of one callback group one at  *)
(* a time; a command is answered either way, a query only when it          *)
(* succeeds.  Nothing is promised between the groups.                      *)
(***************************************************************************)
EXTENDS Naturals

CONSTANTS
  MaxCommands,  \* bound on the messages published
  Topics,       \* the command topics
  Group,        \* callback group of each topic
  Queries,      \* topics answered only on success
  Silent,       \* topics never answered
  None          \* topic of a message that has not been published

Commands == 1..MaxCommands

ASSUME ArmServerAssumption ==
  /\ MaxCommands \in Nat
  /\ DOMAIN Group = Topics
  /\ None \notin Topics

VARIABLES
  topic,  \* topic of each message
  phase,  \* "unsent", "lost", "queued", "running", "ok" or "failed"
  replied \* messages whose result has been published

serverVars == <<topic, phase, replied>>

ServerInit ==
  /\ topic = [c \in Commands |-> None]
  /\ phase = [c \in Commands |-> "unsent"]
  /\ replied = {}

\* Messages are numbered as they are published.
Publish(c, t, outcome) ==
  /\ phase[c] = "unsent"
  /\ \A d \in 1..(c - 1) : phase[d] # "unsent"
  /\ topic' = [topic EXCEPT ![c] = t]
  /\ phase' = [phase EXCEPT ![c] = outcome]
  /\ UNCHANGED replied

\* A message for which no subscriber is matched yet is lost.
Send(c, t) == Publish(c, t, "queued")
Lose(c, t) == Publish(c, t, "lost")

GroupFree(g) == \A d \in Commands : phase[d] = "running" => Group[topic[d]] # g

\* The oldest message of a topic, as soon as its group is idle.
Serve(c) ==
  /\ phase[c] = "queued"
  /\ \A d \in 1..(c - 1) : topic[d] = topic[c] => phase[d] # "queued"
  /\ GroupFree(Group[topic[c]])
  /\ phase' = [phase EXCEPT ![c] = "running"]
  /\ UNCHANGED <<topic, replied>>

Answer(c, result) ==
  /\ phase[c] = "running"
  /\ phase' = [phase EXCEPT ![c] = result]
  /\ replied' = IF topic[c] \in Silent \/ (topic[c] \in Queries /\ result = "failed")
                  THEN replied ELSE replied \cup {c}
  /\ UNCHANGED topic

ServerNext ==
  \E c \in Commands :
    \/ \E t \in Topics : Send(c, t) \/ Lose(c, t)
    \/ Serve(c)
    \/ \E result \in {"ok", "failed"} : Answer(c, result)

ServerSpec == ServerInit /\ [][ServerNext]_serverVars
=============================================================================
