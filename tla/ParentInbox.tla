---------------------------- MODULE ParentInbox ----------------------------
(***************************************************************************)
(* What the application promises the parent of sub-agents about their      *)
(* results, with no queue, no turn, no claim and no recovery: a message is *)
(* sent once, it joins the conversation at most once, before it counts as  *)
(* settled and never after, and settled is final.  A restart goes on with  *)
(* the part of the conversation that was kept, which has a message at most *)
(* once, too.  Only after a failure may a message be settled that this     *)
(* conversation does not have, or be read although it is settled: another  *)
(* instance has taken it.  What was read and not kept is lost in a restart,*)
(* settled or not: to settle a message does not wait for what keeps it.     *)
(***************************************************************************)
EXTENDS Integers, Sequences, SequencesExt

CONSTANTS Msg,   \* results of sub-agents
          Note   \* what else joins the conversation

VARIABLES
  sent,          \* messages that exist
  settled,       \* messages nobody has to deliver any more
  conversation,  \* what the model gets to see
  kept,          \* what a restart goes on with
  awake,         \* the application runs
  failures       \* how often something has failed or was done elsewhere

vars == <<sent, settled, conversation, kept, awake, failures>>

Init ==
  /\ sent = {} /\ settled = {}
  /\ conversation = <<>> /\ kept = <<>>
  /\ awake = TRUE /\ failures = 0

MayFail == failures' \in {failures, failures + 1}

Once(list) ==
  \A p, q \in DOMAIN list : list[p] = list[q] /\ list[p] \in Msg => p = q

Send(m) ==
  /\ awake /\ m \notin sent
  /\ sent' = sent \cup {m}
  /\ UNCHANGED <<settled, conversation, kept, awake, failures>>

\* The conversation grows at its end.
Read ==
  /\ awake
  /\ conversation' \in Seq(Msg \cup Note)
  /\ IsPrefix(conversation, conversation') /\ Once(conversation')
  /\ \A m \in Msg \cap (ToSet(conversation') \ ToSet(conversation)) :
       m \in sent /\ (m \notin settled \/ failures > 0)
  /\ MayFail
  /\ UNCHANGED <<sent, settled, kept, awake>>

Keep ==
  /\ awake
  /\ \E x \in ToSet(conversation) :
       (x \in Msg => x \notin ToSet(kept)) /\ kept' = Append(kept, x)
  /\ UNCHANGED <<sent, settled, conversation, awake, failures>>

Settle(m) ==
  /\ awake /\ m \in sent \ settled /\ m \in ToSet(conversation)
  /\ settled' = settled \cup {m}
  /\ MayFail
  /\ UNCHANGED <<sent, conversation, kept, awake>>

SettledElsewhere(m) ==
  /\ m \in sent \ settled
  /\ settled' = settled \cup {m}
  /\ failures' = failures + 1
  /\ UNCHANGED <<sent, conversation, kept, awake>>

Fail ==
  /\ failures' = failures + 1
  /\ UNCHANGED <<sent, settled, conversation, kept, awake>>

Sleep ==
  /\ awake /\ awake' = FALSE
  /\ conversation' = <<>>
  /\ MayFail
  /\ UNCHANGED <<sent, settled, kept>>

Wake ==
  /\ ~awake /\ awake' = TRUE
  /\ conversation' = kept
  /\ UNCHANGED <<sent, settled, kept, failures>>

Next ==
  \/ Read \/ Keep \/ Fail \/ Sleep \/ Wake
  \/ \E m \in Msg : Send(m) \/ Settle(m) \/ SettledElsewhere(m)

Spec == Init /\ [][Next]_vars
=============================================================================
