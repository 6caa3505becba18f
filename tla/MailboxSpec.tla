---------------------------- MODULE MailboxSpec ----------------------------
(***************************************************************************)
(* What a queue of OS/itc_queue.c promises the tasks that share it: a box  *)
(* with room for Size messages.  A call takes effect in one step between   *)
(* its start and its return.  A message that is sent enters the box unless *)
(* the box is full, and is lost otherwise; a read takes one message out    *)
(* that is for its caller, any of them, and finds none only if there is    *)
(* none.  ItcQueue implements this specification.                          *)
(***************************************************************************)
EXTENDS Naturals, FiniteSets

CONSTANTS
  Tasks, Size, NoData,
  Routes,   \* who sends to whom
  Guarded   \* TRUE: a task reads only when the box has a message for it

VARIABLES
  mail,     \* the messages in the box
  phase,    \* how far the call of every task is, or "idle"
  letter,   \* the message every task sends or has been given, or NoData
  posted    \* the number of messages sent so far

mailVars == <<mail, phase, letter, posted>>

For(t) == {m \in mail : m.to = t}

Init ==
  /\ mail = {}
  /\ phase = [t \in Tasks |-> "idle"]
  /\ letter = [t \in Tasks |-> NoData]
  /\ posted = 0

Moves(t, from, to) ==
  /\ phase[t] = from
  /\ phase' = [phase EXCEPT ![t] = to]

Post(t, dest) ==
  /\ <<t, dest>> \in Routes
  /\ Moves(t, "idle", "sending")
  /\ letter' = [letter EXCEPT ![t] = [id |-> posted, to |-> dest]]
  /\ posted' = posted + 1
  /\ UNCHANGED mail

Deliver(t) ==
  /\ Moves(t, "sending", "sent")
  /\ Cardinality(mail) < Size
  /\ mail' = mail \cup {letter[t]}
  /\ UNCHANGED <<letter, posted>>

Lose(t) ==
  /\ Moves(t, "sending", "sent")
  /\ Cardinality(mail) = Size
  /\ UNCHANGED <<mail, letter, posted>>

Ask(t) ==
  /\ Guarded => For(t) # {}
  /\ Moves(t, "idle", "reading")
  /\ UNCHANGED <<mail, letter, posted>>

Receive(t) ==
  /\ Moves(t, "reading", "read")
  /\ \E m \in For(t) :
       /\ letter' = [letter EXCEPT ![t] = m]
       /\ mail' = mail \ {m}
  /\ UNCHANGED posted

Miss(t) ==
  /\ Moves(t, "reading", "read")
  /\ For(t) = {}
  /\ UNCHANGED <<mail, letter, posted>>

Return(t) ==
  /\ Moves(t, "sent", "idle") \/ Moves(t, "read", "idle")
  /\ letter' = [letter EXCEPT ![t] = NoData]
  /\ UNCHANGED <<mail, posted>>

Next ==
  \E t \in Tasks :
    \/ \E dest \in Tasks : Post(t, dest)
    \/ Deliver(t) \/ Lose(t)
    \/ Ask(t) \/ Receive(t) \/ Miss(t)
    \/ Return(t)

Spec == Init /\ [][Next]_mailVars

=============================================================================
