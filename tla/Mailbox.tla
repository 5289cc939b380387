------------------------------- MODULE Mailbox -------------------------------
(***************************************************************************)
(* What a PublicationChannel promises to the model thread and to the       *)
(* presentation side: a mailbox for one message.  The producer may put a   *)
(* complete message only into an empty box, a consumer takes the message   *)
(* out of the box into its own hands, looks at it for as long as it likes  *)
(* and lets it go.  At most one consumer holds a message, and a message    *)
(* never changes while it lies in the box or is held.                      *)
(***************************************************************************)
CONSTANTS
  Message,     \* what is published: the bytes of one complete publication
  Consumer,    \* the callers of TakePublished
  None         \* "no message": not a member of Message

VARIABLES
  box,         \* the unread publication, or None
  held         \* for each consumer the publication it is looking at, or None

vars == <<box, held>>

Init ==
  /\ box = None
  /\ held = [c \in Consumer |-> None]

Put(m) ==
  /\ box = None
  /\ box' = m
  /\ UNCHANGED held

Take(c) ==
  /\ box # None
  /\ \A d \in Consumer : held[d] = None
  /\ held' = [held EXCEPT ![c] = box]
  /\ box' = None

Release(c) ==
  /\ held[c] # None
  /\ held' = [held EXCEPT ![c] = None]
  /\ UNCHANGED box

Next ==
  \/ \E m \in Message : Put(m)
  \/ \E c \in Consumer : Take(c) \/ Release(c)

Spec == Init /\ [][Next]_vars
=============================================================================
