---------------------------- MODULE EventChannel ----------------------------
(***************************************************************************)
(* What the receive side of the driver promises the daemon, with neither   *)
(* list, semaphore nor mutex in sight: announced events form a queue, a     *)
(* getter first claims an event and then receives the oldest one, and it is *)
(* told "TIMEOUT" only when every announced event is already claimed.       *)
(* ReceiveQueue implements this module.                                     *)
(***************************************************************************)
EXTENDS Integers, Sequences, FiniteSets

CONSTANTS
    Event,      \* the events that may be announced
    Getter,     \* the threads that read
    NoEvent     \* what a getter holds when it holds nothing

VARIABLES
    queue,      \* announced events that no getter has received, oldest first
    phase,      \* where each getter is in its read
    held,       \* the event each getter has received and not yet returned
    answer      \* the outcome of each getter's last read

vars == <<queue, phase, held, answer>>

Answer == {"none", "SUCCESS", "TIMEOUT", "INTERNAL", "PARAMETER"}
Phase == {"idle", "asking", "owed", "holding"}

Owed == {g \in Getter : phase[g] = "owed"}
Unclaimed == Len(queue) - Cardinality(Owed)

Move(g, from, to) ==
    /\ phase[g] = from
    /\ phase' = [phase EXCEPT ![g] = to]

Init ==
    /\ queue = <<>>
    /\ phase = [g \in Getter |-> "idle"]
    /\ held = [g \in Getter |-> NoEvent]
    /\ answer = [g \in Getter |-> "none"]

Put(e) ==
    /\ queue' = Append(queue, e)
    /\ UNCHANGED <<phase, held, answer>>

Ask(g) ==
    /\ Move(g, "idle", "asking")
    /\ UNCHANGED <<queue, held, answer>>

\* A read that is refused before it looks at the channel.
Refuse(g) ==
    /\ phase[g] = "idle"
    /\ answer' = [answer EXCEPT ![g] = "PARAMETER"]
    /\ UNCHANGED <<queue, phase, held>>

Claim(g) ==
    /\ Unclaimed > 0
    /\ Move(g, "asking", "owed")
    /\ UNCHANGED <<queue, held, answer>>

FoundEmpty(g) ==
    /\ Unclaimed = 0
    /\ Move(g, "asking", "idle")
    /\ answer' = [answer EXCEPT ![g] = "TIMEOUT"]
    /\ UNCHANGED <<queue, held>>

Fail(g) ==
    /\ Move(g, "asking", "idle")
    /\ answer' = [answer EXCEPT ![g] = "INTERNAL"]
    /\ UNCHANGED <<queue, held>>

Deliver(g) ==
    /\ queue # <<>>
    /\ Move(g, "owed", "holding")
    /\ held' = [held EXCEPT ![g] = Head(queue)]
    /\ queue' = Tail(queue)
    /\ UNCHANGED answer

Return(g) ==
    /\ Move(g, "holding", "idle")
    /\ held' = [held EXCEPT ![g] = NoEvent]
    /\ answer' = [answer EXCEPT ![g] = "SUCCESS"]
    /\ UNCHANGED queue

Next ==
    \/ \E e \in Event : Put(e)
    \/ \E g \in Getter :
        \/ Ask(g)
        \/ Refuse(g)
        \/ Claim(g)
        \/ FoundEmpty(g)
        \/ Fail(g)
        \/ Deliver(g)
        \/ Return(g)

Spec == Init /\ [][Next]_vars

\* Every read ends, and every claim is honoured.
Fairness ==
    \A g \in Getter :
        /\ WF_vars(Claim(g) \/ FoundEmpty(g) \/ Fail(g))
        /\ WF_vars(Deliver(g))
        /\ WF_vars(Return(g))

FairSpec == Spec /\ Fairness
=============================================================================
