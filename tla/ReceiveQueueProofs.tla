------------------------- MODULE ReceiveQueueProofs -------------------------
(***************************************************************************)
(* The safety of ReceiveQueue for every set of readers, every event set and *)
(* every queue bound.  The invariants are not inductive one by one: the     *)
(* count of the semaphore is kept only by threads that obey the mutex, and  *)
(* the type of the list needs what the worker holds when it pushes.  IInv   *)
(* is their conjunction.                                                    *)
(***************************************************************************)
EXTENDS ReceiveQueue, FiniteSetTheorems, SequenceTheorems, TLAPS

\* What the worker pushes has passed the filter.
PushesAccepted == pc[Worker] = "push" => pEvent[Worker] \in Accepted

IInv ==
    /\ TypeOK
    /\ PushesAccepted
    /\ MutexProtectsList
    /\ SemCountsEvents

-----------------------------------------------------------------------------
\* The number of claiming readers is a natural number, and it is positive as
\* soon as one reader is between its sem_wait and its pop_front.
LEMMA ClaimantsCounted ==
    /\ IsFiniteSet(Claimants)
    /\ Cardinality(Claimants) \in Nat
    /\ \A r \in Claimants : Cardinality(Claimants) > 0
<1>1. IsFiniteSet(Claimants)
    BY FS_Subset, ReceiveQueueAssumption DEF Claimants, ReceiveQueueAssumption
<1>2. Cardinality(Claimants) \in Nat
    BY <1>1, FS_CardinalityType
<1>3. ASSUME NEW r \in Claimants
      PROVE  Cardinality(Claimants) > 0
    <2>1. Claimants # {}
        BY <1>3
    <2>2. Cardinality(Claimants) # 0
        BY <2>1, <1>1, FS_EmptySet
    <2> QED
        BY <2>2, <1>2
<1> QED
    BY <1>1, <1>2, <1>3

\* Init establishes the inductive invariant.
LEMMA InitIInv == Init => IInv
<1> SUFFICES ASSUME Init
             PROVE  IInv
    OBVIOUS
<1> USE ReceiveQueueAssumption DEF ReceiveQueueAssumption, Init, Threads
<1>1. TypeOK
    BY DEF TypeOK, WorkerStep, ReaderStep, ReturnCode
<1>2. PushesAccepted
    BY DEF PushesAccepted
<1>3. MutexProtectsList
    BY DEF MutexProtectsList, InCritical
<1>4. SemCountsEvents
    <2>1. Claimants = {}
        BY DEF Claimants
    <2>2. Cardinality(Claimants) = 0
        BY <2>1, FS_EmptySet
    <2>3. Len(m_receiveList) = 0
        BY EmptySeq
    <2> QED
        BY <2>2, <2>3 DEF SemCountsEvents, Unposted
<1> QED
    BY <1>1, <1>2, <1>3, <1>4 DEF IInv

\* How the set of claiming readers changes when only reader r moves.
LEMMA ClaimantsChange ==
    ASSUME TypeOK, NEW r \in Readers, NEW to \in ReaderStep,
           pc' = [pc EXCEPT ![r] = to]
    PROVE  /\ pc'[Worker] = pc[Worker]
           /\ Claimants' = IF to \in {"lock", "front"} THEN Claimants \cup {r}
                                                       ELSE Claimants \ {r}
<1> USE ReceiveQueueAssumption DEF ReceiveQueueAssumption, TypeOK, Threads
<1>1. pc'[Worker] = pc[Worker]
    OBVIOUS
<1>2. \A q \in Readers : pc'[q] = IF q = r THEN to ELSE pc[q]
    OBVIOUS
<1>3. CASE to \in {"lock", "front"}
    BY <1>1, <1>2, <1>3 DEF Claimants
<1>4. CASE to \notin {"lock", "front"}
    BY <1>1, <1>2, <1>4 DEF Claimants
<1> QED
    BY <1>3, <1>4

\* When only the worker moves, no reader gains or loses a claim.
LEMMA ClaimantsKept ==
    ASSUME TypeOK, NEW to \in WorkerStep, pc' = [pc EXCEPT ![Worker] = to]
    PROVE  /\ pc'[Worker] = to
           /\ Claimants' = Claimants
BY ReceiveQueueAssumption
   DEF ReceiveQueueAssumption, TypeOK, Threads, Claimants

-----------------------------------------------------------------------------
\* Types are kept by every step; pushing needs PushesAccepted.
LEMMA TypeStep == IInv /\ [Next]_vars => TypeOK' /\ PushesAccepted'
<1> SUFFICES ASSUME IInv, [Next]_vars
             PROVE  TypeOK' /\ PushesAccepted'
    OBVIOUS
<1> USE ReceiveQueueAssumption
    DEF ReceiveQueueAssumption, IInv, TypeOK, PushesAccepted, Threads,
        WorkerStep, ReaderStep, ReturnCode, Goto, Lock, Unlock
<1>1. CASE UNCHANGED vars
    BY <1>1 DEF vars
<1>2. ASSUME NEW e \in Events, EventExToReceiveQueue(e)
      PROVE  TypeOK' /\ PushesAccepted'
    BY <1>2 DEF EventExToReceiveQueue
<1>3. CASE ConvertFails
    BY <1>3 DEF ConvertFails
<1>4. CASE FilterRejects
    BY <1>4 DEF FilterRejects
<1>5. CASE WorkerLocks
    BY <1>5 DEF WorkerLocks
<1>6. CASE PushBack
    <2>1. m_receiveList' \in Seq(Accepted)
        BY <1>6, AppendProperties DEF PushBack
    <2> QED
        BY <1>6, <2>1 DEF PushBack
<1>7. CASE SemPost
    BY <1>7 DEF SemPost
<1>8. CASE WorkerUnlocks
    BY <1>8 DEF WorkerUnlocks
<1>9. ASSUME NEW r \in Readers, ReaderNext(r)
      PROVE  TypeOK' /\ PushesAccepted'
    <2>1. CASE ReadNullPointer(r)
        BY <2>1 DEF ReadNullPointer
    <2>2. CASE VSCPRead(r)
        BY <2>2 DEF VSCPRead
    <2>3. CASE SemWait(r)
        BY <2>3 DEF SemWait
    <2>4. CASE SemTimedOut(r)
        BY <2>4 DEF SemTimedOut
    <2>5. CASE SemFails(r)
        BY <2>5 DEF SemFails
    <2>6. CASE ReaderLocks(r)
        BY <2>6 DEF ReaderLocks
    <2>7. CASE PopFront(r)
        <3>1. Head(m_receiveList) \in Accepted /\ Tail(m_receiveList) \in Seq(Accepted)
            BY <2>7, HeadTailProperties DEF PopFront
        <3> QED
            BY <2>7, <3>1 DEF PopFront
    <2>8. CASE ReaderUnlocks(r)
        BY <2>8 DEF ReaderUnlocks
    <2>9. CASE CopyAndDelete(r)
        BY <2>9 DEF CopyAndDelete
    <2> QED
        BY <1>9, <2>1, <2>2, <2>3, <2>4, <2>5, <2>6, <2>7, <2>8, <2>9 DEF ReaderNext
<1> QED
    BY <1>1, <1>2, <1>3, <1>4, <1>5, <1>6, <1>7, <1>8, <1>9 DEF Next, WorkerNext

\* The mutex is taken and released at the borders of the critical sections.
LEMMA MutexStep == IInv /\ [Next]_vars => MutexProtectsList'
<1> SUFFICES ASSUME IInv, [Next]_vars
             PROVE  MutexProtectsList'
    OBVIOUS
<1> USE ReceiveQueueAssumption
    DEF ReceiveQueueAssumption, IInv, TypeOK, MutexProtectsList, InCritical, Threads,
        WorkerStep, ReaderStep, Goto, Lock, Unlock
<1>1. CASE UNCHANGED vars
    BY <1>1 DEF vars
<1>2. CASE WorkerNext
    <2>1. ASSUME NEW e \in Events, EventExToReceiveQueue(e)
          PROVE  MutexProtectsList'
        BY <2>1 DEF EventExToReceiveQueue
    <2>2. CASE ConvertFails \/ FilterRejects
        BY <2>2 DEF ConvertFails, FilterRejects
    <2>3. CASE WorkerLocks
        BY <2>3 DEF WorkerLocks
    <2>4. CASE PushBack \/ SemPost
        BY <2>4 DEF PushBack, SemPost
    <2>5. CASE WorkerUnlocks
        BY <2>5 DEF WorkerUnlocks
    <2> QED
        BY <1>2, <2>1, <2>2, <2>3, <2>4, <2>5 DEF WorkerNext
<1>3. ASSUME NEW r \in Readers, ReaderNext(r)
      PROVE  MutexProtectsList'
    <2>1. CASE ReadNullPointer(r)
        BY <2>1 DEF ReadNullPointer
    <2>2. CASE VSCPRead(r) \/ SemWait(r) \/ SemTimedOut(r) \/ SemFails(r)
        BY <2>2 DEF VSCPRead, SemWait, SemTimedOut, SemFails
    <2>3. CASE ReaderLocks(r)
        BY <2>3 DEF ReaderLocks
    <2>4. CASE PopFront(r)
        BY <2>4 DEF PopFront
    <2>5. CASE ReaderUnlocks(r)
        BY <2>5 DEF ReaderUnlocks
    <2>6. CASE CopyAndDelete(r)
        BY <2>6 DEF CopyAndDelete
    <2> QED
        BY <1>3, <2>1, <2>2, <2>3, <2>4, <2>5, <2>6 DEF ReaderNext
<1> QED
    BY <1>1, <1>2, <1>3 DEF Next

\* Units, claims, pushes and pops balance in every step.
LEMMA CountStep == IInv /\ [Next]_vars => SemCountsEvents'
<1> SUFFICES ASSUME IInv, [Next]_vars
             PROVE  SemCountsEvents'
    OBVIOUS
<1> USE ReceiveQueueAssumption, ClaimantsCounted
    DEF ReceiveQueueAssumption, IInv, SemCountsEvents, Unposted, Goto
<1>0. /\ TypeOK
      /\ m_receiveList \in Seq(Accepted)
      /\ Len(m_receiveList) \in Nat
      /\ m_semReceiveQueue \in Nat
    BY LenProperties DEF TypeOK
<1>1. CASE UNCHANGED vars
    BY <1>1 DEF vars, Claimants
<1>2. CASE WorkerNext
    <2>1. ASSUME NEW e \in Events, EventExToReceiveQueue(e)
          PROVE  SemCountsEvents'
        BY <2>1, <1>0, ClaimantsKept DEF EventExToReceiveQueue, WorkerStep
    <2>2. CASE ConvertFails \/ FilterRejects
        BY <2>2, <1>0, ClaimantsKept DEF ConvertFails, FilterRejects, WorkerStep
    <2>3. CASE WorkerLocks
        BY <2>3, <1>0, ClaimantsKept DEF WorkerLocks, WorkerStep
    <2>4. CASE PushBack
        <3>1. Len(m_receiveList') = Len(m_receiveList) + 1
            BY <2>4, <1>0, AppendProperties DEF PushBack, PushesAccepted
        <3> QED
            BY <2>4, <3>1, <1>0, ClaimantsKept DEF PushBack, WorkerStep
    <2>5. CASE SemPost
        BY <2>5, <1>0, ClaimantsKept DEF SemPost, WorkerStep
    <2>6. CASE WorkerUnlocks
        BY <2>6, <1>0, ClaimantsKept DEF WorkerUnlocks, WorkerStep
    <2> QED
        BY <1>2, <2>1, <2>2, <2>3, <2>4, <2>5, <2>6 DEF WorkerNext
<1>3. ASSUME NEW r \in Readers, ReaderNext(r)
      PROVE  SemCountsEvents'
    <2>0. /\ Cardinality(Claimants \cup {r}) =
                 IF r \in Claimants THEN Cardinality(Claimants)
                                    ELSE Cardinality(Claimants) + 1
          /\ Cardinality(Claimants \ {r}) =
                 IF r \in Claimants THEN Cardinality(Claimants) - 1
                                    ELSE Cardinality(Claimants)
          /\ r \in Claimants <=> pc[r] \in {"lock", "front"}
        BY FS_AddElement, FS_RemoveElement DEF Claimants
    <2>1. CASE ReadNullPointer(r)
        BY <2>1 DEF ReadNullPointer, Claimants
    <2>2. CASE VSCPRead(r) \/ SemTimedOut(r) \/ SemFails(r)
        BY <2>0, <2>2, <1>0, ClaimantsChange
           DEF VSCPRead, SemTimedOut, SemFails, ReaderStep
    <2>3. CASE SemWait(r)
        <3>1. pc'[Worker] = pc[Worker] /\ Claimants' = Claimants \cup {r}
            BY <2>3, <1>0, ClaimantsChange DEF SemWait, ReaderStep
        <3>2. Cardinality(Claimants') = Cardinality(Claimants) + 1
            BY <3>1, <2>0, <2>3 DEF SemWait
        <3> QED
            BY <2>3, <3>1, <3>2, <1>0 DEF SemWait
    <2>4. CASE ReaderLocks(r)
        BY <2>0, <2>4, <1>0, ClaimantsChange DEF ReaderLocks, ReaderStep
    <2>5. CASE PopFront(r)
        <3>1. Len(m_receiveList') = Len(m_receiveList) - 1
            BY <2>5, <1>0, HeadTailProperties DEF PopFront
        <3>2. pc'[Worker] = pc[Worker] /\ Claimants' = Claimants \ {r}
            BY <2>5, <1>0, ClaimantsChange DEF PopFront, ReaderStep
        <3>3. Cardinality(Claimants') = Cardinality(Claimants) - 1
            BY <3>2, <2>0, <2>5 DEF PopFront
        <3>4. m_semReceiveQueue' = m_semReceiveQueue
            BY <2>5 DEF PopFront
        <3> QED
            BY <3>1, <3>2, <3>3, <3>4, <1>0
    <2>6. CASE ReaderUnlocks(r) \/ CopyAndDelete(r)
        BY <2>0, <2>6, <1>0, ClaimantsChange
           DEF ReaderUnlocks, CopyAndDelete, ReaderStep
    <2> QED
        BY <1>3, <2>1, <2>2, <2>3, <2>4, <2>5, <2>6 DEF ReaderNext
<1> QED
    BY <1>1, <1>2, <1>3 DEF Next

-----------------------------------------------------------------------------
\* The inductive invariant holds in every reachable state.
THEOREM Invariance == Spec => []IInv
<1>1. Init => IInv
    BY InitIInv
<1>2. IInv /\ [Next]_vars => IInv'
    BY TypeStep, MutexStep, CountStep DEF IInv
<1> QED
    BY <1>1, <1>2, PTL DEF Spec

\* VSCPRead never calls front() on an empty list, whatever the number of
\* readers: a reader there is counted by SemCountsEvents.
LEMMA ClaimMeansEvent == IInv => FrontNeverEmpty
<1> SUFFICES ASSUME IInv, NEW r \in Readers, pc[r] \in {"lock", "front"}
             PROVE  m_receiveList # <<>>
    BY DEF FrontNeverEmpty
<1>1. Cardinality(Claimants) \in Nat /\ Cardinality(Claimants) > 0
    BY ClaimantsCounted DEF Claimants
<1>2. Len(m_receiveList) > 0
    BY <1>1 DEF IInv, TypeOK, SemCountsEvents, Unposted
<1> QED
    BY <1>2, EmptySeq

\* Types, for every value of the constants.
THEOREM TypeCorrect == Spec => []TypeOK
<1>1. IInv => TypeOK
    BY DEF IInv
<1> QED
    BY <1>1, Invariance, PTL

\* The list and the post are inside the critical sections of one mutex.
THEOREM MutualExclusion == Spec => []MutexProtectsList
<1>1. IInv => MutexProtectsList
    BY DEF IInv
<1> QED
    BY <1>1, Invariance, PTL

\* The semaphore counts the list.
THEOREM SemaphoreCounts == Spec => []SemCountsEvents
<1>1. IInv => SemCountsEvents
    BY DEF IInv
<1> QED
    BY <1>1, Invariance, PTL

\* No reader meets an empty list.
THEOREM ReaderFindsEvent == Spec => []FrontNeverEmpty
    BY ClaimMeansEvent, Invariance, PTL

-----------------------------------------------------------------------------
(* ReceiveQueue implements the safety part of EventChannel.                 *)

\* A prefix of a sequence.
LEMMA PrefixProperties ==
    ASSUME NEW S, NEW s \in Seq(S), NEW k \in Nat, Len(s) - k \in Nat
    PROVE  /\ SubSeq(s, 1, Len(s) - k) \in Seq(S)
           /\ Len(SubSeq(s, 1, Len(s) - k)) = Len(s) - k
           /\ \A i \in 1..(Len(s) - k) : SubSeq(s, 1, Len(s) - k)[i] = s[i]
<1> DEFINE n == Len(s) - k
<1>1. n \in Int /\ n >= 0 /\ Len(s) \in Nat /\ n <= Len(s)
    BY LenProperties
<1> HIDE DEF n
<1>2. \A i \in 1..n : s[i] \in S
    BY <1>1, ElementOfSeq
<1>3. /\ SubSeq(s, 1, n) \in Seq(S)
      /\ Len(SubSeq(s, 1, n)) = IF 1 <= n THEN n - 1 + 1 ELSE 0
      /\ \A i \in 1..(n - 1 + 1) : SubSeq(s, 1, n)[i] = s[1 + i - 1]
    BY <1>1, <1>2, SubSeqProperties
<1>4. Len(SubSeq(s, 1, n)) = n
    BY <1>1, <1>3
<1>5. \A i \in 1..n : SubSeq(s, 1, n)[i] = s[i]
    BY <1>1, <1>3
<1> QED
    BY <1>3, <1>4, <1>5 DEF n

\* The list without the event that awaits its sem_post, before and after each
\* of the three operations that change it.
LEMMA AnnouncedChange ==
    ASSUME NEW s \in Seq(Accepted)
    PROVE  /\ \A e \in Accepted : SubSeq(Append(s, e), 1, Len(Append(s, e)) - 1)
                                      = SubSeq(s, 1, Len(s) - 0)
           /\ s # <<>> => /\ s[Len(s)] \in Accepted
                          /\ SubSeq(s, 1, Len(s) - 0)
                               = Append(SubSeq(s, 1, Len(s) - 1), s[Len(s)])
           /\ s # <<>> => SubSeq(Tail(s), 1, Len(Tail(s)) - 0) = Tail(s)
           /\ SubSeq(s, 1, Len(s) - 0) = s
<1>1. Len(s) \in Nat /\ SubSeq(s, 1, Len(s) - 0) = s
    BY SubSeqFull, LenProperties
<1>2. ASSUME NEW e \in Accepted
      PROVE  SubSeq(Append(s, e), 1, Len(Append(s, e)) - 1) = s
    <2>1. Append(s, e) \in Seq(Accepted) /\ Len(Append(s, e)) = Len(s) + 1
        BY AppendProperties
    <2>2. /\ SubSeq(Append(s, e), 1, Len(s)) \in Seq(Accepted)
          /\ Len(SubSeq(Append(s, e), 1, Len(s))) = Len(s)
          /\ \A i \in 1..Len(s) :
                 SubSeq(Append(s, e), 1, Len(s))[i] = Append(s, e)[i]
        BY <1>1, <2>1
    <2>3. \A i \in 1..Len(s) : Append(s, e)[i] = s[i]
        BY AppendProperties
    <2> QED
        BY <1>1, <2>1, <2>2, <2>3, SeqEqual
<1>3. ASSUME s # <<>>
      PROVE  /\ s[Len(s)] \in Accepted
             /\ s = Append(SubSeq(s, 1, Len(s) - 1), s[Len(s)])
    <2>1. Len(s) \in Nat \ {0} /\ s[Len(s)] \in Accepted
        BY <1>3, <1>1, EmptySeq, ElementOfSeq
    <2>2. /\ SubSeq(s, 1, Len(s) - 1) \in Seq(Accepted)
          /\ Len(SubSeq(s, 1, Len(s) - 1)) = Len(s) - 1
          /\ \A i \in 1..(Len(s) - 1) : SubSeq(s, 1, Len(s) - 1)[i] = s[i]
        <3>1. Len(s) - 1 \in Nat /\ 1 \in Nat
            BY <2>1
        <3> QED
            BY <3>1, PrefixProperties
    <2> DEFINE t == Append(SubSeq(s, 1, Len(s) - 1), s[Len(s)])
    <2>3. t \in Seq(Accepted) /\ Len(t) = Len(s)
        BY <2>1, <2>2, AppendProperties
    <2>4. \A i \in 1..Len(s) : t[i] = s[i]
        BY <2>1, <2>2, AppendProperties
    <2> QED
        BY <2>1, <2>3, <2>4, SeqEqual
<1>4. ASSUME s # <<>>
      PROVE  SubSeq(Tail(s), 1, Len(Tail(s)) - 0) = Tail(s)
    BY <1>4, HeadTailProperties, SubSeqFull, LenProperties
<1> QED
    BY <1>1, <1>2, <1>3, <1>4

\* The phases a reader goes through in the eyes of the abstract channel.
LEMMA Phases ==
    /\ PhaseOf("idle") = "idle"
    /\ PhaseOf("wait") = "asking"
    /\ PhaseOf("lock") = "owed"
    /\ PhaseOf("front") = "owed"
    /\ PhaseOf("unlock") = "holding"
    /\ PhaseOf("copy") = "holding"
BY DEF PhaseOf

\* The channel's Cardinality is the one of this module.
LEMMA SameCardinality ==
    ASSUME NEW S
    PROVE  Channel!Cardinality(S) = Cardinality(S)
BY DEF Channel!Cardinality, Cardinality

\* The readers that are owed an event are the claimants, so an unclaimed event
\* of the channel is a unit of the semaphore.
LEMMA UnclaimedIsSemaphore ==
    IInv => Channel!Owed = Claimants /\ Channel!Unclaimed = m_semReceiveQueue
<1> SUFFICES ASSUME IInv
             PROVE  Channel!Owed = Claimants /\ Channel!Unclaimed = m_semReceiveQueue
    OBVIOUS
<1>1. Channel!Owed = Claimants
    BY Phases DEF Channel!Owed, Claimants, IInv, TypeOK, ReaderStep
<1>2. Len(Announced) = Len(m_receiveList) - Unposted
    <2>1. Len(m_receiveList) \in Nat /\ Len(m_receiveList) - Unposted \in Nat
        BY ClaimantsCounted, LenProperties
           DEF IInv, TypeOK, SemCountsEvents, Unposted
    <2>2. m_receiveList \in Seq(Accepted)
        BY DEF IInv, TypeOK
    <2>3. Unposted \in Nat
        BY DEF Unposted
    <2> QED
        BY <2>1, <2>2, <2>3, PrefixProperties DEF Announced
<1> QED
    <2>1. /\ Len(m_receiveList) \in Nat
          /\ m_semReceiveQueue \in Nat
          /\ Unposted \in Nat
          /\ m_semReceiveQueue + Cardinality(Claimants) + Unposted = Len(m_receiveList)
        BY LenProperties DEF IInv, TypeOK, SemCountsEvents, Unposted
    <2>2. Channel!Unclaimed = Len(Announced) - Cardinality(Claimants)
        BY <1>1, SameCardinality DEF Channel!Unclaimed
    <2> QED
        BY <1>1, <1>2, <2>1, <2>2, ClaimantsCounted

\* A reader's step from one place to another moves it between the phases.
LEMMA PhaseMoves ==
    ASSUME IInv, NEW r \in Readers, NEW from \in ReaderStep, NEW to \in ReaderStep,
           Goto(r, from, to)
    PROVE  /\ pc'[Worker] = pc[Worker]
           /\ PhaseOf(from) # PhaseOf(to)
                  => Channel!Move(r, PhaseOf(from), PhaseOf(to))
           /\ PhaseOf(from) = PhaseOf(to)
                  => [q \in Readers |-> PhaseOf(pc[q])]'
                        = [q \in Readers |-> PhaseOf(pc[q])]
BY ReceiveQueueAssumption
   DEF ReceiveQueueAssumption, IInv, TypeOK, Threads, Goto, Channel!Move

\* The worker's steps leave the phases alone.
LEMMA WorkerKeepsPhases ==
    ASSUME IInv, NEW from, NEW to, Goto(Worker, from, to)
    PROVE  /\ pc'[Worker] = to
           /\ [q \in Readers |-> PhaseOf(pc[q])]'
                 = [q \in Readers |-> PhaseOf(pc[q])]
BY ReceiveQueueAssumption
   DEF ReceiveQueueAssumption, IInv, TypeOK, Threads, Goto

\* Every step of the worker announces an event (SemPost) or is invisible.
LEMMA WorkerRefines == IInv /\ WorkerNext => [Channel!Next]_Channel!vars
<1> SUFFICES ASSUME IInv, WorkerNext
             PROVE  [Channel!Next]_Channel!vars
    OBVIOUS
<1> DEFINE phases == [q \in Readers |-> PhaseOf(pc[q])]
           helds == [q \in Readers |-> pEvent[q]]
<1> USE ReceiveQueueAssumption DEF ReceiveQueueAssumption
<1>0. m_receiveList \in Seq(Accepted) /\ Worker \notin Readers /\ pEvent \in [Threads -> Events \cup {NoEvent}]
    BY DEF IInv, TypeOK
<1>1. ASSUME phases' = phases, helds' = helds, Announced' = Announced, rv' = rv
      PROVE  UNCHANGED Channel!vars
    BY <1>1 DEF Channel!vars
<1>2. ASSUME NEW e \in Events, EventExToReceiveQueue(e)
      PROVE  UNCHANGED Channel!vars
    <2>1. phases' = phases /\ helds' = helds
        BY <1>2, <1>0, WorkerKeepsPhases DEF EventExToReceiveQueue, Threads
    <2>2. Announced' = Announced
        BY <1>2, WorkerKeepsPhases
           DEF EventExToReceiveQueue, Announced, Unposted, Goto
    <2> QED
        BY <1>1, <1>2, <2>1, <2>2 DEF EventExToReceiveQueue
<1>3. CASE ConvertFails \/ FilterRejects \/ WorkerLocks \/ WorkerUnlocks
    <2>1. phases' = phases /\ helds' = helds
        BY <1>3, <1>0, WorkerKeepsPhases
           DEF ConvertFails, FilterRejects, WorkerLocks, WorkerUnlocks, Threads
    <2>2. Announced' = Announced
        BY <1>3, WorkerKeepsPhases
           DEF ConvertFails, FilterRejects, WorkerLocks, WorkerUnlocks,
               Announced, Unposted, Goto
    <2>3. UNCHANGED Channel!vars
        BY <1>1, <1>3, <2>1, <2>2
           DEF ConvertFails, FilterRejects, WorkerLocks, WorkerUnlocks
    <2> QED
        BY <2>3
<1>4. CASE PushBack
    <2>1. phases' = phases /\ helds' = helds /\ pc'[Worker] = "post"
        BY <1>4, <1>0, WorkerKeepsPhases DEF PushBack, Threads
    <2>2. Announced' = Announced
        BY <1>4, <1>0, <2>1, AnnouncedChange
           DEF PushBack, Goto, Announced, Unposted, IInv, PushesAccepted
    <2> QED
        BY <1>1, <1>4, <2>1, <2>2 DEF PushBack
<1>5. CASE SemPost
    <2>1. phases' = phases /\ helds' = helds /\ pc'[Worker] = "unlock"
        BY <1>5, <1>0, WorkerKeepsPhases DEF SemPost, Threads
    <2>2. m_receiveList # <<>>
        <3>1. Len(m_receiveList) > 0
            BY <1>5, ClaimantsCounted
               DEF SemPost, Goto, IInv, TypeOK, SemCountsEvents, Unposted
        <3> QED
            BY <3>1, EmptySeq
    <2> DEFINE e == m_receiveList[Len(m_receiveList)]
    <2>3. e \in Accepted /\ Announced' = Append(Announced, e)
        BY <1>5, <1>0, <2>1, <2>2, AnnouncedChange
           DEF SemPost, Goto, Announced, Unposted
    <2>4. Channel!Put(e)
        BY <1>5, <2>1, <2>3 DEF SemPost, Channel!Put
    <2> QED
        BY <2>3, <2>4 DEF Channel!Next
<1> QED
    BY <1>2, <1>3, <1>4, <1>5 DEF WorkerNext

\* The announced events, when the worker is not where Unposted changes.
LEMMA AnnouncedKept ==
    pc'[Worker] = pc[Worker] /\ m_receiveList' = m_receiveList
        => Announced' = Announced
BY DEF Announced, Unposted

\* Every step of VSCPRead is the channel's step of the same meaning, or
\* invisible (taking and releasing the mutex).
LEMMA ReaderRefines ==
    ASSUME IInv, NEW r \in Readers, ReaderNext(r)
    PROVE  [Channel!Next]_Channel!vars
<1> USE ReceiveQueueAssumption DEF ReceiveQueueAssumption
<1>0. /\ m_receiveList \in Seq(Accepted)
      /\ m_semReceiveQueue \in Nat
      /\ pEvent \in [Threads -> Events \cup {NoEvent}]
      /\ rv \in [Readers -> ReturnCode]
      /\ r \in Threads
    BY DEF IInv, TypeOK, Threads
<1> DEFINE helds == [q \in Readers |-> pEvent[q]]
<1>1. CASE ReadNullPointer(r)
    <2>1. Channel!Refuse(r)
        BY <1>1, Phases, AnnouncedKept DEF ReadNullPointer, Channel!Refuse
    <2> QED
        BY <2>1 DEF Channel!Next
<1>2. CASE VSCPRead(r)
    <2>1. pc'[Worker] = pc[Worker] /\ Channel!Move(r, "idle", "asking")
        BY <1>2, PhaseMoves, Phases DEF VSCPRead, ReaderStep
    <2>2. Channel!Ask(r)
        BY <1>2, <2>1, AnnouncedKept DEF VSCPRead, Channel!Ask
    <2> QED
        BY <2>2 DEF Channel!Next
<1>3. CASE SemWait(r)
    <2>1. pc'[Worker] = pc[Worker] /\ Channel!Move(r, "asking", "owed")
        BY <1>3, PhaseMoves, Phases DEF SemWait, ReaderStep
    <2>2. Channel!Unclaimed > 0
        BY <1>3, UnclaimedIsSemaphore DEF SemWait
    <2>3. Channel!Claim(r)
        BY <1>3, <2>1, <2>2, AnnouncedKept DEF SemWait, Channel!Claim
    <2> QED
        BY <2>3 DEF Channel!Next
<1>4. CASE SemTimedOut(r)
    <2>1. pc'[Worker] = pc[Worker] /\ Channel!Move(r, "asking", "idle")
        BY <1>4, PhaseMoves, Phases DEF SemTimedOut, ReaderStep
    <2>2. Channel!Unclaimed = 0
        BY <1>4, UnclaimedIsSemaphore DEF SemTimedOut
    <2>3. Channel!FoundEmpty(r)
        BY <1>4, <2>1, <2>2, AnnouncedKept DEF SemTimedOut, Channel!FoundEmpty
    <2> QED
        BY <2>3 DEF Channel!Next
<1>5. CASE SemFails(r)
    <2>1. pc'[Worker] = pc[Worker] /\ Channel!Move(r, "asking", "idle")
        BY <1>5, PhaseMoves, Phases DEF SemFails, ReaderStep
    <2>2. Channel!Fail(r)
        BY <1>5, <2>1, AnnouncedKept DEF SemFails, Channel!Fail
    <2> QED
        BY <2>2 DEF Channel!Next
<1>6. CASE ReaderLocks(r) \/ ReaderUnlocks(r)
    <2>1. /\ pc'[Worker] = pc[Worker]
          /\ [q \in Readers |-> PhaseOf(pc[q])]' = [q \in Readers |-> PhaseOf(pc[q])]
        BY <1>6, PhaseMoves, Phases DEF ReaderLocks, ReaderUnlocks, ReaderStep
    <2>2. UNCHANGED Channel!vars
        BY <1>6, <2>1, AnnouncedKept DEF ReaderLocks, ReaderUnlocks, Channel!vars
    <2> QED
        BY <2>2
<1>7. CASE PopFront(r)
    <2>1. pc'[Worker] = pc[Worker] /\ Channel!Move(r, "owed", "holding")
        BY <1>7, PhaseMoves, Phases DEF PopFront, ReaderStep
    <2>2. Unposted = 0 /\ Unposted' = 0
        <3>1. m_mutexReceiveQueue = r
            BY <1>7, <1>0 DEF PopFront, Goto, IInv, MutexProtectsList, InCritical
        <3>2. pc[Worker] # "post"
            BY <3>1 DEF IInv, MutexProtectsList, InCritical, Threads
        <3> QED
            BY <2>1, <3>2 DEF Unposted
    <2>3. Announced = m_receiveList /\ Announced' = Tail(m_receiveList)
        BY <1>7, <1>0, <2>2, AnnouncedChange DEF PopFront, Announced
    <2>4. helds' = [helds EXCEPT ![r] = Head(Announced)]
        BY <1>7, <1>0, <2>3 DEF PopFront, Threads
    <2>5. Channel!Deliver(r)
        BY <1>7, <2>1, <2>3, <2>4 DEF PopFront, Channel!Deliver
    <2> QED
        BY <2>5 DEF Channel!Next
<1>8. CASE CopyAndDelete(r)
    <2>1. pc'[Worker] = pc[Worker] /\ Channel!Move(r, "holding", "idle")
        BY <1>8, PhaseMoves, Phases DEF CopyAndDelete, ReaderStep
    <2>2. helds' = [helds EXCEPT ![r] = NoEvent]
        BY <1>8, <1>0 DEF CopyAndDelete, Threads
    <2>3. Channel!Return(r)
        BY <1>8, <2>1, <2>2, AnnouncedKept DEF CopyAndDelete, Channel!Return
    <2> QED
        BY <2>3 DEF Channel!Next
<1> QED
    BY <1>1, <1>2, <1>3, <1>4, <1>5, <1>6, <1>7, <1>8 DEF ReaderNext

\* The initial state is the empty channel.
LEMMA InitRefines == Init => Channel!Init
BY ReceiveQueueAssumption, SubSeqEmpty, EmptySeq, Phases
   DEF ReceiveQueueAssumption, Init, Threads, Announced, Unposted, Channel!Init

\* eventExToReceiveQueue and VSCPRead together implement the abstract channel:
\* announced events are handed out once, oldest first, and "TIMEOUT" means
\* that nothing was left to claim.  (The fairness half is only model-checked.)
THEOREM Refinement == Spec => Channel!Spec
<1>1. IInv /\ [Next]_vars => [Channel!Next]_Channel!vars
    <2> SUFFICES ASSUME IInv, [Next]_vars
                 PROVE  [Channel!Next]_Channel!vars
        OBVIOUS
    <2>1. CASE UNCHANGED vars
        BY <2>1 DEF vars, Channel!vars, Announced, Unposted
    <2> QED
        BY <2>1, WorkerRefines, ReaderRefines DEF Next
<1> QED
    BY <1>1, InitRefines, Invariance, PTL DEF Spec, Channel!Spec
=============================================================================
