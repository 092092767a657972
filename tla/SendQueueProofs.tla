-------------------------- MODULE SendQueueProofs ---------------------------
(***************************************************************************)
(* The safety of SendQueue for every set of writers and every event set.    *)
(* The worker's unlocked size() is harmless because it is the only thread   *)
(* that pops: SendIInv says what each thread holds at each of its steps,    *)
(* which is what the conservation of the events and the count of the        *)
(* wake-ups need.  That close() waits for the worker holds until a signal   *)
(* interrupts a wait of the worker, and is proved in that form.             *)
(***************************************************************************)
EXTENDS SendQueue, FiniteSetTheorems, SequenceTheorems, TLAPS

\* Who holds an event, and where.
HandsOK ==
    /\ \A w \in Writers :
           Len(hand[w]) = IF pc[w] \in {"lock", "push"} THEN 1 ELSE 0
    /\ pc[Worker] \notin {"unlock", "handle"} => hand[Worker] = <<>>

\* The state that concerns the two queues.
SendIInv ==
    /\ TypeOK
    /\ HandsOK
    /\ MutexProtectsList
    /\ FrontNeverEmpty
    /\ WakeupsCoverQueue
    /\ ConservedInOrder

-----------------------------------------------------------------------------
\* What TypeOK and the assumption on the constants say of single threads.
LEMMA Typing ==
    TypeOK =>
        /\ m_sendList \in Seq(Events)
        /\ pushed \in Seq(Events)
        /\ finished \in Seq(Events)
        /\ hand[Worker] \in Seq(Events)
        /\ \A w \in Writers : hand[w] \in Seq(Events)
        /\ Len(m_sendList) \in Nat
        /\ Worker \notin Writers /\ Closer \notin Writers /\ Closer # Worker
<1> SUFFICES ASSUME TypeOK
             PROVE  /\ m_sendList \in Seq(Events)
                    /\ pushed \in Seq(Events)
                    /\ finished \in Seq(Events)
                    /\ hand[Worker] \in Seq(Events)
                    /\ \A w \in Writers : hand[w] \in Seq(Events)
                    /\ Len(m_sendList) \in Nat
                    /\ Worker \notin Writers /\ Closer \notin Writers /\ Closer # Worker
    OBVIOUS
<1>1. m_sendList \in Seq(Events) /\ pushed \in Seq(Events) /\ finished \in Seq(Events)
    BY DEF TypeOK
<1>2. hand[Worker] \in Seq(Events) /\ \A w \in Writers : hand[w] \in Seq(Events)
    BY DEF TypeOK
<1>3. Len(m_sendList) \in Nat
    BY <1>1, LenProperties
<1> QED
    BY <1>1, <1>2, <1>3, SendQueueAssumption DEF SendQueueAssumption

\* The initial state.
LEMMA SendInit == Init => SendIInv
<1> SUFFICES ASSUME Init
             PROVE  SendIInv
    OBVIOUS
<1> USE SendQueueAssumption DEF SendQueueAssumption, Init, Threads, Empty
<1>1. TypeOK
    BY EmptySeq DEF TypeOK, WriterStep, WorkerStep, CloserStep
<1>2. HandsOK
    BY EmptySeq DEF HandsOK
<1>3. MutexProtectsList /\ FrontNeverEmpty
    BY DEF MutexProtectsList, FrontNeverEmpty, InCritical
<1>4. WakeupsCoverQueue
    <2>1. {w \in Writers : pc[w] = "post"} = {}
        OBVIOUS
    <2>2. Unposted = 0
        BY <2>1, FS_EmptySet DEF Unposted
    <2>3. Len(m_sendList) = 0
        BY EmptySeq
    <2> QED
        BY <2>2, <2>3 DEF WakeupsCoverQueue
<1>5. ConservedInOrder
    BY ConcatEmptySeq, EmptySeq DEF ConservedInOrder
<1> QED
    BY <1>1, <1>2, <1>3, <1>4, <1>5 DEF SendIInv

\* Types and hands: every action moves one thread and at most one event.
LEMMA SendTypeStep == SendIInv /\ [Next]_vars => TypeOK' /\ HandsOK'
<1> SUFFICES ASSUME SendIInv, [Next]_vars
             PROVE  TypeOK' /\ HandsOK'
    OBVIOUS
<1> USE SendQueueAssumption
    DEF SendQueueAssumption, SendIInv, TypeOK, HandsOK, Threads, Empty,
        WriterStep, WorkerStep, CloserStep, Goto, Lock, Unlock,
        queueVars, history
<1>1. CASE UNCHANGED vars
    BY <1>1 DEF vars
<1>2. CASE WorkerNext
    <2>1. CASE DoWork \/ LeaveLoop \/ SemTimedOut \/ SemInterrupted
        BY <2>1 DEF DoWork, LeaveLoop, SemTimedOut, SemInterrupted
    <2>2. CASE SemWait
        BY <2>2 DEF SemWait
    <2>3. CASE SeesEvent \/ SeesNothing
        BY <2>3 DEF SeesEvent, SeesNothing
    <2>4. CASE WorkerLocks \/ WorkerUnlocks
        BY <2>4 DEF WorkerLocks, WorkerUnlocks
    <2>5. CASE PopFront
        <3>1. Head(m_sendList) \in Events /\ Tail(m_sendList) \in Seq(Events)
            BY <2>5, HeadTailProperties DEF PopFront
        <3>2. <<Head(m_sendList)>> \in Seq(Events)
            BY <3>1
        <3>3. TypeOK'
            BY <2>5, <3>1, <3>2 DEF PopFront
        <3>4. HandsOK'
            BY <2>5 DEF PopFront
        <3> QED
            BY <3>3, <3>4
    <2>6. CASE ContinueOnNull \/ HandleAndDelete
        <3>1. Finish("test")
            BY <2>6 DEF ContinueOnNull, HandleAndDelete
        <3>2. finished' \in Seq(Events)
            BY <3>1, ConcatProperties DEF Finish
        <3> QED
            BY <3>1, <3>2, EmptySeq DEF Finish
    <2> QED
        BY <1>2, <2>1, <2>2, <2>3, <2>4, <2>5, <2>6 DEF WorkerNext
<1>3. CASE CloserNext
    BY <1>3 DEF CloserNext, CloseAlreadyQuit, CloseSetsQuit, PthreadJoin
<1>4. ASSUME NEW w \in Writers, WriterNext(w)
      PROVE  TypeOK' /\ HandsOK'
    <2>1. ASSUME NEW e \in Events, VSCPWrite(w, e)
          PROVE  TypeOK' /\ HandsOK'
        <3>1. <<e>> \in Seq(Events) /\ Len(<<e>>) = 1
            OBVIOUS
        <3>2. TypeOK'
            BY <2>1, <3>1 DEF VSCPWrite
        <3>3. HandsOK'
            BY <2>1, <3>1 DEF VSCPWrite
        <3> QED
            BY <3>2, <3>3
    <2>2. CASE WriterLocks(w) \/ WriterUnlocks(w)
        BY <2>2 DEF WriterLocks, WriterUnlocks
    <2>3. CASE PushBack(w)
        <3>1. m_sendList' \in Seq(Events) /\ pushed' \in Seq(Events)
            BY <2>3, ConcatProperties DEF PushBack
        <3> QED
            BY <2>3, <3>1, EmptySeq DEF PushBack
    <2>4. CASE SemPost(w)
        BY <2>4 DEF SemPost
    <2> QED
        BY <1>4, <2>1, <2>2, <2>3, <2>4 DEF WriterNext
<1> QED
    BY <1>1, <1>2, <1>3, <1>4 DEF Next

\* The mutex is taken and released at the borders of the critical sections.
LEMMA SendMutexStep == SendIInv /\ [Next]_vars => MutexProtectsList'
<1> SUFFICES ASSUME SendIInv, [Next]_vars
             PROVE  MutexProtectsList'
    OBVIOUS
<1> USE SendQueueAssumption
    DEF SendQueueAssumption, SendIInv, TypeOK, MutexProtectsList, InCritical,
        Threads, WriterStep, WorkerStep, CloserStep, Goto, Lock, Unlock, queueVars
<1>1. CASE UNCHANGED vars
    BY <1>1 DEF vars
<1>2. CASE WorkerNext
    <2>1. CASE DoWork \/ LeaveLoop \/ SemTimedOut \/ SemInterrupted \/ SemWait
        BY <2>1 DEF DoWork, LeaveLoop, SemTimedOut, SemInterrupted, SemWait
    <2>2. CASE SeesEvent \/ SeesNothing
        BY <2>2 DEF SeesEvent, SeesNothing
    <2>3. CASE WorkerLocks
        BY <2>3 DEF WorkerLocks
    <2>4. CASE PopFront
        BY <2>4 DEF PopFront
    <2>5. CASE WorkerUnlocks
        BY <2>5 DEF WorkerUnlocks
    <2>6. CASE ContinueOnNull \/ HandleAndDelete
        BY <2>6 DEF ContinueOnNull, HandleAndDelete, Finish
    <2> QED
        BY <1>2, <2>1, <2>2, <2>3, <2>4, <2>5, <2>6 DEF WorkerNext
<1>3. CASE CloserNext
    BY <1>3 DEF CloserNext, CloseAlreadyQuit, CloseSetsQuit, PthreadJoin
<1>4. ASSUME NEW w \in Writers, WriterNext(w)
      PROVE  MutexProtectsList'
    <2>1. ASSUME NEW e \in Events, VSCPWrite(w, e)
          PROVE  MutexProtectsList'
        BY <2>1 DEF VSCPWrite
    <2>2. CASE WriterLocks(w)
        BY <2>2 DEF WriterLocks
    <2>3. CASE PushBack(w) \/ SemPost(w)
        BY <2>3 DEF PushBack, SemPost
    <2>4. CASE WriterUnlocks(w)
        BY <2>4 DEF WriterUnlocks
    <2> QED
        BY <1>4, <2>1, <2>2, <2>3, <2>4 DEF WriterNext
<1> QED
    BY <1>1, <1>2, <1>3, <1>4 DEF Next

\* A size that was read as positive stays true: only the worker pops.
LEMMA SendFrontStep == SendIInv /\ [Next]_vars => FrontNeverEmpty'
<1> SUFFICES ASSUME SendIInv, [Next]_vars
             PROVE  FrontNeverEmpty'
    OBVIOUS
<1> USE Typing
    DEF SendIInv, FrontNeverEmpty, Goto, Lock, Unlock, queueVars
<1>0. pc \in [Threads -> WriterStep \cup WorkerStep \cup CloserStep] /\ Worker \in Threads
    BY DEF TypeOK, Threads
<1>1. CASE UNCHANGED vars
    BY <1>1 DEF vars
<1>2. CASE WorkerNext
    <2>1. CASE DoWork \/ LeaveLoop \/ SemTimedOut \/ SemInterrupted \/ SemWait
        BY <1>0, <2>1 DEF DoWork, LeaveLoop, SemTimedOut, SemInterrupted, SemWait
    <2>2. CASE SeesEvent
        <3>1. Len(m_sendList) > 0
            BY <2>2 DEF SeesEvent, ObservedSizes
        <3>2. m_sendList # <<>>
            BY <3>1, EmptySeq
        <3> QED
            BY <2>2, <3>2 DEF SeesEvent
    <2>3. CASE SeesNothing \/ WorkerLocks \/ WorkerUnlocks
        BY <1>0, <2>3 DEF SeesNothing, WorkerLocks, WorkerUnlocks
    <2>4. CASE PopFront
        BY <1>0, <2>4 DEF PopFront
    <2>5. CASE ContinueOnNull \/ HandleAndDelete
        BY <1>0, <2>5 DEF ContinueOnNull, HandleAndDelete, Finish
    <2> QED
        BY <1>2, <2>1, <2>2, <2>3, <2>4, <2>5 DEF WorkerNext
<1>3. CASE CloserNext
    BY <1>0, <1>3 DEF CloserNext, CloseAlreadyQuit, CloseSetsQuit, PthreadJoin, Threads
<1>4. ASSUME NEW w \in Writers, WriterNext(w)
      PROVE  FrontNeverEmpty'
    <2>1. pc'[Worker] = pc[Worker]
        BY <1>0, <1>4
           DEF WriterNext, VSCPWrite, WriterLocks, PushBack, SemPost, WriterUnlocks
    <2>2. CASE PushBack(w)
        <3>1. m_sendList # <<>> => m_sendList' # <<>>
            BY <2>2, ConcatEqualIffEmpty DEF PushBack
        <3> QED
            BY <2>1, <3>1
    <2>3. CASE ~PushBack(w)
        <3>1. m_sendList' = m_sendList
            BY <1>4, <2>3
               DEF WriterNext, VSCPWrite, WriterLocks, SemPost, WriterUnlocks
        <3> QED
            BY <2>1, <3>1
    <2> QED
        BY <2>2, <2>3
<1> QED
    BY <1>1, <1>2, <1>3, <1>4 DEF Next

\* Each event moves along pushed = finished \o hand[Worker] \o m_sendList.
LEMMA SendOrderStep == SendIInv /\ [Next]_vars => ConservedInOrder'
<1> SUFFICES ASSUME SendIInv, [Next]_vars
             PROVE  ConservedInOrder'
    OBVIOUS
<1> USE Typing DEF SendIInv, ConservedInOrder, queueVars, history
<1>0. hand \in [Writers \cup {Worker} -> Seq(Events)]
    BY DEF TypeOK
<1>1. CASE UNCHANGED vars
    BY <1>1 DEF vars
<1>2. CASE WorkerNext
    <2>1. CASE DoWork \/ LeaveLoop \/ SemTimedOut \/ SemInterrupted \/ SemWait
        BY <2>1 DEF DoWork, LeaveLoop, SemTimedOut, SemInterrupted, SemWait
    <2>2. CASE SeesEvent \/ SeesNothing \/ WorkerLocks \/ WorkerUnlocks
        BY <2>2 DEF SeesEvent, SeesNothing, WorkerLocks, WorkerUnlocks
    <2>3. CASE PopFront
        <3>1. hand[Worker] = <<>>
            BY <2>3 DEF PopFront, Goto, HandsOK
        <3>2. /\ Head(m_sendList) \in Events
              /\ Tail(m_sendList) \in Seq(Events)
              /\ <<Head(m_sendList)>> \in Seq(Events)
            BY <2>3, HeadTailProperties DEF PopFront
        <3>3. m_sendList = <<Head(m_sendList)>> \o Tail(m_sendList)
            BY <2>3 DEF PopFront
        <3>4. finished \o <<>> = finished
            BY ConcatEmptySeq
        <3>5. finished \o (<<Head(m_sendList)>> \o Tail(m_sendList))
                = (finished \o <<Head(m_sendList)>>) \o Tail(m_sendList)
            BY <3>2, ConcatAssociative
        <3>6. /\ hand'[Worker] = <<Head(m_sendList)>>
              /\ m_sendList' = Tail(m_sendList)
              /\ pushed' = pushed /\ finished' = finished
            BY <1>0, <2>3 DEF PopFront
        <3> QED
            BY <3>1, <3>3, <3>4, <3>5, <3>6
    <2>4. CASE ContinueOnNull \/ HandleAndDelete
        <3>1. /\ hand'[Worker] = <<>>
              /\ finished' = finished \o hand[Worker]
              /\ m_sendList' = m_sendList /\ pushed' = pushed
            BY <1>0, <2>4 DEF ContinueOnNull, HandleAndDelete, Finish, Empty
        <3>2. (finished \o hand[Worker]) \o <<>> = finished \o hand[Worker]
            BY ConcatProperties, ConcatEmptySeq
        <3> QED
            BY <3>1, <3>2
    <2> QED
        BY <1>2, <2>1, <2>2, <2>3, <2>4 DEF WorkerNext
<1>3. CASE CloserNext
    BY <1>3 DEF CloserNext, CloseAlreadyQuit, CloseSetsQuit, PthreadJoin
<1>4. ASSUME NEW w \in Writers, WriterNext(w)
      PROVE  ConservedInOrder'
    <2>1. hand'[Worker] = hand[Worker] /\ finished' = finished
        BY <1>0, <1>4
           DEF WriterNext, VSCPWrite, WriterLocks, PushBack, SemPost, WriterUnlocks
    <2>2. CASE PushBack(w)
        <3> DEFINE through == finished \o hand[Worker]
                   new == hand[w]
        <3>1. through \in Seq(Events) /\ m_sendList \in Seq(Events) /\ new \in Seq(Events)
            BY ConcatProperties
        <3>2. pushed' = pushed \o new /\ m_sendList' = m_sendList \o new
            BY <2>2 DEF PushBack
        <3>3. pushed = through \o m_sendList
            OBVIOUS
        <3>4. (finished \o hand[Worker] \o m_sendList)' = through \o m_sendList'
            BY <2>1
        <3> HIDE DEF through, new
        <3>5. (through \o m_sendList) \o new = through \o (m_sendList \o new)
            BY <3>1, ConcatAssociative
        <3> QED
            BY <3>2, <3>3, <3>4, <3>5
    <2>3. CASE ~PushBack(w)
        BY <1>4, <2>1, <2>3
           DEF WriterNext, VSCPWrite, WriterLocks, SemPost, WriterUnlocks
    <2> QED
        BY <2>2, <2>3
<1> QED
    BY <1>1, <1>2, <1>3, <1>4 DEF Next

-----------------------------------------------------------------------------
Posting == {w \in Writers : pc[w] = "post"}

\* The worker is between its wait and its pop: it looks at the list anyway.
Looking == IF pc[Worker] \in {"size", "lock", "front"} THEN 1 ELSE 0

\* How the number of writers about to post changes when writer w moves.
LEMMA PostingChange ==
    /\ IsFiniteSet(Posting)
    /\ Unposted = Cardinality(Posting)
    /\ Unposted \in Nat
    /\ Posting # {} => Unposted >= 1
    /\ \A w \in Writers :
           /\ Posting' = Posting \cup {w} /\ w \notin Posting
                  => Cardinality(Posting') = Cardinality(Posting) + 1
           /\ Posting' = Posting \ {w} /\ w \in Posting
                  => Cardinality(Posting') = Cardinality(Posting) - 1
<1>1. IsFiniteSet(Posting)
    BY FS_Subset, SendQueueAssumption DEF Posting, SendQueueAssumption
<1>2. Unposted = Cardinality(Posting)
    BY DEF Unposted, Posting
<1>3. Cardinality(Posting) \in Nat
    BY <1>1, FS_CardinalityType
<1>4. Posting # {} => Cardinality(Posting) >= 1
    <2>1. Posting # {} => Cardinality(Posting) # 0
        BY <1>1, FS_EmptySet
    <2> QED
        BY <1>3, <2>1
<1> QED
    BY <1>1, <1>2, <1>3, <1>4, FS_AddElement, FS_RemoveElement

\* Every queued event keeps its wake-up.
LEMMA SendWakeupStep == SendIInv /\ [Next]_vars => WakeupsCoverQueue'
<1> SUFFICES ASSUME SendIInv, [Next]_vars
             PROVE  WakeupsCoverQueue'
    OBVIOUS
<1>0. /\ m_sendList \in Seq(Events) /\ Len(m_sendList) \in Nat
      /\ m_semSendQueue \in Nat
      /\ pc \in [Threads -> WriterStep \cup WorkerStep \cup CloserStep]
      /\ Worker \in Threads /\ Writers \subseteq Threads
      /\ Worker \notin Writers /\ Closer \notin Writers /\ Closer # Worker
    BY Typing DEF SendIInv, TypeOK, Threads
<1>c. Len(m_sendList) <= m_semSendQueue + Unposted + Looking
    BY DEF SendIInv, WakeupsCoverQueue, Looking
<1>d. WakeupsCoverQueue' <=> Len(m_sendList') <= m_semSendQueue' + Unposted' + Looking'
    BY DEF WakeupsCoverQueue, Looking
<1>p. Unposted \in Nat /\ (Posting # {} => Unposted >= 1) /\ Unposted = Cardinality(Posting)
      /\ Unposted' = Cardinality(Posting')
    BY PostingChange DEF Unposted, Posting
<1> USE DEF queueVars, Goto
<1>1. ASSUME Posting' = Posting
      PROVE  Unposted' = Unposted
    BY <1>1, <1>p
<1>2. CASE UNCHANGED vars
    <2>1. Posting' = Posting /\ Looking' = Looking
        BY <1>2 DEF vars, Posting, Looking
    <2> QED
        BY <1>1, <1>2, <1>c, <1>d, <2>1 DEF vars
<1>3. CASE WorkerNext
    <2>1. Posting' = Posting /\ Unposted' = Unposted
        <3>1. Posting' = Posting
            BY <1>0, <1>3
               DEF Posting, WorkerNext, DoWork, LeaveLoop, SemTimedOut, SemInterrupted,
                   SemWait, SeesEvent, SeesNothing, WorkerLocks, PopFront,
                   WorkerUnlocks, ContinueOnNull, HandleAndDelete, Finish
        <3> QED
            BY <1>1, <3>1
    <2>2. CASE DoWork \/ LeaveLoop \/ ContinueOnNull \/ HandleAndDelete \/ WorkerUnlocks
        <3>1. /\ Looking = 0 /\ Looking' = 0
              /\ m_sendList' = m_sendList /\ m_semSendQueue' = m_semSendQueue
            BY <1>0, <2>2
               DEF Looking, DoWork, LeaveLoop, ContinueOnNull, HandleAndDelete,
                   Finish, WorkerUnlocks
        <3> QED
            BY <1>c, <1>d, <2>1, <3>1
    <2>3. CASE SemWait
        <3>1. /\ Looking = 0 /\ Looking' = 1
              /\ m_sendList' = m_sendList /\ m_semSendQueue' = m_semSendQueue - 1
            BY <1>0, <2>3 DEF Looking, SemWait
        <3> QED
            BY <1>0, <1>p, <1>c, <1>d, <2>1, <3>1
    <2>4. CASE SemTimedOut \/ SemInterrupted
        <3>1. /\ Looking = 0 /\ Looking' = 1
              /\ m_sendList' = m_sendList /\ m_semSendQueue' = m_semSendQueue
            BY <1>0, <2>4 DEF Looking, SemTimedOut, SemInterrupted
        <3> QED
            BY <1>0, <1>p, <1>c, <1>d, <2>1, <3>1
    <2>5. CASE SeesEvent \/ WorkerLocks
        <3>1. /\ Looking = 1 /\ Looking' = 1
              /\ m_sendList' = m_sendList /\ m_semSendQueue' = m_semSendQueue
            BY <1>0, <2>5 DEF Looking, SeesEvent, WorkerLocks
        <3> QED
            BY <1>c, <1>d, <2>1, <3>1
    <2>6. CASE SeesNothing
        <3>1. /\ Looking' = 0
              /\ m_sendList' = m_sendList /\ m_semSendQueue' = m_semSendQueue
            BY <1>0, <2>6 DEF Looking, SeesNothing
        <3>2. Len(m_sendList) = 0 \/ (Len(m_sendList) = 1 /\ Posting # {})
            BY <1>0, <2>6 DEF SeesNothing, ObservedSizes, Posting
        <3>3. Len(m_sendList) <= Unposted
            BY <1>p, <3>2
        <3> QED
            BY <1>0, <1>p, <1>d, <2>1, <3>1, <3>3
    <2>7. CASE PopFront
        <3>1. /\ Looking = 1 /\ Looking' = 0
              /\ m_semSendQueue' = m_semSendQueue
            BY <1>0, <2>7 DEF Looking, PopFront
        <3>2. Len(m_sendList') = Len(m_sendList) - 1
            BY <1>0, <2>7, HeadTailProperties DEF PopFront
        <3> QED
            BY <1>0, <1>p, <1>c, <1>d, <2>1, <3>1, <3>2
    <2> QED
        BY <1>3, <2>2, <2>3, <2>4, <2>5, <2>6, <2>7 DEF WorkerNext
<1>4. CASE CloserNext
    <2>1. /\ Posting' = Posting /\ Looking' = Looking
          /\ m_sendList' = m_sendList /\ m_semSendQueue' = m_semSendQueue
        BY <1>0, <1>4
           DEF Posting, Looking, CloserNext, CloseAlreadyQuit, CloseSetsQuit, PthreadJoin
    <2> QED
        BY <1>1, <1>c, <1>d, <2>1
<1>5. ASSUME NEW w \in Writers, WriterNext(w)
      PROVE  WakeupsCoverQueue'
    <2>1. Looking' = Looking
        BY <1>0, <1>5
           DEF Looking, WriterNext, VSCPWrite, WriterLocks, PushBack, SemPost, WriterUnlocks
    <2>2. ASSUME NEW e \in Events, VSCPWrite(w, e) \/ WriterLocks(w) \/ WriterUnlocks(w)
          PROVE  WakeupsCoverQueue'
        <3>1. /\ Posting' = Posting
              /\ m_sendList' = m_sendList /\ m_semSendQueue' = m_semSendQueue
            BY <1>0, <2>2 DEF Posting, VSCPWrite, WriterLocks, WriterUnlocks
        <3> QED
            BY <1>1, <1>c, <1>d, <2>1, <3>1
    <2>3. CASE WriterLocks(w) \/ WriterUnlocks(w)
        <3>1. /\ Posting' = Posting
              /\ m_sendList' = m_sendList /\ m_semSendQueue' = m_semSendQueue
            BY <1>0, <2>3 DEF Posting, WriterLocks, WriterUnlocks
        <3> QED
            BY <1>1, <1>c, <1>d, <2>1, <3>1
    <2>4. CASE PushBack(w)
        <3>1. Posting' = Posting \cup {w} /\ w \notin Posting
            BY <1>0, <2>4 DEF Posting, PushBack
        <3>2. Unposted' = Unposted + 1
            BY <1>p, <3>1, PostingChange
        <3> DEFINE new == hand[w]
        <3>3. /\ Len(new) = 1 /\ new \in Seq(Events)
              /\ m_sendList' = m_sendList \o new /\ m_semSendQueue' = m_semSendQueue
            BY <2>4, Typing DEF PushBack, SendIInv, HandsOK
        <3> HIDE DEF new
        <3>4. Len(m_sendList \o new) = Len(m_sendList) + Len(new)
            BY <1>0, <3>3, ConcatProperties
        <3>5. Len(m_sendList') = Len(m_sendList) + 1 /\ m_semSendQueue' = m_semSendQueue
            BY <3>3, <3>4
        <3> QED
            BY <1>0, <1>p, <1>c, <1>d, <2>1, <3>2, <3>5 DEF Looking
    <2>5. CASE SemPost(w)
        <3>1. Posting' = Posting \ {w} /\ w \in Posting
            BY <1>0, <2>5 DEF Posting, SemPost
        <3>2. Unposted' = Unposted - 1
            BY <1>p, <3>1, PostingChange
        <3>3. m_sendList' = m_sendList /\ m_semSendQueue' = m_semSendQueue + 1
            BY <2>5 DEF SemPost
        <3> QED
            BY <1>0, <1>p, <1>c, <1>d, <2>1, <3>2, <3>3 DEF Looking
    <2> QED
        BY <1>5, <2>2, <2>3, <2>4, <2>5 DEF WriterNext
<1> QED
    BY <1>2, <1>3, <1>4, <1>5 DEF Next

-----------------------------------------------------------------------------
\* The conjunction is inductive.
THEOREM SendInvariance == Spec => []SendIInv
<1>1. SendIInv /\ [Next]_vars => SendIInv'
    BY SendTypeStep, SendMutexStep, SendFrontStep, SendWakeupStep, SendOrderStep
       DEF SendIInv
<1> QED
    BY <1>1, SendInit, PTL DEF Spec

\* Types, for every value of the constants.
THEOREM SendTypeCorrect == Spec => []TypeOK
<1>1. SendIInv => TypeOK
    BY DEF SendIInv
<1> QED
    BY <1>1, SendInvariance, PTL

\* The send list changes only under its mutex.
THEOREM SendMutualExclusion == Spec => []MutexProtectsList
<1>1. SendIInv => MutexProtectsList
    BY DEF SendIInv
<1> QED
    BY <1>1, SendInvariance, PTL

\* The worker's front() finds an event in spite of its unlocked size().
THEOREM WorkerFindsEvent == Spec => []FrontNeverEmpty
<1>1. SendIInv => FrontNeverEmpty
    BY DEF SendIInv
<1> QED
    BY <1>1, SendInvariance, PTL

\* No queued event is without a wake-up.
THEOREM WakeupsSuffice == Spec => []WakeupsCoverQueue
<1>1. SendIInv => WakeupsCoverQueue
    BY DEF SendIInv
<1> QED
    BY <1>1, SendInvariance, PTL

\* No written event is lost, duplicated or overtaken.
THEOREM SendConserves == Spec => []ConservedInOrder
<1>1. SendIInv => ConservedInOrder
    BY DEF SendIInv
<1> QED
    BY <1>1, SendInvariance, PTL

-----------------------------------------------------------------------------
(* close(), until a signal interrupts a wait of the worker.                 *)

\* Without a signal, m_bQuit is set by close() only, and close() passes the
\* join only when the worker has ended; the worker never comes back.
CloseIInv ==
    /\ pc \in [Threads -> WriterStep \cup WorkerStep \cup CloserStep]
    /\ pc[Closer] = "idle" /\ m_bQuit => interrupted
    /\ CloseWithoutSignal

\* close() returns only after the worker has ended, or a signal came before.
THEOREM CloseTerminates == Spec => []CloseWithoutSignal
<1>0. /\ Worker \in Threads /\ Closer \in Threads /\ Closer # Worker
      /\ \A w \in Writers : w \in Threads /\ w # Worker /\ w # Closer
    BY SendQueueAssumption DEF SendQueueAssumption, Threads
<1> USE DEF CloseIInv, CloseWithoutSignal, CloseMeansTerminated, Goto, history,
            WriterStep, WorkerStep, CloserStep
<1>1. Init => CloseIInv
    BY <1>0 DEF Init
<1>2. CloseIInv /\ [Next]_vars => CloseIInv'
    <2> SUFFICES ASSUME CloseIInv, [Next]_vars
                 PROVE  CloseIInv'
        OBVIOUS
    <2>1. CASE UNCHANGED vars
        BY <2>1 DEF vars
    <2>2. CASE WorkerNext
        BY <1>0, <2>2
           DEF WorkerNext, DoWork, LeaveLoop, SemWait, SemTimedOut,
               SemInterrupted, SeesEvent, SeesNothing, WorkerLocks, PopFront,
               WorkerUnlocks, ContinueOnNull, HandleAndDelete, Finish
    <2>3. CASE CloserNext
        BY <1>0, <2>3 DEF CloserNext, CloseAlreadyQuit, CloseSetsQuit, PthreadJoin
    <2>4. ASSUME NEW w \in Writers, WriterNext(w)
          PROVE  CloseIInv'
        BY <1>0, <2>4
           DEF WriterNext, VSCPWrite, WriterLocks, PushBack, SemPost, WriterUnlocks
    <2> QED
        BY <2>1, <2>2, <2>3, <2>4 DEF Next
<1>3. CloseIInv => CloseWithoutSignal
    OBVIOUS
<1> QED
    BY <1>1, <1>2, <1>3, PTL DEF Spec
=============================================================================
