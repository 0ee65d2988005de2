--------------------------- MODULE CompletionProofs ---------------------------
(* The entries of the wait queues are those of the threads that wait, once   *)
(* each; a completion that nobody took has woken enough threads; and, while  *)
(* the counter does not wrap, completions implement CountingEvent.           *)
(*                                                                           *)
(* What carries the proof is EnoughAwake, which counts the threads instead   *)
(* of the entries: either no thread that waits sleeps, or there are at least *)
(* as many awake as there are completions to take.                           *)
EXTENDS Completion, DataProofs

Waits == [in : {"completion", "queue"}, call : Calls, asleep : BOOLEAN, expired : BOOLEAN]

On(w)   == {t \in Thread : thread[t].in = w}
Awake   == {t \in On("completion") : ~thread[t].asleep}

TypeOK ==
    /\ done \in 0 .. UMax
    /\ thread \in [Thread -> {Out} \union Waits]
    /\ calls \in [one : 0 .. Ones, all : 0 .. Alls]

EntriesOnce == Lists(list, On("completion")) /\ Lists(queue, On("queue"))

EnoughAwake == Awake = On("completion") \/ done <= Cardinality(Awake)

IInv == TypeOK /\ EntriesOnce /\ EnoughAwake

-----------------------------------------------------------------------------
(* __wake_up_common *)

\* The counter is an unsigned int.
LEMMA Wrapped ==
    ASSUME NEW n \in Nat
    PROVE  /\ n % (UMax + 1) \in 0 .. UMax
           /\ n % (UMax + 1) <= n
           /\ n <= UMax => n % (UMax + 1) = n
BY CompletionAssumption

\* It wakes threads of the queue that sleep; one of them, where there is one,
\* when it is to wake one, and all of them otherwise.
LEMMA WakesEnough ==
    ASSUME TypeOK, NEW q, NEW S \in SUBSET Thread, Lists(q, S), NEW mode, NEW exclusive, NEW nr \in {0, 1}
    PROVE  /\ \A t \in __wake_up_common(q, mode, exclusive, nr) : t \in S /\ Wakeable(t, mode)
           /\ (\E t \in S : Wakeable(t, mode)) => __wake_up_common(q, mode, exclusive, nr) # {}
           /\ nr = 0 => \A t \in S : Wakeable(t, mode) => t \in __wake_up_common(q, mode, exclusive, nr)
<1> DEFINE ts == __wake_up_common(q, mode, exclusive, nr)
           ws == {t \in S : Wakeable(t, mode)}
           w  == {i \in DOMAIN q : Wakeable(q[i], mode)}
           m  == {j \in w : exclusive /\ nr # 0 => Cardinality({k \in w : k < j}) < nr}
<1>1. ts = {q[i] : i \in m}
  BY DEF __wake_up_common
<1>2. /\ DOMAIN q = 1 .. Len(q) /\ Len(q) \in Nat
      /\ \A k \in 1 .. Len(q) : q[k] \in S
      /\ \A t \in S : \E k \in 1 .. Len(q) : q[k] = t
  BY LenProperties, ElementOfSeq DEF Lists
<1> HIDE DEF ts
<1>3. ts \subseteq ws
  BY <1>1, <1>2
<1>4. ASSUME ws # {} PROVE ts # {}
  <2>1. w # {} /\ w \subseteq Nat
    BY <1>2, <1>4
  <2> HIDE DEF w
  <2>2. PICK i \in w : \A j \in w : i <= j
    BY <2>1, LeastNat
  <2>3. {k \in w : k < i} = {}
    <3>1. \A k \in w : i <= k /\ i \in Nat /\ k \in Nat
      BY <2>1, <2>2
    <3>2. \A k \in w : ~(k < i)
      BY <3>1
    <3> QED BY <3>2
  <2>4. Cardinality({k \in w : k < i}) = 0
    BY <2>3, FS_EmptySet
  <2>5. i \in m
    BY <2>2, <2>4
  <2> QED BY <1>1, <2>5
<1>5. ASSUME nr = 0 PROVE ts = ws
  <2>1. m = w
    BY <1>5
  <2> HIDE DEF m
  <2>2. \A t \in ws : \E k \in w : q[k] = t
    BY <1>2
  <2>3. ws \subseteq ts
    BY <1>1, <2>1, <2>2
  <2> QED BY <1>3, <2>3
<1> QED BY <1>3, <1>4, <1>5 DEF ts

\* ... and it moves no thread.
LEMMA WokenMovesNobody ==
    ASSUME TypeOK, NEW ts \in SUBSET Thread, thread' = Woken(ts)
    PROVE  /\ thread' \in [Thread -> {Out} \union Waits]
           /\ \A t \in Thread : /\ thread'[t].in = thread[t].in
                                /\ thread[t].in # "out" =>
                                      (thread'[t].asleep <=> thread[t].asleep /\ t \notin ts)
<1>1. ASSUME NEW t \in Thread
      PROVE  /\ thread'[t] \in {Out} \union Waits
             /\ thread'[t].in = thread[t].in
             /\ thread[t].in # "out" => (thread'[t].asleep <=> thread[t].asleep /\ t \notin ts)
  <2>1. thread[t] \in {Out} \union Waits
    BY DEF TypeOK
  <2>2. thread'[t] = IF t \in ts THEN [thread[t] EXCEPT !.asleep = FALSE] ELSE thread[t]
    BY DEF Woken
  <2>3. CASE thread[t] = Out
    BY <2>1, <2>2, <2>3 DEF Out
  <2>4. CASE thread[t] \in Waits
    <3>1. [thread[t] EXCEPT !.asleep = FALSE] \in Waits
      BY <2>4 DEF Waits
    <3>2. /\ [thread[t] EXCEPT !.asleep = FALSE].in = thread[t].in
          /\ [thread[t] EXCEPT !.asleep = FALSE].asleep = FALSE
      BY <2>4 DEF Waits
    <3>3. CASE t \in ts
      BY <2>2, <3>1, <3>2, <3>3
    <3>4. CASE t \notin ts
      BY <2>2, <2>4, <3>4
    <3> QED BY <3>3, <3>4
  <2> QED BY <2>1, <2>3, <2>4
<1>2. thread' = [t \in Thread |-> thread'[t]]
  BY DEF Woken
<1> QED BY <1>1, <1>2

-----------------------------------------------------------------------------
(* The invariant. *)

\* What a thread that waits is.
LEMMA WaitingIs ==
    ASSUME TypeOK, NEW t \in Thread
    PROVE  /\ thread[t] = Out <=> thread[t].in = "out"
           /\ thread[t] # Out => thread[t] \in Waits
           /\ \A w \in {"completion", "queue"} : t \in On(w) => thread[t] \in Waits
<1>1. thread[t] \in {Out} \union Waits
  BY DEF TypeOK
<1>2. CASE thread[t] = Out
  BY <1>2 DEF Out, On
<1>3. CASE thread[t] \in Waits
  BY <1>3 DEF Out, On, Waits
<1> QED BY <1>1, <1>2, <1>3

\* The threads that wait are as many as the list is long.
LEMMA WaitingCount ==
    ASSUME EntriesOnce, NEW P, P \subseteq On("completion")
    PROVE  IsFiniteSet(P) /\ Cardinality(P) \in Nat
BY ListsCount, FS_CardinalityType DEF EntriesOnce

\* What holds when threads wake and none starts or stops to wait.
LEMMA WakingOK ==
    ASSUME IInv, TypeOK',
           \A t \in Thread : /\ thread'[t].in = thread[t].in
                             /\ thread[t].in # "out" /\ ~thread[t].asleep => ~thread'[t].asleep,
           UNCHANGED <<list, queue>>
    PROVE  /\ On("completion")' = On("completion") /\ EntriesOnce'
           /\ Awake \subseteq Awake' /\ Awake' \subseteq On("completion")
           /\ IsFiniteSet(Awake') /\ Cardinality(Awake) <= Cardinality(Awake')
           /\ Cardinality(Awake) \in Nat /\ Cardinality(Awake') \in Nat
<1>1. On("completion")' = On("completion") /\ On("queue")' = On("queue")
  BY DEF On
<1>2. EntriesOnce'
  BY <1>1 DEF IInv, EntriesOnce
<1>3. Awake \subseteq Awake' /\ Awake' \subseteq On("completion")
  BY <1>1 DEF Awake, On
<1>4. IsFiniteSet(Awake') /\ Cardinality(Awake') \in Nat /\ Cardinality(Awake) \in Nat
  BY <1>3, WaitingCount DEF IInv
<1>5. Cardinality(Awake) <= Cardinality(Awake')
  BY <1>3, <1>4, FS_Subset
<1> QED BY <1>1, <1>2, <1>3, <1>4, <1>5

\* complete wakes one more thread, where there is one that sleeps.
LEMMA CompleteOK ==
    ASSUME IInv, complete
    PROVE  IInv'
<1> DEFINE ts == __wake_up_common(list, TASK_NORMAL, TRUE, 1)
<1>1. /\ \A t \in ts : t \in On("completion") /\ Wakeable(t, TASK_NORMAL)
      /\ (\E t \in On("completion") : Wakeable(t, TASK_NORMAL)) => ts # {}
  <2>1. Lists(list, On("completion")) /\ On("completion") \in SUBSET Thread
    BY DEF IInv, EntriesOnce, On
  <2>2. TypeOK
    BY DEF IInv
  <2> QED BY <2>1, <2>2, WakesEnough
<1>2. ts \in SUBSET Thread /\ thread' = Woken(ts)
  BY <1>1 DEF complete, On
<1> HIDE DEF ts
<1>3. /\ thread' \in [Thread -> {Out} \union Waits]
      /\ \A t \in Thread : /\ thread'[t].in = thread[t].in
                           /\ thread[t].in # "out" =>
                                 (thread'[t].asleep <=> thread[t].asleep /\ t \notin ts)
  BY <1>2, WokenMovesNobody DEF IInv
<1>4. done \in 0 .. UMax /\ done' = (done + 1) % (UMax + 1) /\ done + 1 \in Nat
  BY DEF IInv, TypeOK, complete
<1>5. done' \in 0 .. UMax /\ done' <= done + 1
  BY <1>4, Wrapped
<1>6. TypeOK'
  <2>1. calls' \in [one : 0 .. Ones, all : 0 .. Alls]
    BY CompletionAssumption DEF IInv, TypeOK, complete
  <2> QED BY <1>3, <1>5, <2>1 DEF TypeOK
<1>7. UNCHANGED <<list, queue>>
  BY DEF complete
<1>8. /\ On("completion")' = On("completion") /\ EntriesOnce'
      /\ Awake \subseteq Awake' /\ Awake' \subseteq On("completion")
      /\ IsFiniteSet(Awake') /\ Cardinality(Awake) <= Cardinality(Awake')
      /\ Cardinality(Awake) \in Nat /\ Cardinality(Awake') \in Nat
  BY <1>3, <1>6, <1>7, WakingOK
<1>9. EnoughAwake'
  <2>1. CASE Awake = On("completion")
    BY <1>8, <2>1 DEF EnoughAwake
  <2>2. CASE Awake # On("completion")
    <3>1. PICK t \in On("completion") : thread[t].asleep
      BY <2>2 DEF Awake, On
    <3>2. Wakeable(t, TASK_NORMAL)
      <4>1. thread[t] \in Waits
        BY <3>1, WaitingIs DEF IInv, On
      <4>2. thread[t].call.mode \in TASK_NORMAL /\ thread[t].in # "out"
        BY <4>1, CallAssumption DEF Waits, TASK_NORMAL
      <4> QED BY <3>1, <4>2 DEF Wakeable, Asleep
    <3>3. PICK u \in ts : u \in On("completion") /\ thread[u].asleep
      BY <1>1, <3>1, <3>2 DEF Wakeable, Asleep
    <3>4. u \in Awake' /\ u \notin Awake
      BY <1>3, <1>8, <3>3 DEF Awake, On
    <3>5. Cardinality(Awake) # Cardinality(Awake')
      BY <1>8, <3>4, FS_Subset
    <3>6. done <= Cardinality(Awake)
      BY <2>2 DEF IInv, EnoughAwake
    <3>7. done' <= Cardinality(Awake')
      BY <1>4, <1>5, <1>8, <3>5, <3>6
    <3> QED BY <3>7 DEF EnoughAwake
  <2> QED BY <2>1, <2>2
<1> QED BY <1>6, <1>8, <1>9 DEF IInv

\* complete_all leaves none of them asleep.
LEMMA CompleteAllOK ==
    ASSUME IInv, complete_all
    PROVE  IInv'
<1> DEFINE ts == __wake_up_common(list, TASK_NORMAL, TRUE, 0)
<1>1. /\ \A t \in ts : t \in On("completion")
      /\ \A t \in On("completion") : Wakeable(t, TASK_NORMAL) => t \in ts
  <2>1. Lists(list, On("completion")) /\ On("completion") \in SUBSET Thread
    BY DEF IInv, EntriesOnce, On
  <2>2. TypeOK
    BY DEF IInv
  <2> QED BY <2>1, <2>2, WakesEnough
<1>2. ts \in SUBSET Thread /\ thread' = Woken(ts)
  BY <1>1 DEF complete_all, On
<1> HIDE DEF ts
<1>3. /\ thread' \in [Thread -> {Out} \union Waits]
      /\ \A t \in Thread : /\ thread'[t].in = thread[t].in
                           /\ thread[t].in # "out" =>
                                 (thread'[t].asleep <=> thread[t].asleep /\ t \notin ts)
  BY <1>2, WokenMovesNobody DEF IInv
<1>4. done' \in 0 .. UMax
  <2>1. done + UMax \div 2 \in Nat /\ done' = (done + UMax \div 2) % (UMax + 1)
    BY CompletionAssumption DEF IInv, TypeOK, complete_all
  <2> QED BY <2>1, Wrapped
<1>5. TypeOK'
  <2>1. calls' \in [one : 0 .. Ones, all : 0 .. Alls]
    BY CompletionAssumption DEF IInv, TypeOK, complete_all
  <2> QED BY <1>3, <1>4, <2>1 DEF TypeOK
<1>6. UNCHANGED <<list, queue>>
  BY DEF complete_all
<1>7. On("completion")' = On("completion") /\ EntriesOnce'
  BY <1>3, <1>5, <1>6, WakingOK
<1>8. ASSUME NEW t \in On("completion") PROVE ~thread'[t].asleep
  <2>1. t \in Thread /\ thread[t] \in Waits /\ thread[t].in = "completion"
    BY WaitingIs DEF IInv, On
  <2>2. thread[t].call.mode \in TASK_NORMAL
    BY <2>1, CallAssumption DEF Waits, TASK_NORMAL
  <2> QED BY <1>1, <1>3, <2>1, <2>2 DEF Wakeable, Asleep
<1>9. EnoughAwake'
  BY <1>7, <1>8 DEF EnoughAwake, Awake
<1> QED BY <1>5, <1>7, <1>9 DEF IInv

\* A thread that comes takes a completion, or is put on the list while there
\* is none to take.
LEMMA WaitOK ==
    ASSUME IInv, NEW t \in Thread, NEW call \in Calls, Wait(t, call)
    PROVE  IInv'
<1>1. CASE done # 0 /\ done' = done - 1 /\ UNCHANGED <<list, thread>>
  <2>1. TypeOK' /\ EntriesOnce'
    <3>1. done' \in 0 .. UMax
      BY CompletionAssumption, <1>1 DEF IInv, TypeOK
    <3>2. UNCHANGED <<list, queue, thread, calls>>
      BY <1>1 DEF Wait
    <3> QED BY <3>1, <3>2 DEF IInv, TypeOK, EntriesOnce, On
  <2>2. Awake' = Awake /\ On("completion")' = On("completion")
    BY <1>1 DEF Awake, On
  <2>3. Cardinality(Awake) \in Nat
    BY WaitingCount DEF IInv, Awake
  <2>4. EnoughAwake'
    BY <1>1, <2>2, <2>3 DEF IInv, TypeOK, EnoughAwake
  <2> QED BY <2>1, <2>4 DEF IInv
<1>2. CASE /\ done = 0 /\ done' = done
           /\ list' = list_insert(list, t, FALSE)
           /\ thread' = [thread EXCEPT ![t] = In("completion", call)]
  <2>1. thread[t] = Out /\ UNCHANGED <<queue, calls>>
    BY DEF Wait
  <2>2. In("completion", call) \in Waits
    BY DEF In, Waits
  <2>3. TypeOK'
    BY <1>2, <2>1, <2>2 DEF IInv, TypeOK
  <2>4. /\ On("completion")' = On("completion") \union {t}
        /\ On("queue")' = On("queue") /\ t \notin On("completion")
    BY <1>2, <2>1 DEF IInv, TypeOK, On, In, Out
  <2>5. EntriesOnce'
    <3>1. Lists(list_insert(list, t, FALSE), On("completion") \union {t})
      BY <2>4, InsertLists, Zenon DEF IInv, EntriesOnce
    <3> QED BY <1>2, <2>1, <2>4, <3>1 DEF IInv, EntriesOnce
  <2>6. Cardinality(Awake') \in Nat
    BY <2>5, ListsCount, FS_CardinalityType DEF EntriesOnce, Awake
  <2> QED BY <1>2, <2>3, <2>5, <2>6 DEF IInv, EnoughAwake
<1> QED BY <1>1, <1>2 DEF Wait

\* A thread that stays finds nothing to take; one that goes was awake, and
\* takes what there is.
LEMMA ResumeOK ==
    ASSUME IInv, NEW t \in Thread, Resume(t)
    PROVE  IInv'
<1>1. /\ t \in On("completion") /\ t \in Awake /\ thread[t] \in Waits
      /\ UNCHANGED <<queue, calls>>
  BY WaitingIs DEF IInv, Resume, On, Awake
<1>2. CASE done = 0 /\ thread' = [thread EXCEPT ![t].asleep = TRUE] /\ UNCHANGED <<list, done>>
  <2>1. TypeOK'
    BY <1>1, <1>2 DEF IInv, TypeOK, Waits
  <2>2. \A w \in {"completion", "queue"} : On(w)' = On(w)
    BY <1>1, <1>2 DEF IInv, TypeOK, On
  <2>3. EntriesOnce'
    BY <1>1, <1>2, <2>2 DEF IInv, EntriesOnce
  <2>4. Cardinality(Awake') \in Nat
    BY <2>3, ListsCount, FS_CardinalityType DEF EntriesOnce, Awake
  <2> QED BY <1>2, <2>1, <2>3, <2>4 DEF IInv, EnoughAwake
<1>3. CASE /\ list' = list_del_init(list, t)
           /\ thread' = [thread EXCEPT ![t] = Out]
           /\ done' = IF done = 0 THEN 0 ELSE done - 1
  <2>1. TypeOK'
    <3>1. done' \in 0 .. UMax
      BY CompletionAssumption, <1>3 DEF IInv, TypeOK
    <3>2. thread' \in [Thread -> {Out} \union Waits]
      BY <1>3 DEF IInv, TypeOK
    <3> QED BY <1>1, <3>1, <3>2 DEF IInv, TypeOK
  <2>2. /\ On("completion")' = On("completion") \ {t} /\ On("queue")' = On("queue")
        /\ Awake' = Awake \ {t}
    BY <1>1, <1>3 DEF IInv, TypeOK, On, Out, Awake
  <2>3. EntriesOnce'
    BY <1>1, <1>3, <2>2, DeleteLists DEF IInv, EntriesOnce
  <2>4. IsFiniteSet(Awake) /\ Cardinality(Awake) \in Nat
    BY WaitingCount DEF IInv, Awake
  <2>5. Cardinality(Awake') = Cardinality(Awake) - 1 /\ Cardinality(Awake') \in Nat
    BY <1>1, <2>2, <2>4, FS_RemoveElement, FS_CardinalityType
  <2>6. EnoughAwake'
    <3>1. CASE Awake = On("completion")
      BY <2>2, <3>1 DEF EnoughAwake
    <3>2. CASE done <= Cardinality(Awake)
      BY <1>3, <2>4, <2>5, <3>2 DEF IInv, TypeOK, EnoughAwake
    <3> QED BY <3>1, <3>2 DEF IInv, EnoughAwake
  <2> QED BY <2>1, <2>3, <2>6 DEF IInv
<1> QED BY <1>2, <1>3 DEF Resume

\* try_wait_for_completion takes from the counter only.
LEMMA TryOK ==
    ASSUME IInv, NEW t \in Thread, try_wait_for_completion(t)
    PROVE  IInv'
<1>1. TypeOK' /\ EntriesOnce'
  <2>1. done' \in 0 .. UMax
    BY CompletionAssumption DEF IInv, TypeOK, try_wait_for_completion
  <2>2. UNCHANGED <<list, queue, thread, calls>>
    BY DEF try_wait_for_completion
  <2> QED BY <2>1, <2>2 DEF IInv, TypeOK, EntriesOnce, On
<1>2. Awake' = Awake /\ On("completion")' = On("completion")
  BY DEF Awake, On, try_wait_for_completion
<1>3. Cardinality(Awake) \in Nat
  BY WaitingCount DEF IInv, Awake
<1>4. EnoughAwake'
  BY <1>2, <1>3 DEF IInv, TypeOK, EnoughAwake, try_wait_for_completion
<1> QED BY <1>1, <1>4 DEF IInv

\* sleep_on and its return concern the other queue.
LEMMA SleepOnOK ==
    ASSUME IInv, NEW t \in Thread, NEW call \in Calls, SleepOn(t, call)
    PROVE  IInv'
<1> DEFINE e == [In("queue", call) EXCEPT !.asleep = ~signal_pending_state(call.mode, t)]
<1>1. /\ thread[t] = Out /\ UNCHANGED <<done, list, calls>>
      /\ queue' = list_insert(queue, t, TRUE) /\ thread' = [thread EXCEPT ![t] = e]
  BY DEF SleepOn
<1>2. e \in Waits /\ e.in = "queue"
  BY DEF In, Waits, signal_pending_state
<1> HIDE DEF e
<1>3. TypeOK'
  BY <1>1, <1>2 DEF IInv, TypeOK
<1>4. /\ On("queue")' = On("queue") \union {t} /\ t \notin On("queue")
      /\ On("completion")' = On("completion") /\ Awake' = Awake
  BY <1>1, <1>2 DEF IInv, TypeOK, On, Out, Awake
<1>5. EntriesOnce'
  <2>1. Lists(list_insert(queue, t, TRUE), On("queue") \union {t})
    BY <1>4, InsertLists, Zenon DEF IInv, EntriesOnce
  <2> QED BY <1>1, <1>4, <2>1 DEF IInv, EntriesOnce
<1>6. EnoughAwake'
  BY <1>1, <1>4 DEF IInv, EnoughAwake
<1> QED BY <1>3, <1>5, <1>6 DEF IInv

\* ... the return as well.
LEMMA SleepOnReturnsOK ==
    ASSUME IInv, NEW t \in Thread, SleepOnReturns(t)
    PROVE  IInv'
<1>1. /\ thread[t].in = "queue" /\ UNCHANGED <<done, list, calls>>
      /\ queue' = list_del_init(queue, t) /\ thread' = [thread EXCEPT ![t] = Out]
  BY DEF SleepOnReturns
<1>2. TypeOK'
  BY <1>1 DEF IInv, TypeOK
<1>3. /\ On("queue")' = On("queue") \ {t} /\ t \in On("queue")
      /\ On("completion")' = On("completion") /\ Awake' = Awake
  BY <1>1 DEF IInv, TypeOK, On, Out, Awake
<1>4. EntriesOnce'
  BY <1>1, <1>3, DeleteLists DEF IInv, EntriesOnce
<1>5. EnoughAwake'
  BY <1>1, <1>3 DEF IInv, EnoughAwake
<1> QED BY <1>2, <1>4, <1>5 DEF IInv

\* What wakes threads and leaves the counter alone keeps the invariant.
LEMMA OnlyWakesOK ==
    ASSUME IInv, thread' \in [Thread -> {Out} \union Waits],
           \A t \in Thread : /\ thread'[t].in = thread[t].in
                             /\ thread[t].in # "out" /\ ~thread[t].asleep => ~thread'[t].asleep,
           UNCHANGED <<done, list, queue, calls>>
    PROVE  IInv'
<1>1. TypeOK'
  BY DEF IInv, TypeOK
<1>2. /\ On("completion")' = On("completion") /\ EntriesOnce'
      /\ Awake \subseteq Awake' /\ Awake' \subseteq On("completion")
      /\ Cardinality(Awake) <= Cardinality(Awake')
      /\ Cardinality(Awake) \in Nat /\ Cardinality(Awake') \in Nat
  BY <1>1, WakingOK
<1>3. EnoughAwake'
  <2>1. CASE Awake = On("completion")
    BY <1>2, <2>1 DEF EnoughAwake
  <2>2. CASE done <= Cardinality(Awake)
    BY <1>2, <2>2 DEF IInv, TypeOK, EnoughAwake
  <2> QED BY <2>1, <2>2 DEF IInv, EnoughAwake
<1> QED BY <1>1, <1>2, <1>3 DEF IInv

\* __wake_up, a signal and a timer do.
LEMMA WakersOK ==
    ASSUME IInv, \/ \E mode \in {TASK_NORMAL, {"interruptible"}} : __wake_up(mode)
                 \/ \E t \in Thread : Signal(t) \/ Handled(t) \/ Expire(t)
    PROVE  IInv'
<1>1. UNCHANGED <<done, list, queue, calls>>
  BY DEF __wake_up, Signal, Handled, Expire
<1>2. ASSUME NEW ts \in SUBSET Thread, thread' = Woken(ts)
      PROVE  IInv'
  BY <1>1, <1>2, WokenMovesNobody, OnlyWakesOK DEF IInv
<1>3. ASSUME UNCHANGED thread
      PROVE  IInv'
  BY <1>1, <1>3, OnlyWakesOK DEF IInv, TypeOK
<1>4. ASSUME NEW mode \in {TASK_NORMAL, {"interruptible"}}, __wake_up(mode)
      PROVE  IInv'
  <2>1. Lists(queue, On("queue")) /\ On("queue") \in SUBSET Thread /\ TypeOK
    BY DEF IInv, EntriesOnce, On
  <2>2. \A t \in __wake_up_common(queue, mode, FALSE, 1) : t \in On("queue")
    BY <2>1, WakesEnough
  <2> QED BY <1>2, <1>4, <2>1, <2>2 DEF __wake_up
<1>5. ASSUME NEW t \in Thread, Signal(t) PROVE IInv'
  BY <1>2, <1>3, <1>5 DEF Signal
<1>6. ASSUME NEW t \in Thread, Handled(t) PROVE IInv'
  BY <1>3, <1>6 DEF Handled
<1>7. ASSUME NEW t \in Thread, Expire(t) PROVE IInv'
  <2>1. /\ thread[t] \in Waits
        /\ thread' = [thread EXCEPT ![t].expired = TRUE, ![t].asleep = FALSE]
    BY <1>7, WaitingIs DEF IInv, Expire, Out
  <2> DEFINE e == [thread[t] EXCEPT !.expired = TRUE, !.asleep = FALSE]
  <2>2. thread' = [thread EXCEPT ![t] = e]
    BY <2>1 DEF IInv, TypeOK
  <2>3. e \in Waits /\ e.in = thread[t].in /\ ~e.asleep
    BY <2>1 DEF Waits
  <2> HIDE DEF e
  <2>4. thread \in [Thread -> {Out} \union Waits]
    BY DEF IInv, TypeOK
  <2>5. \A u \in Thread : thread'[u] = IF u = t THEN e ELSE thread[u]
    BY <2>2, <2>4
  <2>6. thread' \in [Thread -> {Out} \union Waits]
    BY <2>2, <2>3, <2>4
  <2>7. \A u \in Thread : /\ thread'[u].in = thread[u].in
                          /\ thread[u].in # "out" /\ ~thread[u].asleep => ~thread'[u].asleep
    BY <2>3, <2>5
  <2> QED BY <1>1, <2>6, <2>7, OnlyWakesOK
<1> QED BY <1>4, <1>5, <1>6, <1>7

\* The invariant holds at boot and every step keeps it.
LEMMA InvInductive ==
    /\ Init => IInv
    /\ IInv /\ [Next]_vars => IInv'
<1>1. ASSUME Init PROVE IInv
  <2>1. TypeOK /\ On("completion") = {} /\ On("queue") = {} /\ Awake = {}
    BY <1>1, CompletionAssumption DEF Init, TypeOK, On, Awake, Out
  <2>2. Lists(<<>>, {})
    BY DEF Lists
  <2> QED BY <1>1, <2>1, <2>2 DEF Init, IInv, EntriesOnce, EnoughAwake
<1>2. ASSUME IInv, [Next]_vars PROVE IInv'
  <2>1. CASE complete
    BY <1>2, <2>1, CompleteOK
  <2>2. CASE complete_all
    BY <1>2, <2>2, CompleteAllOK
  <2>3. ASSUME NEW t \in Thread, NEW call \in Calls, Wait(t, call) \/ SleepOn(t, call) PROVE IInv'
    BY <1>2, <2>3, WaitOK, SleepOnOK
  <2>4. ASSUME NEW t \in Thread, Resume(t) \/ SleepOnReturns(t) \/ try_wait_for_completion(t) PROVE IInv'
    BY <1>2, <2>4, ResumeOK, SleepOnReturnsOK, TryOK
  <2>5. CASE \/ \E mode \in {TASK_NORMAL, {"interruptible"}} : __wake_up(mode)
             \/ \E t \in Thread : Signal(t) \/ Handled(t) \/ Expire(t)
    BY <1>2, <2>5, WakersOK
  <2>6. CASE UNCHANGED vars
    BY <1>2, <2>6 DEF vars, IInv, TypeOK, EntriesOnce, EnoughAwake, Awake, On
  <2> QED BY <1>2, <2>1, <2>2, <2>3, <2>4, <2>5, <2>6 DEF Next
<1> QED BY <1>1, <1>2

\* It holds in every state.
LEMMA InvHolds == Spec => []IInv
BY InvInductive, PTL DEF Spec

\* EntriesLive: a thread has an entry on a queue exactly while it waits
\* there, and only one, however the wait of do_wait_for_common or sleep_on ends.
THEOREM EntriesAreLive == Spec => []EntriesLive
<1>1. ASSUME IInv PROVE EntriesLive
  <2>1. ASSUME NEW s, NEW w, Lists(s, On(w)), NEW t \in Thread
        PROVE  Cardinality({i \in DOMAIN s : s[i] = t}) = IF thread[t].in = w THEN 1 ELSE 0
    <3>1. DOMAIN s = 1 .. Len(s) /\ \A k \in 1 .. Len(s) : s[k] \in On(w)
      BY <2>1, LenProperties, ElementOfSeq DEF Lists
    <3>2. CASE thread[t].in = w
      <4>1. {t} \subseteq On(w)
        BY <3>2 DEF On
      <4>2. Cardinality({t}) = Cardinality(Entries(s, {t}))
        BY <2>1, <4>1, ListsCount
      <4>3. Entries(s, {t}) = {i \in DOMAIN s : s[i] = t}
        BY <3>1 DEF Entries
      <4>4. Cardinality({t}) = 1
        BY FS_Singleton
      <4> QED BY <3>2, <4>2, <4>3, <4>4
    <3>3. CASE thread[t].in # w
      <4>1. {i \in DOMAIN s : s[i] = t} = {}
        BY <3>1, <3>3 DEF On
      <4> QED BY <3>3, <4>1, FS_EmptySet
    <3> QED BY <3>2, <3>3
  <2>2. Lists(list, On("completion")) /\ Lists(queue, On("queue")) /\ done \in 0 .. UMax
    BY <1>1 DEF IInv, TypeOK, EntriesOnce
  <2> QED BY <2>1, <2>2 DEF EntriesLive
<1> QED BY <1>1, InvHolds, PTL

\* WokenForDone: complete and complete_all have woken a thread for every
\* completion that is left, or all that wait, whatever signals, timers and
\* try_wait_for_completion did in between.
THEOREM EnoughAreWoken == Spec => []WokenForDone
<1>1. ASSUME IInv PROVE WokenForDone
  <2> DEFINE awake == {i \in DOMAIN list : ~Asleep(list[i])}
  <2>1. /\ list \in Seq(On("completion")) /\ DOMAIN list = 1 .. Len(list) /\ Len(list) \in Nat
        /\ \A k \in 1 .. Len(list) : list[k] \in On("completion")
    BY <1>1, LenProperties, ElementOfSeq DEF IInv, EntriesOnce, Lists
  <2>2. \A k \in 1 .. Len(list) : ~Asleep(list[k]) <=> list[k] \in Awake
    BY <2>1 DEF Asleep, Awake, On
  <2>3. awake = Entries(list, Awake)
    BY <2>1, <2>2 DEF Entries
  <2>4. Cardinality(awake) = Cardinality(Awake) /\ Cardinality(awake) \in Nat
    <3>1. Awake \subseteq On("completion")
      BY DEF Awake
    <3>2. Lists(list, On("completion"))
      BY <1>1 DEF IInv, EntriesOnce
    <3>3. Cardinality(Awake) \in Nat
      BY <1>1, <3>1, WaitingCount DEF IInv
    <3>4. Cardinality(Awake) = Cardinality(Entries(list, Awake))
      BY <3>1, <3>2, ListsCount
    <3> QED BY <2>3, <3>3, <3>4
  <2>5. CASE Awake = On("completion")
    <3>1. awake = 1 .. Len(list)
      BY <2>1, <2>3, <2>5 DEF Entries
    <3>2. Cardinality(1 .. Len(list)) = Len(list)
      BY <2>1, FS_Interval
    <3> HIDE DEF awake
    <3>3. Cardinality(awake) >= IF done < Len(list) THEN done ELSE Len(list)
      BY <1>1, <2>1, <3>1, <3>2, CompletionAssumption DEF IInv, TypeOK
    <3> QED BY <3>3 DEF awake, WokenForDone
  <2>6. CASE done <= Cardinality(Awake)
    <3> HIDE DEF awake
    <3>1. Cardinality(awake) >= IF done < Len(list) THEN done ELSE Len(list)
      BY <1>1, <2>1, <2>4, <2>6, CompletionAssumption DEF IInv, TypeOK
    <3> QED BY <3>1 DEF awake, WokenForDone
  <2> QED BY <1>1, <2>5, <2>6 DEF IInv, EnoughAwake
<1> QED BY <1>1, InvHolds, PTL

-----------------------------------------------------------------------------
(* The refinement. *)

\* So few calls that the counter, an unsigned int, does not wrap.
NoWrap == Ones + Alls * (UMax \div 2) <= UMax

CountsCalls == done <= calls.one + calls.all * (UMax \div 2)

\* The counter never exceeds what the calls have added to it.
LEMMA AddsUp ==
    ASSUME IInv, CountsCalls, [Next]_vars, NoWrap
    PROVE  /\ CountsCalls'
           /\ complete => done' = done + 1
           /\ complete_all => done' = done + UMax \div 2
<1> DEFINE h == UMax \div 2
<1>1. h \in Nat /\ UMax \in Nat /\ Ones \in Nat /\ Alls \in Nat
  BY CompletionAssumption
<1>2. /\ done \in Nat /\ calls.one \in 0 .. Ones /\ calls.all \in 0 .. Alls
      /\ calls \in [one : 0 .. Ones, all : 0 .. Alls]
  BY CompletionAssumption DEF IInv, TypeOK
<1>3. done <= calls.one + calls.all * h
  BY DEF CountsCalls
<1>4. Ones + Alls * h <= UMax
  BY DEF NoWrap
<1> HIDE DEF h
<1>5. ASSUME NEW m \in Nat, NEW n \in Nat, m <= n
      PROVE  m * h \in Nat /\ m * h <= n * h
  <2>1. PICK d \in Nat : n = m + d
    BY <1>5
  <2>2. m * h \in Nat /\ d * h \in Nat /\ n * h = m * h + d * h
    BY <1>1, <2>1
  <2> QED BY <2>2
<1>6. CASE complete
  <2>1. /\ calls'.one = calls.one + 1 /\ calls'.all = calls.all /\ calls.one < Ones
        /\ done' = (done + 1) % (UMax + 1)
    BY <1>2, <1>6 DEF complete
  <2>2. calls.all * h \in Nat /\ calls.all * h <= Alls * h
    BY <1>1, <1>2, <1>5
  <2>3. done + 1 \in Nat /\ done + 1 <= UMax
    <3>1. Alls * h \in Nat
      BY <1>1
    <3> HIDE DEF h
    <3> QED BY <1>1, <1>2, <1>3, <1>4, <2>1, <2>2, <3>1
  <2>4. done' = done + 1
    BY <2>1, <2>3, Wrapped
  <2>5. done' <= calls'.one + calls'.all * h
    BY <1>1, <1>2, <1>3, <2>1, <2>2, <2>4
  <2>6. ~complete_all
    <3>1. ASSUME complete_all PROVE calls'.all = calls.all + 1
      BY <1>2, <3>1 DEF complete_all
    <3> QED BY <1>1, <1>2, <2>1, <3>1
  <2> QED BY <2>4, <2>5, <2>6 DEF CountsCalls, h
<1>7. CASE complete_all
  <2>1. /\ calls'.one = calls.one /\ calls'.all = calls.all + 1 /\ calls.all < Alls
        /\ done' = (done + h) % (UMax + 1)
    BY <1>2, <1>7 DEF complete_all, h
  <2>2. /\ calls.all * h \in Nat /\ (calls.all + 1) * h = calls.all * h + h
        /\ (calls.all + 1) * h <= Alls * h
    BY <1>1, <1>2, <1>5, <2>1
  <2>3. done + h \in Nat /\ done + h <= UMax
    <3>1. Alls * h \in Nat
      BY <1>1
    <3> QED BY <1>1, <1>2, <1>3, <1>4, <2>1, <2>2, <3>1
  <2>4. done' = done + h
    BY <2>1, <2>3, Wrapped
  <2>5. done' <= calls'.one + calls'.all * h
    BY <1>1, <1>2, <1>3, <2>1, <2>2, <2>4
  <2>6. ~complete
    <3>1. ASSUME complete PROVE calls'.one = calls.one + 1
      BY <1>2, <3>1 DEF complete
    <3> QED BY <1>1, <1>2, <2>1, <3>1
  <2> QED BY <2>4, <2>5, <2>6 DEF CountsCalls, h
<1>8. CASE ~complete /\ ~complete_all
  <2>1. calls' = calls /\ done' \in Nat /\ done' <= done
    <3>1. ASSUME NEW t \in Thread, NEW call \in Calls, Wait(t, call) \/ SleepOn(t, call)
          PROVE  calls' = calls /\ done' \in Nat /\ done' <= done
      <4>1. calls' = calls /\ (done' = done \/ (done # 0 /\ done' = done - 1))
        BY <3>1 DEF Wait, SleepOn
      <4> QED BY <1>2, <4>1
    <3>2. ASSUME NEW t \in Thread, Resume(t) \/ SleepOnReturns(t) \/ try_wait_for_completion(t)
          PROVE  calls' = calls /\ done' \in Nat /\ done' <= done
      BY <1>2, <3>2 DEF Resume, SleepOnReturns, try_wait_for_completion
    <3>3. ASSUME NEW t \in Thread, Signal(t) \/ Handled(t) \/ Expire(t)
          PROVE  calls' = calls /\ done' \in Nat /\ done' <= done
      BY <1>2, <3>3 DEF Signal, Handled, Expire
    <3>4. ASSUME NEW mode, __wake_up(mode)
          PROVE  calls' = calls /\ done' \in Nat /\ done' <= done
      BY <1>2, <3>4 DEF __wake_up
    <3>5. CASE UNCHANGED vars
      BY <1>2, <3>5 DEF vars
    <3> QED BY <1>8, <3>1, <3>2, <3>3, <3>4, <3>5 DEF Next
  <2>2. calls.all * h \in Nat
    BY <1>1, <1>2
  <2>3. done' <= calls'.one + calls'.all * h
    BY <1>2, <1>3, <2>1, <2>2
  <2> QED BY <1>8, <2>3 DEF CountsCalls, h
<1> QED BY <1>6, <1>7, <1>8

\* Every step of the completions is one of CountingEvent, or none.
LEMMA EventSteps ==
    ASSUME IInv, CountsCalls, [Next]_vars, NoWrap
    PROVE  [Event!Next]_(Event!vars)
<1> DEFINE W == {t \in Thread : thread[t].in = "completion"}
<1>1. done \in Nat /\ UMax \in Nat
  BY CompletionAssumption DEF IInv, TypeOK
<1>2. ASSUME done' = done, W' = W PROVE UNCHANGED Event!vars
  BY <1>2 DEF Event!vars
<1>3. ASSUME NEW t \in Thread, NEW call \in Calls, Wait(t, call)
      PROVE  Event!Next
  <2>1. CASE done # 0 /\ done' = done - 1 /\ UNCHANGED thread
    <3>1. Event!Take
      BY <1>1, <2>1 DEF Event!Take
    <3> QED BY <3>1 DEF Event!Next
  <2>2. CASE done = 0 /\ done' = done /\ thread' = [thread EXCEPT ![t] = In("completion", call)]
    <3>1. thread[t] = Out
      BY <1>3 DEF Wait
    <3>2. t \notin W /\ W' = W \union {t}
      BY <2>2, <3>1 DEF IInv, TypeOK, In, Out
    <3>3. Event!Come(t)
      BY <2>2, <3>2 DEF Event!Come
    <3> QED BY <3>3 DEF Event!Next
  <2> QED BY <1>3, <2>1, <2>2 DEF Wait
<1>4. ASSUME NEW t \in Thread, Resume(t)
      PROVE  [Event!Next]_(Event!vars)
  <2>1. thread[t].in = "completion" /\ t \in W /\ thread[t] \in Waits
    BY <1>4, WaitingIs DEF Resume, IInv, Out
  <2>2. CASE thread' = [thread EXCEPT ![t].asleep = TRUE] /\ done' = done
    <3>1. W' = W
      BY <2>1, <2>2 DEF IInv, TypeOK, Waits
    <3> QED BY <1>2, <2>2, <3>1
  <2>3. CASE /\ thread' = [thread EXCEPT ![t] = Out]
             /\ done' = IF done = 0 THEN 0 ELSE done - 1
    <3>1. W' = W \ {t}
      BY <2>1, <2>3 DEF IInv, TypeOK, Out
    <3>2. CASE done = 0
      <4>1. Event!GiveUp(t)
        BY <2>1, <2>3, <3>1, <3>2 DEF Event!GiveUp
      <4> QED BY <4>1 DEF Event!Next
    <3>3. CASE done # 0
      <4>1. Event!Take
        BY <1>1, <2>1, <2>3, <3>1, <3>3 DEF Event!Take
      <4> QED BY <4>1 DEF Event!Next
    <3> QED BY <3>2, <3>3
  <2> QED BY <1>4, <2>2, <2>3 DEF Resume
<1>5. ASSUME NEW t \in Thread, try_wait_for_completion(t)
      PROVE  Event!Next
  <2>1. Event!Take
    BY <1>1, <1>5 DEF try_wait_for_completion, Event!Take
  <2> QED BY <2>1 DEF Event!Next
<1>6. ASSUME \A t \in Thread : thread'[t].in = thread[t].in
      PROVE  W' = W
  BY <1>6
<1>7. CASE complete \/ complete_all
  <2>1. ASSUME NEW nr \in {0, 1}, thread' = Woken(__wake_up_common(list, TASK_NORMAL, TRUE, nr))
        PROVE  W' = W
    <3>1. Lists(list, On("completion")) /\ On("completion") \in SUBSET Thread /\ TypeOK
      BY DEF IInv, EntriesOnce, On
    <3>2. \A t \in __wake_up_common(list, TASK_NORMAL, TRUE, nr) : t \in On("completion")
      BY <3>1, WakesEnough
    <3>3. __wake_up_common(list, TASK_NORMAL, TRUE, nr) \in SUBSET Thread
      BY <3>2 DEF On
    <3> QED BY <1>6, <2>1, <3>1, <3>3, WokenMovesNobody
  <2>2. CASE complete
    <3>1. W' = W /\ done' = done + 1
      BY <2>1, <2>2, AddsUp DEF complete
    <3>2. Event!Give(1)
      BY <3>1 DEF Event!Give
    <3> QED BY <3>2 DEF Event!Next
  <2>3. CASE complete_all
    <3>1. W' = W /\ done' = done + UMax \div 2
      BY <2>1, <2>3, AddsUp DEF complete_all
    <3>2. Event!Give(UMax \div 2)
      BY <3>1 DEF Event!Give
    <3> QED BY <3>2 DEF Event!Next
  <2> QED BY <1>7, <2>2, <2>3
<1>8. ASSUME NEW ts \in SUBSET Thread, thread' = Woken(ts)
      PROVE  W' = W
  BY <1>6, <1>8, WokenMovesNobody DEF IInv
<1>9. ASSUME NEW mode \in {TASK_NORMAL, {"interruptible"}}, __wake_up(mode)
      PROVE  UNCHANGED Event!vars
  <2>1. Lists(queue, On("queue")) /\ On("queue") \in SUBSET Thread /\ TypeOK
    BY DEF IInv, EntriesOnce, On
  <2>2. \A t \in __wake_up_common(queue, mode, FALSE, 1) : t \in On("queue")
    BY <2>1, WakesEnough
  <2> QED BY <1>2, <1>8, <1>9, <2>1, <2>2 DEF __wake_up
<1>10. ASSUME NEW t \in Thread, Signal(t) \/ Handled(t)
       PROVE  UNCHANGED Event!vars
  <2>1. done' = done /\ (thread' = Woken({t}) \/ thread' = thread)
    BY <1>10 DEF Signal, Handled
  <2> QED BY <1>2, <1>8, <2>1
<1>11. ASSUME NEW t \in Thread, Expire(t)
       PROVE  UNCHANGED Event!vars
  <2>1. /\ thread[t] \in Waits /\ done' = done
        /\ thread' = [thread EXCEPT ![t].expired = TRUE, ![t].asleep = FALSE]
    BY <1>11, WaitingIs DEF IInv, Expire, Out
  <2>2. \A u \in Thread : thread'[u].in = thread[u].in
    BY <2>1 DEF IInv, TypeOK, Waits
  <2> QED BY <1>2, <1>6, <2>1, <2>2
<1>12. ASSUME NEW t \in Thread, NEW call \in Calls, SleepOn(t, call)
       PROVE  UNCHANGED Event!vars
  <2> DEFINE e == [In("queue", call) EXCEPT !.asleep = ~signal_pending_state(call.mode, t)]
  <2>1. done' = done /\ thread[t] = Out /\ thread' = [thread EXCEPT ![t] = e]
    BY <1>12 DEF SleepOn
  <2>2. e.in = "queue"
    BY DEF In
  <2> HIDE DEF e
  <2>3. W' = W
    BY <2>1, <2>2 DEF IInv, TypeOK, Out
  <2> QED BY <1>2, <2>1, <2>3
<1>13. ASSUME NEW t \in Thread, SleepOnReturns(t)
       PROVE  UNCHANGED Event!vars
  <2>1. done' = done /\ thread[t].in = "queue" /\ thread' = [thread EXCEPT ![t] = Out]
    BY <1>13 DEF SleepOnReturns
  <2>2. W' = W
    BY <2>1 DEF IInv, TypeOK, Out
  <2> QED BY <1>2, <2>1, <2>2
<1>14. CASE UNCHANGED vars
  BY <1>2, <1>14 DEF vars
<1> QED BY <1>3, <1>4, <1>5, <1>7, <1>9, <1>10, <1>11, <1>12, <1>13, <1>14 DEF Next

\* Completions implement CountingEvent where the counter does not wrap: every
\* call of complete lets one thread go, one of complete_all UINT_MAX / 2, and
\* a thread gives up only when there is nothing to take.
THEOREM CompletionImplements == NoWrap => (Spec => Event!Safety)
<1> SUFFICES ASSUME NoWrap PROVE Spec => Event!Safety
  OBVIOUS
<1>1. Init => CountsCalls /\ Event!Init
  BY CompletionAssumption DEF Init, CountsCalls, Event!Init, Out
<1>2. IInv /\ CountsCalls /\ [Next]_vars => CountsCalls'
  BY AddsUp
<1>3. IInv /\ CountsCalls /\ [Next]_vars => [Event!Next]_(Event!vars)
  BY EventSteps
<1> QED BY <1>1, <1>2, <1>3, InvHolds, PTL DEF Spec, Event!Safety
=============================================================================
