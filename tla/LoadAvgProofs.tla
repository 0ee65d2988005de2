---------------------------- MODULE LoadAvgProofs ----------------------------
(* Proofs about LoadAvg.                                                     *)
EXTENDS LoadAvg, DataProofs

-----------------------------------------------------------------------------
(* The inductive invariant. *)

\* What a CPU holds between folding its delta and adding it.
inHand(c) == IF at[c] = Run THEN 0 ELSE at[c].delta

\* The delta that calc_global_load has taken and not added.
taken == IF global.in = "add" THEN global.delta ELSE 0

TypeOK ==
    /\ running \in [CPU -> Int] /\ blocked \in [CPU -> Int] /\ folded \in [CPU -> Int]
    /\ update \in [CPU -> Int]
    /\ online \subseteq CPU
    /\ at \in [CPU -> {Run} \cup [in : {"add"}, delta : Int, idx : {0, 1}]]
    /\ now \in Int /\ tasks \in Int /\ idle \in [{0, 1} -> Int] /\ idx \in {0, 1}
    /\ global \in [in : {"no", "fold", "catchup", "flip"}] \cup [in : {"add"}, delta : Int]

\* The windows: a queue's calc_load_update is a whole number of periods away
\* from the global one, at most one ahead of it, and behind the clock when the
\* clock is a period or more ahead.
Windows ==
    /\ global.in \in {"no", "flip"} => now < Window
    /\ \A c \in CPU : update[c] % Freq = 0 /\ update[c] <= Freq
    /\ \A c \in online \ (nohz \cup ticked) : now >= Freq => update[c] <= 0

IInv == TypeOK /\ NothingLost /\ Windows

\* What the CPUs hold, and what NothingLost says with it.
Hands == [c \in CPU |-> inHand(c)]

LEMMA Places ==
    NothingLost <=> tasks + idle[0] + idle[1] + Sum(Hands) + taken = Sum(folded)
BY Zenon DEF NothingLost, Hands, inHand, taken

-----------------------------------------------------------------------------
(* Types. *)

\* The periods are positive.
LEMMA Periods ==
    Freq \in Nat /\ Window \in Nat /\ 0 < Window /\ Window < Freq /\ IsFiniteSet(CPU) /\ Jumps \subseteq Nat
BY LoadAssumption

\* What CPUs and calc_global_load hold are numbers, and so are the sums.
LEMMA Numbers ==
    ASSUME TypeOK
    PROVE  /\ \A c \in CPU : Hands[c] \in Int /\ Hands[c] = inHand(c)
           /\ taken \in Int /\ Sum(Hands) \in Int /\ Sum(folded) \in Int
           /\ idle[0] \in Int /\ idle[1] \in Int
<1>1. ASSUME NEW c \in CPU PROVE inHand(c) \in Int
  <2>1. at[c] = Run \/ at[c] \in [in : {"add"}, delta : Int, idx : {0, 1}]
    BY DEF TypeOK
  <2> QED BY <2>1 DEF inHand
<1>2. taken \in Int
  BY DEF TypeOK, taken
<1>3. \A c \in CPU : Hands[c] \in Int /\ Hands[c] = inHand(c)
  BY <1>1 DEF Hands
<1>4. Sum(Hands) \in Int
  BY <1>3, Periods, SumInt DEF Sum
<1>5. Sum(folded) \in Int
  BY Periods, SumInt DEF Sum, TypeOK
<1> QED BY <1>2, <1>3, <1>4, <1>5 DEF TypeOK

\* Moving the global calc_load_update moves what is relative to it.
LEMMA AdvanceTypes ==
    ASSUME TypeOK, NEW d \in Int, Advance(d)
    PROVE  now' \in Int /\ update' \in [CPU -> Int]
BY Periods DEF Advance, TypeOK

\* Every step keeps the types.
LEMMA TypeStep ==
    ASSUME TypeOK, [Next]_vars
    PROVE  TypeOK'
<1> USE Periods
<1>1. CASE ThreadStep
  <2> PICK c \in CPU : Enqueue(c) \/ ttwu_do_activate(c) \/ \E s \in BOOLEAN : deactivate_task(c, s)
    BY <1>1 DEF ThreadStep
  <2>1. CASE Enqueue(c)
    BY <2>1 DEF TypeOK, Enqueue, shared
  <2>2. CASE ttwu_do_activate(c)
    BY <2>2 DEF TypeOK, ttwu_do_activate, shared
  <2>3. CASE \E s \in BOOLEAN : deactivate_task(c, s)
    BY <2>3 DEF TypeOK, deactivate_task, shared
  <2> QED BY <2>1, <2>2, <2>3
<1>2. CASE HotplugStep
  <2> PICK d \in CPU : CpuDying(d) \/ CpuUp(d)
    BY <1>2 DEF HotplugStep
  <2>1. CASE CpuDying(d)
    BY <2>1 DEF TypeOK, CpuDying
  <2>2. CASE CpuUp(d)
    BY <2>2 DEF TypeOK, CpuUp, shared
  <2> QED BY <2>1, <2>2
<1>3. CASE DoTimer
  <2>1. now' \in Int
    BY <1>3 DEF TypeOK, DoTimer
  <2>2. global' \in [in : {"no", "fold", "catchup", "flip"}]
    BY <1>3 DEF DoTimer
  <2>3. UNCHANGED <<rqs, nohz, at, online, shared>>
    BY <1>3 DEF DoTimer
  <2> QED BY <2>1, <2>2, <2>3 DEF TypeOK, rqs, shared
<1>4. CASE calc_load_fold_idle
  BY <1>4 DEF TypeOK, calc_load_fold_idle, rqs
<1>5. CASE Average
  <2>1. now' \in Int /\ update' \in [CPU -> Int]
    BY <1>5, AdvanceTypes DEF Average
  <2>2. global.delta \in Int
    BY <1>5 DEF TypeOK, Average
  <2> QED BY <1>5, <2>1, <2>2 DEF TypeOK, Average
<1>6. CASE CatchUp
  <2>1. now' \in Int /\ update' \in [CPU -> Int]
    <3>1. CASE now < Window
      BY <1>6, <3>1 DEF TypeOK, CatchUp
    <3>2. CASE ~(now < Window)
      <4>1. Freq * (1 + (now - Window) \div Freq) \in Int
        BY DEF TypeOK
      <4> QED BY <1>6, <3>2, <4>1, AdvanceTypes DEF CatchUp
    <3> QED BY <3>1, <3>2
  <2> QED BY <1>6, <2>1 DEF TypeOK, CatchUp, shared
<1>7. CASE Flip
  BY <1>7 DEF TypeOK, Flip, rqs
<1>8. ASSUME NEW c \in CPU, CpuStep(c) \/ calc_load_enter_idle(c) \/ calc_load_exit_idle(c) PROVE TypeOK'
  <2>1. CASE calc_load_account_active(c)
    BY <2>1 DEF TypeOK, calc_load_account_active, calc_load_fold_active, nr_active
  <2>2. CASE AddIdle(c)
    <3>1. at[c].delta \in Int /\ at[c].idx \in {0, 1}
      BY <2>2 DEF TypeOK, AddIdle, Run
    <3> QED BY <2>2, <3>1 DEF TypeOK, AddIdle, rqs
  <2>3. CASE calc_load_enter_idle(c)
    <3>1. calc_load_fold_active(c) \in Int /\ nr_active(c) \in Int /\ calc_load_write_idx \in {0, 1}
      BY DEF TypeOK, calc_load_fold_active, nr_active, calc_load_write_idx
    <3>2. at' \in [CPU -> {Run} \cup [in : {"add"}, delta : Int, idx : {0, 1}]]
      BY <2>3, <3>1 DEF TypeOK, calc_load_enter_idle
    <3> QED BY <2>3, <3>1, <3>2 DEF TypeOK, calc_load_enter_idle, shared
  <2>4. CASE calc_load_exit_idle(c)
    BY <2>4 DEF TypeOK, calc_load_exit_idle, shared
  <2> QED BY <1>8, <2>1, <2>2, <2>3, <2>4 DEF CpuStep
<1>9. CASE UNCHANGED vars
  BY <1>9 DEF TypeOK, vars, rqs, shared
<1> QED BY <1>1, <1>2, <1>3, <1>4, <1>5, <1>6, <1>7, <1>8, <1>9 DEF Next, Global

-----------------------------------------------------------------------------
(* NothingLost. *)

\* Steps that take nothing from one place to another.
LEMMA NothingMoves ==
    ASSUME NothingLost, UNCHANGED <<folded, at, tasks, idle>>, taken' = taken
    PROVE  NothingLost'
<1>1. Hands' = Hands
  BY DEF Hands, inHand
<1>2. (tasks + idle[0] + idle[1] + Sum(Hands) + taken = Sum(folded))'
  BY <1>1, Places DEF Sum
<1> QED BY <1>2, Places, PTL

\* Every step keeps every delta in one place.
LEMMA LostStep ==
    ASSUME TypeOK, NothingLost, [Next]_vars
    PROVE  NothingLost'
<1>1. TypeOK' /\ IsFiniteSet(CPU)
  BY TypeStep, Periods
<1>2. /\ tasks \in Int /\ idle[0] \in Int /\ idle[1] \in Int
      /\ Sum(Hands) \in Int /\ Sum(folded) \in Int /\ taken \in Int
      /\ \A c \in CPU : Hands[c] \in Int /\ Hands[c] = inHand(c) /\ folded[c] \in Int
  BY Numbers DEF TypeOK
<1>3. \A c \in CPU : Hands'[c] \in Int /\ Hands'[c] = inHand(c)' /\ folded'[c] \in Int
  <2>1. (\A c \in CPU : Hands[c] \in Int /\ Hands[c] = inHand(c))'
    BY <1>1, Numbers, PTL
  <2> QED BY <1>1, <2>1 DEF TypeOK
<1>4. tasks + idle[0] + idle[1] + Sum(Hands) + taken = Sum(folded)
  BY Places
<1>5. CASE ThreadStep
  BY <1>5, NothingMoves DEF ThreadStep, Enqueue, ttwu_do_activate, deactivate_task, shared, taken
<1>6. CASE HotplugStep
  <2> PICK d \in CPU : CpuDying(d) \/ CpuUp(d)
    BY <1>6 DEF HotplugStep
  <2>1. CASE CpuDying(d)
    <3>1. Hands' = Hands /\ taken' = taken /\ idle' = idle
      BY <2>1 DEF CpuDying, Hands, inHand, taken
    <3>2. Sum(folded)' = Sum(folded) - folded[d]
      <4>1. folded'[d] = 0 /\ \A c \in CPU \ {d} : folded'[c] = folded[c]
        BY <2>1 DEF CpuDying, TypeOK
      <4>2. Sum(folded') = Sum(folded) - folded[d] + folded'[d]
        BY <1>1, <1>2, <1>3, <4>1, SumChanged DEF Sum
      <4> QED BY <1>2, <4>1, <4>2 DEF Sum
    <3>3. tasks' = tasks - folded[d]
      BY <2>1 DEF CpuDying
    <3>4. (tasks + idle[0] + idle[1] + Sum(Hands) + taken = Sum(folded))'
      BY <1>2, <1>4, <3>1, <3>2, <3>3 DEF Sum
    <3> QED BY <3>4, Places, PTL
  <2>2. CASE CpuUp(d)
    BY <2>2, NothingMoves DEF CpuUp, shared, taken
  <2> QED BY <2>1, <2>2
<1>7. CASE DoTimer
  <2>1. UNCHANGED <<folded, at, tasks, idle>>
    BY <1>7 DEF DoTimer, rqs, shared
  <2>2. taken' = taken
    BY <1>7 DEF DoTimer, taken
  <2> QED BY <2>1, <2>2, NothingMoves
<1>8. CASE calc_load_fold_idle
  <2>1. Hands' = Hands /\ folded' = folded /\ tasks' = tasks
    BY <1>8 DEF calc_load_fold_idle, Hands, inHand, rqs
  <2>2. taken = 0 /\ taken' = idle[idx]
    BY <1>8 DEF calc_load_fold_idle, taken
  <2>3. idle'[0] + idle'[1] = idle[0] + idle[1] - idle[idx]
    BY <1>2, <1>8 DEF calc_load_fold_idle, TypeOK
  <2>4. idle'[0] \in Int /\ idle'[1] \in Int /\ idle[idx] \in Int
    BY <1>1, <1>2 DEF TypeOK
  <2>5. (tasks + idle[0] + idle[1] + Sum(Hands) + taken = Sum(folded))'
    BY <1>2, <1>4, <2>1, <2>2, <2>3, <2>4 DEF Sum
  <2> QED BY <2>5, Places, PTL
<1>9. CASE Average
  <2>1. Hands' = Hands /\ folded' = folded /\ idle' = idle
    BY <1>9 DEF Average, Hands, inHand
  <2>2. tasks' = tasks + taken /\ taken' = 0
    BY <1>9 DEF Average, taken
  <2>3. (tasks + idle[0] + idle[1] + Sum(Hands) + taken = Sum(folded))'
    BY <1>2, <1>4, <2>1, <2>2 DEF Sum
  <2> QED BY <2>3, Places, PTL
<1>10. CASE CatchUp \/ Flip
  <2>1. UNCHANGED <<folded, at, tasks, idle>>
    BY <1>10 DEF CatchUp, Flip, rqs, shared
  <2>2. taken' = taken
    BY <1>10 DEF CatchUp, Flip, taken
  <2> QED BY <2>1, <2>2, NothingMoves
<1>11. ASSUME NEW c \in CPU, CpuStep(c) \/ calc_load_enter_idle(c) \/ calc_load_exit_idle(c)
       PROVE  NothingLost'
  <2>1. CASE calc_load_account_active(c)
    <3>1. Hands' = Hands /\ taken' = taken /\ idle' = idle
      BY <2>1 DEF calc_load_account_active, Hands, inHand, taken
    <3>2. Sum(folded') = Sum(folded) - folded[c] + folded'[c]
      <4>1. \A b \in CPU \ {c} : folded'[b] = folded[b]
        BY <2>1 DEF calc_load_account_active, TypeOK
      <4> QED BY <1>1, <1>2, <1>3, <4>1, SumChanged DEF Sum
    <3>3. tasks' = tasks + folded'[c] - folded[c] /\ folded'[c] \in Int
      BY <2>1 DEF calc_load_account_active, calc_load_fold_active, nr_active, TypeOK
    <3>4. (tasks + idle[0] + idle[1] + Sum(Hands) + taken = Sum(folded))'
      BY <1>2, <1>4, <3>1, <3>2, <3>3 DEF Sum
    <3> QED BY <3>4, Places, PTL
  <2>2. CASE AddIdle(c)
    <3>1. folded' = folded /\ taken' = taken /\ tasks' = tasks
      BY <2>2 DEF AddIdle, rqs, taken
    <3>2. at[c] \in [in : {"add"}, delta : Int, idx : {0, 1}]
      BY <2>2 DEF AddIdle, TypeOK, Run
    <3>3. inHand(c) = at[c].delta /\ inHand(c)' = 0
      BY <2>2, <3>2 DEF AddIdle, TypeOK, inHand, Run
    <3>4. Sum(Hands') = Sum(Hands) - Hands[c] + Hands'[c]
      <4>1. \A b \in CPU \ {c} : Hands'[b] = Hands[b]
        BY <2>2 DEF AddIdle, TypeOK, Hands, inHand
      <4> QED BY <1>1, <1>2, <1>3, <4>1, SumChanged DEF Sum
    <3>5. idle'[0] + idle'[1] = idle[0] + idle[1] + inHand(c)
      BY <1>2, <2>2, <3>2, <3>3 DEF AddIdle, TypeOK
    <3>6. idle'[0] \in Int /\ idle'[1] \in Int
      BY <1>1 DEF TypeOK
    <3>7. Sum(Hands') = Sum(Hands) - inHand(c) /\ inHand(c) \in Int
      BY <1>2, <1>3, <3>3, <3>4
    <3>8. (tasks + idle[0] + idle[1] + Sum(Hands) + taken = Sum(folded))'
      BY <1>2, <1>4, <3>1, <3>5, <3>6, <3>7 DEF Sum
    <3> QED BY <3>8, Places, PTL
  <2>3. CASE calc_load_enter_idle(c)
    <3>1. taken' = taken /\ tasks' = tasks /\ idle' = idle
      BY <2>3 DEF calc_load_enter_idle, shared, taken
    <3>2. Sum(folded') = Sum(folded) - folded[c] + folded'[c]
      <4>1. \A b \in CPU \ {c} : folded'[b] = folded[b]
        BY <2>3 DEF calc_load_enter_idle, TypeOK
      <4> QED BY <1>1, <1>2, <1>3, <4>1, SumChanged DEF Sum
    <3>3. inHand(c) = 0
      BY <2>3 DEF calc_load_enter_idle, inHand
    <3>4. inHand(c)' = folded'[c] - folded[c] /\ folded'[c] \in Int
      BY <2>3 DEF calc_load_enter_idle, calc_load_fold_active, nr_active, TypeOK, inHand, Run
    <3>5. Sum(Hands') = Sum(Hands) - Hands[c] + Hands'[c]
      <4>1. \A b \in CPU \ {c} : Hands'[b] = Hands[b]
        BY <2>3 DEF calc_load_enter_idle, TypeOK, Hands, inHand
      <4> QED BY <1>1, <1>2, <1>3, <4>1, SumChanged DEF Sum
    <3>6. Sum(Hands') = Sum(Hands) + folded'[c] - folded[c]
      BY <1>2, <1>3, <3>3, <3>4, <3>5
    <3>7. (tasks + idle[0] + idle[1] + Sum(Hands) + taken = Sum(folded))'
      BY <1>2, <1>4, <3>1, <3>2, <3>4, <3>6 DEF Sum
    <3> QED BY <3>7, Places, PTL
  <2>4. CASE calc_load_exit_idle(c)
    BY <2>4, NothingMoves DEF calc_load_exit_idle, shared, taken
  <2> QED BY <1>11, <2>1, <2>2, <2>3, <2>4 DEF CpuStep
<1>12. CASE UNCHANGED vars
  BY <1>12, NothingMoves DEF vars, rqs, shared, taken
<1> QED BY <1>5, <1>6, <1>7, <1>8, <1>9, <1>10, <1>11, <1>12 DEF Next, Global

-----------------------------------------------------------------------------
(* SkipsAtMostOne. *)

\* Multiples of the period.
LEMMA Multiples ==
    ASSUME NEW u \in Int, u % Freq = 0
    PROVE  /\ (u + Freq) % Freq = 0 /\ (u - Freq) % Freq = 0
           /\ \A k \in Int : (u - Freq * k) % Freq = 0
           /\ u < Freq => u <= 0
<1>1. PICK q \in Int : u = Freq * q
  BY Periods
<1> QED BY <1>1, Periods

\* Going back by one period or more leaves nothing ahead of the global time.
LEMMA AdvanceWindows ==
    ASSUME TypeOK, Windows, NEW k \in Nat \ {0}, Advance(Freq * k)
    PROVE  \A c \in CPU : update'[c] % Freq = 0 /\ update'[c] <= 0
<1> USE Periods
<1>1. ASSUME NEW c \in CPU PROVE update'[c] % Freq = 0 /\ update'[c] <= 0
  <2> DEFINE u == update[c]
  <2>1. u \in Int /\ u % Freq = 0 /\ u <= Freq
    BY DEF TypeOK, Windows
  <2>2. (u - Freq * k) % Freq = 0
    <3> HIDE DEF u
    <3>1. \A m \in Int : (u - Freq * m) % Freq = 0
      BY <2>1, Multiples
    <3> QED BY <3>1
  <2>3. Freq * k \in Nat /\ Freq <= Freq * k
    OBVIOUS
  <2>4. update'[c] = u - Freq * k \/ update'[c] = -Freq
    BY DEF Advance
  <2>5. (-Freq) % Freq = 0 /\ -Freq <= 0
    <3>1. 0 % Freq = 0
      OBVIOUS
    <3>2. (0 - Freq) % Freq = 0
      BY <3>1, Multiples
    <3> QED BY <3>2
  <2> HIDE DEF u
  <2> QED BY <2>1, <2>2, <2>3, <2>4, <2>5
<1> QED BY <1>1

\* Steps that leave the clock and the update times alone.
LEMMA WindowsStay ==
    ASSUME TypeOK, Windows, UNCHANGED <<now, update, global>>,
           online' \ (nohz' \cup ticked') \subseteq online \ (nohz \cup ticked)
    PROVE  Windows'
BY DEF Windows

\* Every step keeps the update times in their windows.
LEMMA WindowsStep ==
    ASSUME TypeOK, Windows, [Next]_vars
    PROVE  Windows'
<1> USE Periods
<1>1. TypeOK'
  BY TypeStep
<1>2. \A c \in CPU : update[c] \in Int /\ update[c] % Freq = 0 /\ update[c] <= Freq
  BY DEF TypeOK, Windows
<1>3. now \in Int /\ now' \in Int /\ online' \subseteq CPU /\ online \subseteq CPU
  BY <1>1 DEF TypeOK
<1>4. 0 % Freq = 0 /\ Freq % Freq = 0
  OBVIOUS
<1>5. CASE ThreadStep
  BY <1>5, WindowsStay DEF ThreadStep, Enqueue, ttwu_do_activate, deactivate_task
<1>6. CASE HotplugStep
  <2> PICK d \in CPU : CpuDying(d) \/ CpuUp(d)
    BY <1>6 DEF HotplugStep
  <2>1. CASE CpuDying(d)
    BY <2>1, WindowsStay DEF CpuDying
  <2>2. CASE CpuUp(d)
    <3>1. update' = [update EXCEPT ![d] = 0] /\ online' = online \cup {d} /\ UNCHANGED <<nohz, ticked, now, global>>
      BY <2>2 DEF CpuUp
    <3>2. \A c \in CPU : update'[c] = IF c = d THEN 0 ELSE update[c]
      BY <3>1 DEF TypeOK
    <3> QED BY <1>2, <1>3, <1>4, <3>1, <3>2 DEF Windows
  <2> QED BY <2>1, <2>2
<1>7. CASE DoTimer
  <2>1. /\ global' = IF now' < Window THEN global ELSE [in |-> "fold"]
        /\ global = [in |-> "no"] /\ update' = update /\ online' = online /\ nohz' = nohz
        /\ nohz = online \/ now' = now + 1
    BY <1>7 DEF DoTimer, rqs
  <2>2. global'.in \in {"no", "flip"} => now' < Window
    BY <2>1
  <2>3. \A c \in online' \ (nohz' \cup ticked') : now' >= Freq => update'[c] <= 0
    <3>1. CASE nohz = online
      BY <2>1, <3>1
    <3>2. CASE now' = now + 1
      <4>1. now < Window
        BY <2>1 DEF Windows
      <4> QED BY <1>3, <3>2, <4>1
    <3> QED BY <2>1, <3>1, <3>2
  <2> QED BY <1>2, <2>1, <2>2, <2>3 DEF Windows
<1>8. CASE calc_load_fold_idle
  <2>1. UNCHANGED <<now, update, online, nohz, ticked>> /\ global'.in = "add"
    BY <1>8 DEF calc_load_fold_idle, rqs
  <2> QED BY <2>1 DEF Windows
<1>9. CASE Average
  <2>1. Advance(Freq * 1) /\ global'.in = "catchup" /\ online' = online
    BY <1>9 DEF Average
  <2>2. \A c \in CPU : update'[c] % Freq = 0 /\ update'[c] <= 0
    BY <2>1, AdvanceWindows
  <2>3. \A c \in CPU : update'[c] \in Int
    BY <1>1 DEF TypeOK
  <2> QED BY <1>3, <2>1, <2>2, <2>3 DEF Windows
<1>10. CASE CatchUp
  <2>1. CASE now < Window
    BY <1>10, <2>1 DEF CatchUp, Windows
  <2>2. CASE ~(now < Window)
    <3> DEFINE k == 1 + (now - Window) \div Freq
    <3>1. k \in Nat \ {0} /\ now - Freq * k < Window
      <4>1. PICK late \in Nat : late = now - Window
        BY <1>3, <2>2
      <4>2. late \div Freq \in Nat /\ late < Freq * (1 + late \div Freq)
        OBVIOUS
      <4> QED BY <1>3, <4>1, <4>2
    <3>2. Advance(Freq * k) /\ global'.in = "flip" /\ online' = online
      BY <1>10, <2>2 DEF CatchUp
    <3> HIDE DEF k
    <3>3. \A c \in CPU : update'[c] % Freq = 0 /\ update'[c] <= 0
      BY <3>1, <3>2, AdvanceWindows
    <3>4. now' < Window
      BY <3>1, <3>2 DEF Advance
    <3>5. \A c \in CPU : update'[c] \in Int
      BY <1>1 DEF TypeOK
    <3> QED BY <1>3, <3>2, <3>3, <3>4, <3>5 DEF Windows
  <2> QED BY <2>1, <2>2
<1>11. CASE Flip
  <2>1. UNCHANGED <<now, update, online, nohz, ticked>> /\ global.in = "flip"
    BY <1>11 DEF Flip, rqs
  <2> QED BY <2>1 DEF Windows
<1>12. ASSUME NEW c \in CPU, CpuStep(c) \/ calc_load_enter_idle(c) \/ calc_load_exit_idle(c)
       PROVE  Windows'
  <2>1. CASE calc_load_account_active(c)
    <3>1. /\ update' = [update EXCEPT ![c] = @ + Freq] /\ ticked' = ticked \cup {c}
          /\ UNCHANGED <<nohz, online, now, global>>
          /\ c \in online \ (nohz \cup ticked) /\ now >= update[c]
      BY <2>1 DEF calc_load_account_active
    <3>2. update[c] <= 0
      <4>1. CASE now >= Freq
        BY <3>1, <4>1 DEF Windows
      <4>2. CASE ~(now >= Freq)
        <5>1. update[c] < Freq
          BY <1>2, <1>3, <3>1, <4>2
        <5> QED BY <1>2, <5>1, Multiples
      <4> QED BY <4>1, <4>2
    <3>3. (update[c] + Freq) % Freq = 0
      BY <1>2, Multiples
    <3>4. \A b \in CPU : update'[b] = IF b = c THEN update[b] + Freq ELSE update[b]
      BY <3>1 DEF TypeOK
    <3>5. \A b \in CPU : update'[b] % Freq = 0 /\ update'[b] <= Freq
      BY <1>2, <3>2, <3>3, <3>4
    <3>6. \A b \in online' \ (nohz' \cup ticked') : now' >= Freq => update'[b] <= 0
      BY <1>3, <3>1, <3>4 DEF Windows
    <3> QED BY <3>1, <3>5, <3>6 DEF Windows
  <2>2. CASE AddIdle(c)
    BY <2>2, WindowsStay DEF AddIdle, rqs
  <2>3. CASE calc_load_enter_idle(c)
    BY <2>3, WindowsStay DEF calc_load_enter_idle
  <2>4. CASE calc_load_exit_idle(c)
    <3>1. /\ update' = IF now < update[c] THEN update ELSE [update EXCEPT ![c] = IF now < Window THEN Freq ELSE 0]
          /\ nohz' = nohz \ {c}
          /\ UNCHANGED <<ticked, online, now, global>>
      BY <2>4 DEF calc_load_exit_idle
    <3>2. \A b \in CPU \ {c} : update'[b] = update[b]
      BY <3>1 DEF TypeOK
    <3>3. update'[c] % Freq = 0 /\ update'[c] <= Freq
      BY <1>2, <1>3, <1>4, <3>1 DEF TypeOK
    <3>4. now >= Freq => update'[c] <= 0
      BY <1>2, <1>3, <3>1 DEF TypeOK
    <3>5. \A b \in online' \ (nohz' \cup ticked') : now' >= Freq => update'[b] <= 0
      BY <1>3, <3>1, <3>2, <3>4 DEF Windows
    <3> QED BY <1>2, <3>1, <3>2, <3>3, <3>5 DEF Windows
  <2> QED BY <1>12, <2>1, <2>2, <2>3, <2>4 DEF CpuStep
<1>13. CASE UNCHANGED vars
  BY <1>13, WindowsStay DEF vars, rqs
<1> QED BY <1>5, <1>6, <1>7, <1>8, <1>9, <1>10, <1>11, <1>12, <1>13 DEF Next, Global

-----------------------------------------------------------------------------
\* At boot there is no delta, and the first window is ahead.
LEMMA InitIInv == Init => IInv
<1> SUFFICES ASSUME Init PROVE IInv
  OBVIOUS
<1> USE Periods
<1>1. TypeOK
  BY DEF Init, TypeOK
<1>2. NothingLost
  <2>1. taken = 0 /\ tasks = 0 /\ idle[0] = 0 /\ idle[1] = 0
    BY DEF Init, taken
  <2>2. (\A c \in CPU : Hands[c] = 0) /\ \A c \in CPU : folded[c] = 0
    BY DEF Init, Hands, inHand
  <2>3. Sum(Hands) = Sum(folded) /\ Sum(Hands) = 0 * Cardinality(CPU)
    BY <2>2, SumSame, SumConstant DEF Sum
  <2>4. Sum(Hands) = 0
    BY <2>3, FS_CardinalityType
  <2> QED BY <2>1, <2>3, <2>4, Places
<1>3. Windows
  <2>1. 0 % Freq = 0 /\ \A c \in CPU : update[c] = 0
    BY DEF Init
  <2> QED BY <2>1 DEF Init, Windows
<1> QED BY <1>1, <1>2, <1>3 DEF IInv

\* The invariant holds in every behaviour.
LEMMA Invariant == Spec => []IInv
<1>1. IInv /\ [Next]_vars => IInv'
  BY TypeStep, LostStep, WindowsStep DEF IInv
<1> QED BY InitIInv, <1>1, PTL DEF Spec

\* calc_load_tasks, the two idle counters and the deltas that CPUs and
\* calc_global_load hold add up to what the queues have folded, for any number
\* of CPUs: each delta is counted once, however late ("being late doesn't loose
\* the delta"), whatever CPUs idle, wake or die in between.
THEOREM DeltasConserved == Spec => []NothingLost
BY Invariant, PTL DEF IInv

\* A CPU whose tick runs is never more than one period ahead of the global
\* calc_load_update: calc_load_exit_idle makes it skip one sample at most,
\* whatever the clock jumps when all were idle and whoever comes up or dies.
THEOREM OneSampleSkipped == Spec => []SkipsAtMostOne
<1>1. IInv => SkipsAtMostOne
  BY DEF IInv, TypeOK, Windows, SkipsAtMostOne
<1> QED BY Invariant, <1>1, PTL
=============================================================================
