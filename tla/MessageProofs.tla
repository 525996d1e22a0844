---------------------------- MODULE MessageProofs ----------------------------
(***************************************************************************)
(* Proofs about what a model is told of a conversation, for every length of *)
(* it and every budget, and about the pictures of a message, for every number *)
(* of them.                                                                *)
(***************************************************************************)
EXTENDS ListProofs, ModelHistory, UserImages,
        SequenceTheorems, WellFoundedInduction, TLAPS

-----------------------------------------------------------------------------
(***************************************************************************)
(* What the model is told of a conversation                                *)
(***************************************************************************)
Roles == {"user", "assistant"}
ShownMessage ==
    {m \in [id : 1..MaxQuestions, role : Roles, words : Nat, grid : Grids, stopped : BOOLEAN] :
        m.stopped => m.role = "assistant"}
ToldMessage == [id : 1..MaxQuestions, role : Roles, grid : Grids, size : Nat]

LEMMA ToldOf ==
    ASSUME NEW m \in ShownMessage
    PROVE  Told(m) \in ToldMessage /\ Told(m).id = m.id /\ Told(m).role = m.role /\ Told(m).grid = m.grid
BY DEF Told, ShownMessage, ToldMessage

LEMMA NewestOf ==
    ASSUME NEW S, NEW s \in Seq(S), NEW k \in 0..Len(s)
    PROVE  /\ Newest(s, k) \in Seq(S) /\ Len(Newest(s, k)) = k
           /\ \A i \in 1..k : Newest(s, k)[i] = s[Len(s) - k + i]
<1>1. Len(s) \in Nat /\ \A i \in 1..Len(s) : s[i] \in S
  BY LenProperties
<1>2. PICK from \in 1..(Len(s) + 1) : from = Len(s) - k + 1
  <2>1. Len(s) - k + 1 \in 1..(Len(s) + 1)
    BY <1>1
  <2>2. QED
    BY <2>1
<1>3. Len(s) \in (from - 1)..Len(s)
  BY <1>1, <1>2
<1>4. Newest(s, k) = SubSeq(s, from, Len(s))
  BY <1>2 DEF Newest
<1>5. SubSeq(s, from, Len(s)) \in Seq(S)
  BY <1>1, <1>3, SubSeqProperties
<1>6. Len(SubSeq(s, from, Len(s))) = Len(s) - from + 1
  BY <1>1, <1>3, SubSeqProperties
<1>7. \A i \in 1..(Len(s) - from + 1) : SubSeq(s, from, Len(s))[i] = s[from + i - 1]
  BY <1>1, <1>3, SubSeqProperties
<1>8. Len(s) - from + 1 = k /\ \A i \in 1..k : from + i - 1 = Len(s) - k + i
  BY <1>1, <1>2
<1>9. QED
  BY <1>4, <1>5, <1>6, <1>7, <1>8

\* All but the last message.
LEMMA BeforeLastOf ==
    ASSUME NEW messages \in Seq(ShownMessage)
    PROVE  /\ BeforeLast(messages) \in Seq(ShownMessage)
           /\ DOMAIN BeforeLast(messages) = 1..Len(BeforeLast(messages))
           /\ \A i \in DOMAIN BeforeLast(messages) : BeforeLast(messages)[i] = messages[i]
<1>1. PICK n \in Nat : n = Len(messages) /\ \A i \in 1..n : messages[i] \in ShownMessage
  BY LenProperties
<1>2. CASE n = 0
  <2>1. BeforeLast(messages) = <<>>
    BY <1>1, <1>2, SubSeqEmpty DEF BeforeLast
  <2>2. QED
    BY <2>1
<1>3. CASE n # 0
  <2>1. 1 \in 1..(Len(messages) + 1) /\ n - 1 \in 0..Len(messages)
    BY <1>1, <1>3
  <2>2. /\ SubSeq(messages, 1, n - 1) \in Seq(ShownMessage)
        /\ Len(SubSeq(messages, 1, n - 1)) = n - 1
        /\ \A i \in 1..(n - 1) : SubSeq(messages, 1, n - 1)[i] = messages[i]
    BY <1>1, <2>1, SubSeqProperties
  <2>3. QED
    BY <1>1, <1>3, <2>2, LenProperties DEF BeforeLast
<1>4. QED
  BY <1>2, <1>3

\* The history before the limits is one of the messages with text, one by one.
SaidBefore(messages) == MembersAt(BeforeLast(messages), Worded(BeforeLast(messages)))
LEMMA ToldBeforeOf ==
    ASSUME NEW messages \in Seq(ShownMessage)
    PROVE  /\ SaidBefore(messages) \in Seq(ShownMessage) /\ ToldBefore(messages) \in Seq(ToldMessage)
           /\ Len(ToldBefore(messages)) = Len(SaidBefore(messages))
           /\ \A j \in 1..Len(SaidBefore(messages)) :
                 ToldBefore(messages)[j] = Told(SaidBefore(messages)[j])
<1>1. PICK before \in Seq(ShownMessage) :
        /\ before = BeforeLast(messages) /\ DOMAIN before = 1..Len(before)
        /\ \A i \in DOMAIN before : before[i] = messages[i]
  BY BeforeLastOf
<1>2. Len(before) \in Nat /\ \A i \in 1..Len(before) : before[i] \in ShownMessage
  BY LenProperties
<1> DEFINE mapped == [i \in DOMAIN before |-> Told(messages[i])]
           g == [m \in ShownMessage |-> Told(m)]
<1>3. mapped \in Seq(ToldMessage) /\ Len(mapped) = Len(before)
  <2>1. \A i \in 1..Len(before) : Told(messages[i]) \in ToldMessage
    BY <1>1, <1>2, ToldOf
  <2>2. mapped \in [1..Len(before) -> ToldMessage]
    BY <1>1, <2>1
  <2>3. QED
    BY <1>2, <2>2, SeqDef, LenProperties
<1>4. g \in [ShownMessage -> ToldMessage]
  BY ToldOf
<1>5. \A i \in 1..Len(before) : mapped[i] = g[before[i]]
  BY <1>1, <1>2
<1>6. \A m \in ShownMessage : g[m] = Told(m)
  OBVIOUS
<1>7. ToldBefore(messages) = MembersAt(mapped, Worded(before))
  BY <1>1 DEF ToldBefore
<1>8. SaidBefore(messages) = MembersAt(before, Worded(before))
  BY <1>1 DEF SaidBefore
<1> HIDE DEF mapped, g
<1>9. PICK places : places = Worded(before)
  OBVIOUS
<1>13. /\ Len(MembersAt(mapped, places)) = Len(MembersAt(before, places))
       /\ \A j \in 1..Len(MembersAt(before, places)) :
             MembersAt(mapped, places)[j] = g[MembersAt(before, places)[j]]
  <2>1. Maps(g, ShownMessage, ToldMessage, before, mapped)
    BY <1>1, <1>3, <1>4, <1>5 DEF Maps
  <2>2. QED
    BY <2>1, FilterOfMap
<1>10. /\ SaidBefore(messages) \in Seq(ShownMessage) /\ ToldBefore(messages) \in Seq(ToldMessage)
  BY <1>3, <1>7, <1>8, MembersOf
<1>11. \A j \in 1..Len(SaidBefore(messages)) : SaidBefore(messages)[j] \in ShownMessage
  BY <1>10, LenProperties
<1>12. QED
  BY <1>6, <1>7, <1>8, <1>9, <1>10, <1>11, <1>13

LEMMA HistoryOf ==
    ASSUME NEW messages \in Seq(ShownMessage), HistoryBoundsAssumption
    PROVE  LET told_ == BuildModelHistory(messages)
               all == ToldBefore(messages)
           IN /\ told_ \in Seq(ToldMessage) /\ Len(told_) \in 0..Len(all) /\ Len(told_) <= BrowserLimit
              /\ Len(told_) = Least(BrowserLimit, Len(all))
              /\ \A i \in 1..Len(told_) : told_[i] = all[Len(all) - Len(told_) + i]
              /\ all # <<>> => told_ # <<>>
<1>1. PICK all \in Seq(ToldMessage) : all = ToldBefore(messages)
  BY ToldBeforeOf
<1>2. PICK k \in 0..Len(all) : k = Least(BrowserLimit, Len(all)) /\ k <= BrowserLimit /\ (Len(all) # 0 => k # 0)
  BY LenProperties DEF Least, HistoryBoundsAssumption
<1>3. BuildModelHistory(messages) = Newest(all, k)
  BY <1>1, <1>2 DEF BuildModelHistory
<1>4. /\ Newest(all, k) \in Seq(ToldMessage) /\ Len(Newest(all, k)) = k
      /\ \A i \in 1..k : Newest(all, k)[i] = all[Len(all) - k + i]
  BY NewestOf
<1>5. Len(all) = 0 <=> all = <<>>
  BY EmptySeq
<1>6. QED
  BY <1>1, <1>2, <1>3, <1>4, <1>5

LEMMA SizeOfNone == SizeOf(<<>>) = 0
<1> DEFINE Sum(f) == f = [n \in 0..Len(<<>>) |-> IF n = 0 THEN 0 ELSE f[n - 1] + <<>>[n].size]
           sum == CHOOSE f : Sum(f)
<1>1. Sum([n \in 0..0 |-> 0])
  <2>1. 0..Len(<<>>) = 0..0 /\ \A n \in 0..0 : n = 0
    OBVIOUS
  <2>2. QED
    BY <2>1
<1>2. Sum(sum)
  <2> HIDE DEF Sum
  <2> QED BY <1>1
<1>3. SizeOf(<<>>) = sum[0]
  BY DEF SizeOf
<1> HIDE DEF sum
<1>4. QED
  BY <1>2, <1>3

LEMMA SizeOfOne ==
    ASSUME NEW m, m.size \in Nat
    PROVE  SizeOf(<<m>>) = m.size
<1> DEFINE Sum(f) == f = [n \in 0..1 |-> IF n = 0 THEN 0 ELSE f[n - 1] + <<m>>[n].size]
           sum == CHOOSE f : Sum(f)
<1>1. Sum([n \in 0..1 |-> IF n = 0 THEN 0 ELSE m.size])
  <2> DEFINE f == [n \in 0..1 |-> IF n = 0 THEN 0 ELSE m.size]
  <2>1. f[0] = 0 /\ f[1] = m.size /\ <<m>>[1] = m
    OBVIOUS
  <2>2. \A n \in 0..1 : f[n] = IF n = 0 THEN 0 ELSE f[n - 1] + <<m>>[n].size
    BY <2>1
  <2>3. QED
    BY <2>2
<1>2. Sum(sum)
  <2> HIDE DEF Sum
  <2> QED BY <1>1
<1>3. SizeOf(<<m>>) = sum[1]
  <2>1. Len(<<m>>) = 1
    OBVIOUS
  <2>2. QED
    BY <2>1 DEF SizeOf
<1> HIDE DEF sum
<1>4. PICK f : f = sum
  OBVIOUS
<1>5. f = [n \in 0..1 |-> IF n = 0 THEN 0 ELSE f[n - 1] + <<m>>[n].size]
  BY <1>2, <1>4
<1>6. f[0] = 0 /\ f[1] = f[0] + <<m>>[1].size
  BY <1>5
<1>7. QED
  BY <1>3, <1>4, <1>6

\* The size of a history is a number.
LEMMA SizeOfHistory ==
    ASSUME NEW s \in Seq(ToldMessage)
    PROVE  SizeOf(s) \in Nat
<1>1. PICK n \in Nat : n = Len(s) /\ s \in [1..n -> ToldMessage]
  BY LenProperties
<1> DEFINE step == [i \in 1..n |-> [t \in Nat |-> t + s[i].size]]
           Sum(f) == f = [i \in 0..n |-> IF i = 0 THEN 0 ELSE f[i - 1] + s[i].size]
           sum == CHOOSE f : Sum(f)
<1>2. \A i \in 1..n : s[i].size \in Nat
  BY <1>1 DEF ToldMessage
<1>3. step \in Steps(n, Nat) /\ 0 \in Nat
  BY <1>2 DEF Steps
<1>4. \A i \in 1..n : \A t \in Nat : step[i][t] = t + s[i].size
  OBVIOUS
<1> HIDE DEF step
<1>5. PICK f : Iterated(f, n, Nat, 0, step)
  BY <1>1, <1>3, Iterates
<1>6. Sum(f)
  <2>1. f \in [0..n -> Nat] /\ f[0] = 0
    BY <1>5 DEF Iterated
  <2>2. \A i \in 1..n : f[i - 1] \in Nat /\ f[i] = step[i][f[i - 1]]
    BY <1>5, <2>1 DEF Iterated
  <2>3. \A i \in 1..n : f[i] = f[i - 1] + s[i].size
    BY <1>4, <2>2
  <2>5. \A i \in 0..n : i = 0 \/ i \in 1..n
    BY <1>1
  <2>6. \A i \in 0..n : f[i] = IF i = 0 THEN 0 ELSE f[i - 1] + s[i].size
    BY <2>1, <2>3, <2>5
  <2>4. QED
    BY <2>1, <2>6
<1>7. Sum(sum)
  <2> HIDE DEF Sum
  <2> QED BY <1>6
<1>8. SizeOf(s) = sum[n]
  BY <1>1 DEF SizeOf
<1> HIDE DEF sum
<1>9. PICK t : t = sum
  OBVIOUS
<1>10. t = [i \in 0..n |-> IF i = 0 THEN 0 ELSE t[i - 1] + s[i].size]
  BY <1>7, <1>9
<1> HIDE DEF Sum
<1>11. t[0] = 0 /\ \A i \in 1..n : t[i] = t[i - 1] + s[i].size
  <2>1. \A i \in 1..n : i \in 0..n /\ i # 0
    OBVIOUS
  <2>2. QED
    BY <1>1, <1>10, <2>1
<1>12. t[0] \in Nat /\ \A i \in 1..n : t[i - 1] \in Nat => t[i] \in Nat
  BY <1>2, <1>11
<1>13. t[n] \in Nat
  BY <1>1, <1>12, StaysIn
<1>14. QED
  BY <1>8, <1>9, <1>13

\* recent is the end of history, none left out, the newest perhaps made smaller, and within
\* the budget.
Fitted(recent, history, budget) ==
    /\ recent \in Seq(ToldMessage) /\ Len(recent) \in 0..Len(history)
    /\ \A i \in 1..Len(recent) :
          LET message == history[Len(history) - Len(recent) + i]
          IN recent[i].id = message.id /\ recent[i].role = message.role
    /\ Len(history) # 0 => Len(recent) # 0
    /\ SizeOf(recent) \in Nat /\ SizeOf(recent) <= budget

\* fitHistoryToBudget fits any history to any budget.
LEMMA FitOf ==
    ASSUME HistoryBoundsAssumption, NEW history \in Seq(ToldMessage), NEW budget \in Nat
    PROVE  Fitted(FitHistoryToBudget(history, budget), history, budget)
<1>1. PICK n \in Nat : n = Len(history) /\ \A i \in 1..n : history[i] \in ToldMessage
  BY LenProperties
<1>2. PICK top \in 0..n : top = Least(HistoryLimit, n)
  BY <1>1 DEF Least, HistoryBoundsAssumption
<1> DEFINE fitting == {k \in 0..top : SizeOf(Newest(history, k)) <= budget}
           best == CHOOSE k \in fitting : \A j \in fitting : j <= k
<1>3. 0 \in fitting
  <2>1. Newest(history, 0) = <<>>
    <3>1. Newest(history, 0) = SubSeq(history, n + 1, n)
      BY <1>1 DEF Newest
    <3>2. QED
      BY <1>1, <3>1, SubSeqEmpty
  <2>2. QED
    BY <2>1, SizeOfNone
<1>4. \A k \in fitting : k \in 0..n /\ SizeOf(Newest(history, k)) <= budget
  BY <1>2
<1>5. fitting \subseteq 0..n
  BY <1>4
<1>6. FitHistoryToBudget(history, budget) =
          IF fitting = {0} /\ history # <<>> THEN <<[Last(history) EXCEPT !.size = budget]>>
          ELSE Newest(history, best)
  BY <1>1, <1>2 DEF FitHistoryToBudget
<1> HIDE DEF fitting
<1>7. \E j \in fitting : \A k \in fitting : k <= j
  BY <1>1, <1>3, <1>5, Largest
<1>8. best \in fitting /\ \A j \in fitting : j <= best
  BY <1>7
<1> HIDE DEF best
<1>9. Len(history) = 0 <=> history = <<>>
  BY EmptySeq
<1>10. CASE fitting = {0} /\ history # <<>>
  <2>1. n \in 1..n /\ n >= 1 /\ Last(history) = history[n]
    BY <1>1, <1>9, <1>10 DEF Last
  <2>2. PICK m : m = [history[n] EXCEPT !.size = budget]
    OBVIOUS
  <2>3. m \in ToldMessage /\ m.size = budget /\ m.id = history[n].id /\ m.role = history[n].role
    BY <1>1, <2>1, <2>2 DEF ToldMessage
  <2>4. FitHistoryToBudget(history, budget) = <<m>>
    BY <1>6, <1>10, <2>1, <2>2
  <2>5. <<m>> \in Seq(ToldMessage) /\ Len(<<m>>) = 1 /\ <<m>>[1] = m
    BY <2>3
  <2>6. SizeOf(<<m>>) = budget
    BY <2>3, SizeOfOne
  <2>7. \A i \in 1..1 : i = 1 /\ n - 1 + i = n
    BY <1>1
  <2>8. QED
    BY <1>1, <2>1, <2>3, <2>4, <2>5, <2>6, <2>7 DEF Fitted
<1>11. CASE ~(fitting = {0} /\ history # <<>>)
  <2>1. FitHistoryToBudget(history, budget) = Newest(history, best)
    BY <1>6, <1>11
  <2>2. best \in 0..n /\ SizeOf(Newest(history, best)) <= budget
    BY <1>4, <1>8
  <2>3. n # 0 => best # 0
    <3>1. ASSUME n # 0 PROVE best # 0
      <4>1. PICK k \in fitting : k # 0
        BY <1>1, <1>3, <1>9, <1>11, <3>1
      <4>2. k <= best /\ k \in 0..n
        BY <1>4, <1>8
      <4>3. QED
        BY <2>2, <4>1, <4>2
    <3>2. QED
      BY <3>1
  <2>4. PICK r : r = Newest(history, best)
    OBVIOUS
  <2>5. r \in Seq(ToldMessage) /\ Len(r) = best /\ \A i \in 1..best : r[i] = history[n - best + i]
    BY <1>1, <2>2, <2>4, NewestOf
  <2>6. SizeOf(r) \in Nat /\ SizeOf(r) <= budget
    BY <2>2, <2>4, <2>5, SizeOfHistory
  <2>7. Fitted(r, history, budget)
    BY <1>1, <2>2, <2>3, <2>5, <2>6 DEF Fitted
  <2>8. QED
    BY <2>1, <2>4, <2>7
<1>12. QED
  BY <1>10, <1>11

Memories == [id : 0..MaxQuestions, cut : BOOLEAN]

\* The memory is the ledger of the last message that has one.
LEMMA MemoryOf ==
    ASSUME HistoryBoundsAssumption, NEW history \in Seq(ToldMessage)
    PROVE  /\ MemoryIn(history) \in Memories
           /\ (\A i \in 1..Len(history) : history[i].grid = "none") => MemoryIn(history) = NoMemory
           /\ \A m \in 1..Len(history) :
                 history[m].grid # "none"
                 /\ (\A k \in 1..Len(history) : history[k].grid # "none" => k <= m)
                 => MemoryIn(history) = [id |-> history[m].id, cut |-> history[m].grid = "huge"]
<1>1. PICK n \in Nat : n = Len(history) /\ DOMAIN history = 1..n
                       /\ \A i \in 1..n : history[i] \in ToldMessage
  BY LenProperties
<1> DEFINE ledgers == {i \in 1..n : history[i].grid # "none"}
           last == CHOOSE i \in ledgers : \A j \in ledgers : j <= i
<1>2. MemoryIn(history) = IF ledgers = {} THEN NoMemory
                          ELSE [id |-> history[last].id, cut |-> history[last].grid = "huge"]
  BY <1>1 DEF MemoryIn
<1>3. NoMemory \in Memories
  BY DEF NoMemory, Memories, HistoryBoundsAssumption
<1>4. CASE ledgers = {}
  BY <1>1, <1>2, <1>3, <1>4
<1>5. CASE ledgers # {}
  <2>1. ledgers \subseteq 0..n /\ \A i \in ledgers : i \in 1..n /\ history[i].grid # "none"
    OBVIOUS
  <2>2. \A i \in 1..n : history[i].grid # "none" => i \in ledgers
    OBVIOUS
  <2> HIDE DEF ledgers
  <2>3. \E j \in ledgers : \A k \in ledgers : k <= j
    BY <1>1, <1>5, <2>1, Largest
  <2>4. last \in ledgers /\ \A j \in ledgers : j <= last
    BY <2>3
  <2> HIDE DEF last
  <2>5. last \in 1..n /\ history[last] \in ToldMessage
    BY <1>1, <2>1, <2>4
  <2>6. MemoryIn(history) = [id |-> history[last].id, cut |-> history[last].grid = "huge"]
    BY <1>2, <1>5
  <2>7. MemoryIn(history) \in Memories
    BY <2>5, <2>6 DEF ToldMessage, Memories, HistoryBoundsAssumption
  <2>8. ASSUME NEW m \in 1..n, history[m].grid # "none",
               \A k \in 1..n : history[k].grid # "none" => k <= m
        PROVE  m = last
    <3>1. m \in ledgers /\ last <= m /\ m <= last
      BY <2>1, <2>2, <2>4, <2>5, <2>8
    <3>2. QED
      BY <2>5, <3>1
  <2>9. ~\A i \in 1..n : history[i].grid = "none"
    BY <2>1, <2>4
  <2>10. QED
    BY <1>1, <2>6, <2>7, <2>8, <2>9
<1>6. QED
  BY <1>4, <1>5

\* It leaves a budget.
LEMMA BudgetLeft ==
    ASSUME HistoryBoundsAssumption, NEW memory \in Memories
    PROVE  MemorySize(memory) \in 0..TokenBudget
<1>1. MemoryLimit \in 0..TokenBudget
  BY DEF MemoryLimit, HistoryBoundsAssumption
<1>2. QED
  BY <1>1 DEF MemorySize, Memories, NoMemory, HistoryBoundsAssumption

\* The end of a sequence is a suffix of it.
LEMMA SuffixOf ==
    ASSUME NEW S, NEW s \in Seq(S), NEW t \in Seq(S), Len(s) <= Len(t),
           \A i \in 1..Len(s) : s[i] = t[Len(t) - Len(s) + i]
    PROVE  IsSuffix(s, t)
<1>1. PICK m \in Nat, n \in Nat :
        m = Len(s) /\ n = Len(t) /\ m <= n /\ s \in [1..m -> S] /\ t \in [1..n -> S]
  BY LenProperties
<1>2. PICK a, b : a = Reverse(s) /\ b = Reverse(t)
  OBVIOUS
<1>3. a = [i \in 1..m |-> s[(m - i) + 1]] /\ b = [i \in 1..n |-> t[(n - i) + 1]]
  BY <1>1, <1>2 DEF Reverse
<1>4. a \in [1..m -> S] /\ b \in [1..n -> S]
  BY <1>1, <1>3
<1>5. a \in Seq(S) /\ b \in Seq(S) /\ Len(a) = m /\ Len(b) = n
  <2>0. \A k \in Nat : [1..k -> S] \subseteq Seq(S)
    OBVIOUS
  <2>1. a \in Seq(S) /\ b \in Seq(S)
    BY <1>1, <1>4, <2>0
  <2>2. DOMAIN a = 1..m /\ DOMAIN b = 1..n
    BY <1>4
  <2>3. QED
    BY <1>1, <2>1, <2>2, LenProperties
<1>6. \A i \in 1..m : a[i] = b[i]
  <2>1. ASSUME NEW i \in 1..m PROVE a[i] = b[i]
    <3>1. m - i + 1 \in 1..m /\ n - m + (m - i + 1) = n - i + 1 /\ i \in 1..n
      BY <1>1
    <3>2. s[m - i + 1] = t[n - i + 1]
      BY <1>1, <3>1
    <3>3. QED
      BY <1>3, <3>1, <3>2
  <2>2. QED
    BY <2>1
<1>7. \A i \in 1..m : a[i] \in S /\ b[i] \in S
  BY <1>4, <1>6
<1>8. SubSeq(a, 1, m) = SubSeq(b, 1, m)
  <2>1. SubSeq(a, 1, m) = [i \in 1..m |-> a[i]]
    BY <1>1, <1>5, <1>7, SubSeqProperties
  <2>2. SubSeq(b, 1, m) = [i \in 1..m |-> b[i]]
    BY <1>1, <1>5, <1>7, SubSeqProperties
  <2>3. QED
    BY <1>6, <2>1, <2>2
<1>9. QED
  BY <1>1, <1>2, <1>5, <1>8 DEF IsSuffix, IsPrefix

\* What a question is sent with.
LEMMA TrimOf ==
    ASSUME HistoryBoundsAssumption, NEW purpose, NEW messages \in Seq(ShownMessage)
    PROVE  LET history == BuildModelHistory(messages)
               request == TrimHistoryForModel(purpose, history)
           IN /\ request = [purpose |-> purpose, memory |-> request.memory, recent |-> request.recent]
              /\ request.memory = MemoryIn(history) /\ request.memory \in Memories
              /\ Fitted(request.recent, history, TokenBudget - MemorySize(request.memory))
              /\ TokenBudget - MemorySize(request.memory) \in Nat
<1>1. PICK history \in Seq(ToldMessage) : history = BuildModelHistory(messages)
  BY HistoryOf
<1>2. PICK memory \in Memories : memory = MemoryIn(history)
  BY <1>1, MemoryOf
<1>3. PICK budget \in Nat : budget = TokenBudget - MemorySize(memory)
  <2>1. MemorySize(memory) \in 0..TokenBudget
    BY BudgetLeft
  <2>2. TokenBudget - MemorySize(memory) \in Nat
    BY <2>1 DEF HistoryBoundsAssumption
  <2>3. QED
    BY <2>2
<1>4. Fitted(FitHistoryToBudget(history, budget), history, budget)
  BY FitOf
<1>5. TrimHistoryForModel(purpose, history) =
          [purpose |-> purpose, memory |-> memory, recent |-> FitHistoryToBudget(history, budget)]
  BY <1>2, <1>3 DEF TrimHistoryForModel, LatestMemory
<1>6. QED
  BY <1>1, <1>2, <1>3, <1>4, <1>5

Purposes == {"none", "new", "continue", "voice"}
ToldTyped ==
    /\ told \in [purpose : Purposes, memory : Memories, recent : Seq(ToldMessage)]
    /\ Len(told.recent) <= BrowserLimit

\* The invariant: every list holds messages, of which only answers are stopped; an answer is
\* only expected when there is a question, or an answer to go on with; and what the running
\* question was sent with is what the screen gives.
HistoryInv ==
    /\ guest \in BOOLEAN /\ questions \in 0..MaxQuestions
    /\ shown \in Seq(ShownMessage) /\ kept \in Seq(ShownMessage)
    /\ ToldTyped
    /\ told.purpose \in {"new", "continue"} => shown # <<>>
    /\ told.purpose = "continue" => \E i \in DOMAIN shown : shown[i].role = "assistant"
    /\ told.purpose = "new" => told = TrimHistoryForModel("new", BuildModelHistory(shown))

LEMMA NothingToldTyped ==
    ASSUME HistoryBoundsAssumption
    PROVE  NothingTold \in [purpose : Purposes, memory : Memories, recent : Seq(ToldMessage)]
           /\ NothingTold.recent = <<>> /\ NothingTold.purpose = "none"
<1>1. NoMemory \in Memories
  BY DEF NoMemory, Memories, HistoryBoundsAssumption
<1>2. <<>> \in Seq(ToldMessage)
  BY EmptySeq
<1>3. QED
  BY <1>1, <1>2 DEF NothingTold, Purposes

LEMMA HistoryInvInit ==
    ASSUME HistoryBoundsAssumption, ModelHistoryInit
    PROVE  HistoryInv
<1>1. <<>> \in Seq(ShownMessage)
  BY EmptySeq
<1>2. ToldTyped
  BY NothingToldTyped DEF ModelHistoryInit, ToldTyped, HistoryBoundsAssumption
<1>3. QED
  BY <1>1, <1>2, NothingToldTyped DEF ModelHistoryInit, HistoryInv, HistoryBoundsAssumption

\* A request made from messages keeps the part of the invariant that is about it.
LEMMA AskKeeps ==
    ASSUME HistoryBoundsAssumption, NEW purpose \in {"new", "continue"},
           NEW messages \in Seq(ShownMessage), messages # <<>>, Ask(purpose, messages)
    PROVE  /\ shown' \in Seq(ShownMessage) /\ shown' # <<>> /\ ToldTyped'
           /\ shown' = messages /\ told'.purpose = purpose
           /\ told'.purpose = "new" => told' = TrimHistoryForModel("new", BuildModelHistory(shown'))
<1>1. PICK history \in Seq(ToldMessage) : history = BuildModelHistory(messages)
                                          /\ Len(history) \in Nat /\ Len(history) <= BrowserLimit
  BY HistoryOf
<1>2. PICK request : request = TrimHistoryForModel(purpose, history)
  OBVIOUS
<1>3. /\ request = [purpose |-> purpose, memory |-> request.memory, recent |-> request.recent]
      /\ request.memory \in Memories /\ Fitted(request.recent, history, TokenBudget - MemorySize(request.memory))
  BY <1>1, <1>2, TrimOf
<1>4. request \in [purpose : Purposes, memory : Memories, recent : Seq(ToldMessage)]
  BY <1>3 DEF Fitted, Purposes
<1>5. Len(request.recent) <= BrowserLimit /\ request.purpose = purpose
  BY <1>1, <1>3 DEF Fitted, HistoryBoundsAssumption
<1>6. shown' = messages /\ told' = request
  BY <1>1, <1>2 DEF Ask
<1>7. QED
  BY <1>1, <1>2, <1>4, <1>5, <1>6 DEF ToldTyped

\* The rows a conversation is restored with are messages.
LEMMA ConversationTyped ==
    ASSUME HistoryBoundsAssumption, kept \in Seq(ShownMessage), NEW messages \in Seq(ShownMessage)
    PROVE  ConversationOf(BuildModelHistory(messages)) \in Seq(ShownMessage)
<1>1. PICK history \in Seq(ToldMessage) : history = BuildModelHistory(messages)
  BY HistoryOf
<1>2. PICK n \in Nat : n = Len(history) /\ history \in [1..n -> ToldMessage]
  BY LenProperties
<1>3. Restored(history) \in [1..n -> ShownMessage]
  BY <1>2 DEF Restored, HistoryMessage, ToldMessage, ShownMessage, Grids
<1>4. Restored(history) \in Seq(ShownMessage)
  <2>1. \A k \in Nat : [1..k -> ShownMessage] \subseteq Seq(ShownMessage)
    OBVIOUS
  <2>2. QED
    BY <1>2, <1>3, <2>1
<1>5. QED
  BY <1>1, <1>4 DEF ConversationOf

\* A message added at the end, or changed where it is.
LEMMA MessageAdded ==
    ASSUME NEW S, NEW s \in Seq(S), NEW m \in S
    PROVE  Append(s, m) \in Seq(S) /\ Append(s, m) # <<>>
<1>1. Append(s, m) \in Seq(S) /\ Len(Append(s, m)) = Len(s) + 1 /\ Len(s) \in Nat
  BY AppendProperties, LenProperties
<1>2. QED
  BY <1>1
LEMMA MessageChanged ==
    ASSUME NEW S, NEW s \in Seq(S), NEW i, NEW m, i \in DOMAIN s => m \in S
    PROVE  [s EXCEPT ![i] = m] \in Seq(S) /\ (s # <<>> => [s EXCEPT ![i] = m] # <<>>)
<1>1. PICK n \in Nat : n = Len(s) /\ s \in [1..n -> S] /\ DOMAIN s = 1..n
  BY LenProperties
<1>2. PICK c : c = [s EXCEPT ![i] = m]
  OBVIOUS
<1>3. c \in [1..n -> S]
  BY <1>1, <1>2
<1>4. c \in Seq(S) /\ Len(c) = n
  <2>1. c \in Seq(S)
    BY <1>1, <1>3, SeqDef
  <2>2. QED
    BY <1>1, <1>3, <2>1, LenProperties
<1>5. QED
  BY <1>1, <1>2, <1>4

\* The last answer is one of the messages.
LEMMA LastAnswerOf ==
    ASSUME shown \in Seq(ShownMessage), \E i \in DOMAIN shown : shown[i].role = "assistant"
    PROVE  LastAnswer \in 1..Len(shown) /\ LastAnswer \in DOMAIN shown
           /\ shown[LastAnswer].role = "assistant"
<1>1. PICK n \in Nat : n = Len(shown) /\ DOMAIN shown = 1..n
  BY LenProperties
<1> DEFINE answers == {i \in 1..n : shown[i].role = "assistant"}
<1>2. answers \subseteq 0..n /\ answers # {}
  BY <1>1
<1>3. PICK last \in answers : \A j \in answers : j <= last
  <2> HIDE DEF answers
  <2> QED BY <1>1, <1>2, Largest
<1>4. \E i \in DOMAIN shown :
         shown[i].role = "assistant" /\ \A j \in DOMAIN shown : shown[j].role = "assistant" => j <= i
  BY <1>1, <1>3
<1>5. LastAnswer \in DOMAIN shown /\ shown[LastAnswer].role = "assistant"
  BY <1>4 DEF LastAnswer
<1>6. QED
  BY <1>1, <1>5

LEMMA SendQuestionKeeps ==
    ASSUME HistoryBoundsAssumption, HistoryInv, NEW words \in Sizes, SendQuestion(words)
    PROVE  HistoryInv'
<1> DEFINE question == HistoryMessage(questions + 1, "user", words, "none", FALSE)
<1>1. question \in ShownMessage /\ questions + 1 \in 0..MaxQuestions
  BY DEF HistoryInv, SendQuestion, HistoryMessage, ShownMessage, Roles, Grids, HistoryBoundsAssumption
<1>2. PICK messages : messages = Append(shown, question)
  OBVIOUS
<1> HIDE DEF question
<1>3. messages \in Seq(ShownMessage) /\ messages # <<>>
  BY <1>1, <1>2, MessageAdded DEF HistoryInv
<1>4. /\ Ask("new", messages) /\ questions' = questions + 1 /\ guest' = guest
      /\ kept' = Append(ConversationOf(BuildModelHistory(messages)), question)
  BY <1>2 DEF SendQuestion, question
<1>5. kept' \in Seq(ShownMessage)
  <2>1. ConversationOf(BuildModelHistory(messages)) \in Seq(ShownMessage)
    BY <1>3, ConversationTyped DEF HistoryInv
  <2>2. QED
    BY <1>1, <1>4, <2>1, MessageAdded
<1>6. /\ shown' \in Seq(ShownMessage) /\ shown' # <<>> /\ ToldTyped' /\ told'.purpose = "new"
      /\ told' = TrimHistoryForModel("new", BuildModelHistory(shown'))
  BY <1>3, <1>4, AskKeeps
<1>7. QED
  BY <1>1, <1>4, <1>5, <1>6 DEF HistoryInv

LEMMA ResendKeeps ==
    ASSUME HistoryBoundsAssumption, HistoryInv, NEW i \in DOMAIN shown, Resend(i)
    PROVE  HistoryInv'
<1>1. i \in 1..Len(shown) /\ Len(shown) \in Nat /\ Len(kept) \in Nat
  BY LenProperties DEF HistoryInv
<1>2. PICK messages : messages = SubSeq(shown, 1, i)
  OBVIOUS
<1>3. messages \in Seq(ShownMessage) /\ messages # <<>>
  <2>1. \A k \in 1..i : shown[k] \in ShownMessage
    BY <1>1, LenProperties DEF HistoryInv
  <2>2. SubSeq(shown, 1, i) \in Seq(ShownMessage) /\ Len(SubSeq(shown, 1, i)) = i
    BY <1>1, <2>1, SubSeqProperties
  <2>3. QED
    BY <1>1, <1>2, <2>2
<1>4. PICK row \in DOMAIN kept : kept' = SubSeq(kept, 1, row)
  BY DEF Resend
<1>5. kept' \in Seq(ShownMessage)
  <2>1. row \in 1..Len(kept) /\ \A k \in 1..row : kept[k] \in ShownMessage
    BY <1>1, LenProperties DEF HistoryInv
  <2>2. SubSeq(kept, 1, row) \in Seq(ShownMessage)
    BY <1>1, <2>1, SubSeqProperties
  <2>3. QED
    BY <1>4, <2>2
<1>6. Ask("new", messages) /\ UNCHANGED <<guest, questions>>
  BY <1>2 DEF Resend
<1>7. /\ shown' \in Seq(ShownMessage) /\ shown' # <<>> /\ ToldTyped' /\ told'.purpose = "new"
      /\ told' = TrimHistoryForModel("new", BuildModelHistory(shown'))
  BY <1>3, <1>6, AskKeeps
<1>8. QED
  BY <1>5, <1>6, <1>7 DEF HistoryInv

LEMMA RetryKeeps ==
    ASSUME HistoryBoundsAssumption, HistoryInv, RetryStoppedResponse
    PROVE  HistoryInv'
<1>1. \A i \in DOMAIN shown : shown[i].stopped => shown[i].role = "assistant"
  BY LenProperties DEF HistoryInv, ShownMessage
<1>2. LastAnswer \in 1..Len(shown) /\ LastAnswer > 1 /\ Len(shown) \in Nat /\ DOMAIN shown = 1..Len(shown)
  BY <1>1, LastAnswerOf, LenProperties DEF HistoryInv, RetryStoppedResponse
<1>3. LastAnswer - 1 \in DOMAIN shown /\ Resend(LastAnswer - 1)
  BY <1>2 DEF RetryStoppedResponse
<1>4. QED
  BY <1>3, ResendKeeps

LEMMA ContinueKeeps ==
    ASSUME HistoryBoundsAssumption, HistoryInv, ContinueLastAnswer
    PROVE  HistoryInv'
<1>1. shown \in Seq(ShownMessage) /\ \A i \in DOMAIN shown : shown[i] \in ShownMessage
  BY LenProperties DEF HistoryInv
<1>2. PICK answer \in DOMAIN shown : shown[answer].stopped /\ shown[answer].role = "assistant"
  BY <1>1 DEF ContinueLastAnswer, ShownMessage
<1>3. LastAnswer \in DOMAIN shown /\ shown[LastAnswer] \in ShownMessage
  BY <1>1, <1>2, LastAnswerOf
<1>4. PICK last, resumed : last = LastAnswer /\ resumed = [shown[last] EXCEPT !.stopped = FALSE]
  OBVIOUS
<1>5. resumed \in ShownMessage /\ resumed.role = shown[last].role
  BY <1>3, <1>4 DEF ShownMessage
<1>6. PICK messages : messages = [shown EXCEPT ![last] = resumed]
  OBVIOUS
<1>7. messages \in Seq(ShownMessage) /\ messages # <<>> /\ DOMAIN messages = DOMAIN shown
  <2>1. shown # <<>>
    BY <1>2
  <2>2. QED
    BY <1>1, <1>5, <1>6, <2>1, MessageChanged
<1>8. messages[answer].role = "assistant" /\ answer \in DOMAIN messages
  BY <1>2, <1>5, <1>6, <1>7
<1>9. /\ Ask("continue", messages) /\ kept' = ConversationOf(BuildModelHistory(messages))
      /\ UNCHANGED <<guest, questions>>
  BY <1>4, <1>6 DEF ContinueLastAnswer
<1>10. kept' \in Seq(ShownMessage)
  BY <1>7, <1>9, ConversationTyped DEF HistoryInv
<1>11. /\ shown' = messages /\ ToldTyped' /\ told'.purpose = "continue"
  BY <1>7, <1>9, AskKeeps
<1>12. QED
  BY <1>7, <1>8, <1>9, <1>10, <1>11 DEF HistoryInv

LEMMA AnswerKeeps ==
    ASSUME HistoryBoundsAssumption, HistoryInv, NEW words \in Nat, NEW grid \in Grids,
           NEW stopped \in BOOLEAN, AnswerCame(words, grid, stopped)
    PROVE  HistoryInv'
<1> DEFINE answer == HistoryMessage(shown[Len(shown)].id, "assistant", words, grid, stopped)
<1>1. shown \in Seq(ShownMessage) /\ shown # <<>> /\ \A i \in DOMAIN shown : shown[i] \in ShownMessage
  BY LenProperties DEF HistoryInv, AnswerCame
<1>2. answer \in ShownMessage
  <2>1. Len(shown) \in DOMAIN shown
    BY <1>1, LenProperties
  <2>2. shown[Len(shown)].id \in 1..MaxQuestions
    BY <1>1, <2>1 DEF ShownMessage
  <2>3. QED
    BY <2>2 DEF HistoryMessage, ShownMessage, Roles
<1>3. kept' = Append(kept, answer) /\ told' = NothingTold /\ UNCHANGED <<guest, questions>>
  BY DEF AnswerCame
<1>4. kept' \in Seq(ShownMessage)
  <2> HIDE DEF answer
  <2> QED BY <1>2, <1>3, MessageAdded DEF HistoryInv
<1>5. shown' \in Seq(ShownMessage)
  <2>1. CASE told.purpose = "new"
    <3>1. shown' = Append(shown, answer)
      BY <2>1 DEF AnswerCame
    <3> HIDE DEF answer
    <3>2. QED
      BY <1>1, <1>2, <3>1, MessageAdded
  <2>2. CASE told.purpose = "continue"
    <3>1. LastAnswer \in DOMAIN shown /\ shown[LastAnswer].role = "assistant"
      BY <1>1, <2>2, LastAnswerOf DEF HistoryInv
    <3>2. PICK last, grown :
            /\ last = LastAnswer
            /\ grown = Resumed(shown[last], grid, stopped)
      OBVIOUS
    <3>3. grown \in ShownMessage
      BY <1>1, <3>1, <3>2 DEF ShownMessage, Resumed
    <3>4. shown' = [shown EXCEPT ![last] = grown]
      BY <2>2, <3>2 DEF AnswerCame
    <3>5. QED
      BY <1>1, <3>3, <3>4, MessageChanged
  <2>3. QED
    BY <2>1, <2>2 DEF AnswerCame
<1>6. ToldTyped' /\ told'.purpose = "none"
  BY <1>3, NothingToldTyped DEF ToldTyped, HistoryBoundsAssumption
<1>7. QED
  BY <1>3, <1>4, <1>5, <1>6 DEF HistoryInv

LEMMA VoiceKeeps ==
    ASSUME HistoryBoundsAssumption, HistoryInv, SeedLiveVoice
    PROVE  HistoryInv'
<1>1. PICK history \in Seq(ToldMessage) : history = BuildModelHistory(shown) /\ Len(history) <= BrowserLimit
  BY HistoryOf DEF HistoryInv
<1>2. told' = [purpose |-> "voice", memory |-> NoMemory, recent |-> history]
  BY <1>1 DEF SeedLiveVoice
<1>3. NoMemory \in Memories
  BY DEF NoMemory, Memories, HistoryBoundsAssumption
<1>4. ToldTyped' /\ told'.purpose = "voice"
  BY <1>1, <1>2, <1>3 DEF ToldTyped, Purposes
<1>5. QED
  BY <1>4 DEF HistoryInv, SeedLiveVoice

\* Nothing is told, or nothing of it changes.
LEMMA QuietKeeps ==
    ASSUME HistoryBoundsAssumption, HistoryInv,
           ReloadMessages \/ ConversationGoes \/ EndVoiceSession \/ UNCHANGED modelHistoryVars
    PROVE  HistoryInv'
<1>1. <<>> \in Seq(ShownMessage)
  BY EmptySeq
<1>2. CASE ReloadMessages
  BY <1>2, NothingToldTyped DEF HistoryInv, ReloadMessages, ToldTyped
<1>3. CASE ConversationGoes
  BY <1>1, <1>3, NothingToldTyped DEF HistoryInv, ConversationGoes, ToldTyped
<1>4. CASE EndVoiceSession
  <2>1. ToldTyped' /\ told'.purpose = "none"
    BY <1>4, NothingToldTyped DEF EndVoiceSession, ToldTyped, HistoryBoundsAssumption
  <2>2. QED
    BY <1>4, <2>1 DEF HistoryInv, EndVoiceSession
<1>5. CASE UNCHANGED modelHistoryVars
  BY <1>5 DEF HistoryInv, ToldTyped, modelHistoryVars
<1>6. QED
  BY <1>2, <1>3, <1>4, <1>5

LEMMA HistoryInvKept ==
    ASSUME HistoryBoundsAssumption, HistoryInv, [ModelHistoryNext]_modelHistoryVars
    PROVE  HistoryInv'
<1>1. CASE ContinueLastAnswer
  BY <1>1, ContinueKeeps
<1>2. CASE RetryStoppedResponse
  BY <1>2, RetryKeeps
<1>3. CASE ReloadMessages \/ ConversationGoes \/ EndVoiceSession \/ UNCHANGED modelHistoryVars
  BY <1>3, QuietKeeps
<1>4. CASE SeedLiveVoice
  BY <1>4, VoiceKeeps
<1>5. CASE \E words \in Sizes : SendQuestion(words)
  BY <1>5, SendQuestionKeeps
<1>6. CASE \E i \in DOMAIN shown : Resend(i)
  BY <1>6, ResendKeeps
<1>7. CASE \E words \in Sizes, grid \in Grids : AnswerEnds(words, grid)
  <2>1. PICK words \in Nat, grid \in Grids : AnswerCame(words, grid, FALSE)
    BY <1>7 DEF AnswerEnds, HistoryBoundsAssumption
  <2>2. QED
    BY <2>1, AnswerKeeps
<1>8. CASE \E words \in Sizes \union {0} : AnswerStops(words)
  <2>1. PICK words \in Nat : AnswerCame(words, "none", TRUE)
    BY <1>8 DEF AnswerStops, HistoryBoundsAssumption
  <2>2. "none" \in Grids
    BY DEF Grids
  <2>3. QED
    BY <2>1, <2>2, AnswerKeeps
<1>9. QED
  BY <1>1, <1>2, <1>3, <1>4, <1>5, <1>6, <1>7, <1>8 DEF ModelHistoryNext

\* The messages before the last are what the history is made of.
LEMMA ReachOf ==
    ASSUME HistoryBoundsAssumption, shown \in Seq(ShownMessage)
    PROVE  LET history == BuildModelHistory(shown)
           IN /\ BeforeThisTurn \in Seq(ShownMessage) /\ Len(BeforeThisTurn) \in Nat
              /\ history \in Seq(ToldMessage) /\ Len(history) \in 0..Len(BeforeThisTurn)
              /\ Len(BeforeThisTurn) # 0 => Len(history) # 0
              /\ InReach \in Seq(ShownMessage) /\ Len(InReach) = Len(history)
              /\ \A i \in 1..Len(history) :
                    /\ history[i] = Told(InReach[i])
                    /\ InReach[i] = BeforeThisTurn[Len(BeforeThisTurn) - Len(history) + i]
<1>1. PICK said \in Seq(ShownMessage) : said = BeforeThisTurn /\ said = SaidBefore(shown)
  BY ToldBeforeOf DEF SaidBefore, BeforeThisTurn
<1>2. PICK all \in Seq(ToldMessage) : /\ all = ToldBefore(shown) /\ Len(all) = Len(said)
                                      /\ \A j \in 1..Len(said) : all[j] = Told(said[j])
  BY <1>1, ToldBeforeOf
<1>3. PICK history \in Seq(ToldMessage) :
        /\ history = BuildModelHistory(shown) /\ Len(history) \in 0..Len(all)
        /\ Len(history) = Least(BrowserLimit, Len(all))
        /\ \A i \in 1..Len(history) : history[i] = all[Len(all) - Len(history) + i]
        /\ all # <<>> => history # <<>>
  BY <1>2, HistoryOf
<1>4. PICK n \in Nat, k \in Nat : n = Len(said) /\ k = Len(history) /\ k <= n
  BY <1>1, <1>2, <1>3, LenProperties
<1>5. InReach = Newest(said, k)
  BY <1>1, <1>2, <1>3, <1>4 DEF InReach
<1>6. /\ InReach \in Seq(ShownMessage) /\ Len(InReach) = k
      /\ \A i \in 1..k : InReach[i] = said[n - k + i]
  <2>1. k \in 0..Len(said)
    BY <1>4
  <2>2. /\ Newest(said, k) \in Seq(ShownMessage) /\ Len(Newest(said, k)) = k
        /\ \A i \in 1..k : Newest(said, k)[i] = said[Len(said) - k + i]
    BY <1>1, <2>1, NewestOf
  <2>3. QED
    BY <1>4, <1>5, <2>2
<1>7. \A i \in 1..k : history[i] = Told(InReach[i])
  <2>1. ASSUME NEW i \in 1..k PROVE history[i] = Told(InReach[i])
    <3>1. n - k + i \in 1..n
      BY <1>4
    <3>2. QED
      BY <1>2, <1>3, <1>4, <1>6, <3>1
  <2>2. QED
    BY <2>1
<1>8. n # 0 => k # 0
  BY <1>2, <1>3, <1>4, EmptySeq
<1>9. QED
  BY <1>1, <1>3, <1>4, <1>6, <1>7, <1>8

\* The newest messages, none left out in between.
LEMMA NewestTold ==
    ASSUME HistoryBoundsAssumption, HistoryInv, told.purpose = "new"
    PROVE  NewestMessagesTold /\ WithinBudget
<1>1. PICK history \in Seq(ToldMessage), before \in Seq(ShownMessage) :
        /\ history = BuildModelHistory(shown) /\ before = BeforeThisTurn
        /\ Len(before) \in Nat /\ Len(history) \in 0..Len(before)
        /\ Len(before) # 0 => Len(history) # 0
        /\ InReach \in Seq(ShownMessage) /\ Len(InReach) = Len(history)
        /\ \A i \in 1..Len(history) :
              /\ history[i] = Told(InReach[i]) /\ InReach[i] = before[Len(before) - Len(history) + i]
  BY ReachOf DEF HistoryInv
<1>2. /\ told = [purpose |-> "new", memory |-> told.memory, recent |-> told.recent]
      /\ told.memory \in Memories
      /\ Fitted(told.recent, history, TokenBudget - MemorySize(told.memory))
  BY <1>1, TrimOf DEF HistoryInv
<1>3. WithinBudget
  <2>1. MemorySize(told.memory) \in 0..TokenBudget
    BY <1>2, BudgetLeft
  <2>2. SizeOf(told.recent) \in Nat /\ SizeOf(told.recent) <= TokenBudget - MemorySize(told.memory)
    BY <1>2 DEF Fitted
  <2>3. QED
    BY <2>1, <2>2 DEF WithinBudget, HistoryBoundsAssumption
<1>4. PICK recent \in Seq(ToldMessage) : recent = told.recent
  BY <1>2 DEF Fitted
<1>5. PICK r \in Nat, h \in Nat, b \in Nat :
        /\ r = Len(recent) /\ h = Len(history) /\ b = Len(before) /\ r <= h /\ h <= b
        /\ (b # 0 => r # 0)
  BY <1>1, <1>2, <1>4 DEF Fitted
<1>6. ASSUME NEW i \in 1..r
      PROVE  recent[i].id = before[b - r + i].id /\ recent[i].role = before[b - r + i].role
  <2>1. PICK j \in 1..h : j = h - r + i /\ b - h + j = b - r + i
    <3>1. h - r + i \in 1..h /\ b - h + (h - r + i) = b - r + i
      BY <1>5
    <3>2. QED
      BY <3>1
  <2>2. recent[i].id = history[j].id /\ recent[i].role = history[j].role
    BY <1>2, <1>4, <1>5, <2>1 DEF Fitted
  <2>3. history[j] = Told(InReach[j]) /\ InReach[j] = before[b - r + i]
    BY <1>1, <1>5, <2>1
  <2>4. InReach[j] \in ShownMessage
    BY <1>1, <1>5, LenProperties
  <2>5. QED
    BY <2>2, <2>3, <2>4, ToldOf
<1> DEFINE Names == (1..MaxQuestions) \X Roles
<1>7. \A i \in 1..r : recent[i] \in ToldMessage
  BY <1>4, <1>5, LenProperties
<1>8. \A i \in 1..b : before[i] \in ShownMessage
  BY <1>1, <1>5, LenProperties
<1>9. PICK x, y : x = IdsOf(recent) /\ y = IdsOf(before)
  OBVIOUS
<1>10. /\ x = [i \in 1..r |-> <<recent[i].id, recent[i].role>>]
       /\ y = [i \in 1..b |-> <<before[i].id, before[i].role>>]
  BY <1>1, <1>4, <1>5, <1>9, LenProperties DEF IdsOf
<1>11. x \in [1..r -> Names] /\ y \in [1..b -> Names]
  BY <1>7, <1>8, <1>10 DEF ToldMessage, ShownMessage
<1> HIDE DEF Names
<1>12. \A k \in Nat : [1..k -> Names] \subseteq Seq(Names)
  OBVIOUS
<1>13. x \in Seq(Names) /\ y \in Seq(Names)
  BY <1>5, <1>11, <1>12
<1>14. Len(x) = r /\ Len(y) = b
  <2>1. DOMAIN x = 1..r /\ DOMAIN y = 1..b
    BY <1>10
  <2>2. QED
    BY <1>5, <1>13, <2>1, LenProperties
<1>15. \A i \in 1..r : x[i] = y[b - r + i]
  <2>1. \A i \in 1..r : b - r + i \in 1..b
    BY <1>5
  <2>2. QED
    BY <1>6, <1>10, <2>1
<1>16. IsSuffix(x, y)
  <2>1. Len(x) <= Len(y) /\ \A i \in 1..Len(x) : x[i] = y[Len(y) - Len(x) + i]
    BY <1>5, <1>14, <1>15
  <2>2. QED
    BY <1>13, <2>1, SuffixOf
<1>17. before # <<>> => recent # <<>>
  BY <1>1, <1>4, <1>5, EmptySeq
<1>18. QED
  BY <1>1, <1>3, <1>4, <1>9, <1>16, <1>17 DEF NewestMessagesTold

\* The last grid on the screen, within the browser's limit, is the memory.
LEMMA LastGridTold ==
    ASSUME HistoryBoundsAssumption, HistoryInv, told.purpose = "new"
    PROVE  LastGridRemembered
<1>1. PICK history \in Seq(ToldMessage), reach \in Seq(ShownMessage) :
        /\ history = BuildModelHistory(shown) /\ reach = InReach /\ Len(reach) = Len(history)
        /\ \A i \in 1..Len(history) : history[i] = Told(reach[i])
  BY ReachOf DEF HistoryInv
<1>2. PICK n \in Nat : n = Len(history) /\ DOMAIN reach = 1..n /\ \A i \in 1..n : reach[i] \in ShownMessage
  BY <1>1, LenProperties
<1>3. \A i \in 1..n : history[i].grid = reach[i].grid /\ history[i].id = reach[i].id
  BY <1>1, <1>2, ToldOf
<1>4. told.memory = MemoryIn(history)
  BY <1>1, TrimOf DEF HistoryInv
<1> DEFINE places == {i \in 1..n : reach[i].grid # "none"}
<1>5. PICK grids : grids = MembersAt(reach, places)
  OBVIOUS
<1>6. LastGridRemembered <=>
          Anchor(told) = IF grids = <<>> \/ Last(grids).grid = "huge" THEN 0 ELSE Last(grids).id
  BY <1>1, <1>2, <1>5 DEF LastGridRemembered
<1>7. places \cap 1..Len(reach) = places /\ places \subseteq 0..n
  BY <1>1, <1>2
<1>8. CASE places = {}
  <2>1. \A i \in 1..n : history[i].grid = "none"
    BY <1>3, <1>8
  <2>2. told.memory = NoMemory
    BY <1>1, <1>2, <1>4, <2>1, MemoryOf
  <2> HIDE DEF places
  <2>3. grids = <<>>
    BY <1>1, <1>5, <1>7, <1>8, LastMember
  <2>4. QED
    BY <1>6, <2>2, <2>3 DEF Anchor, NoMemory
<1>9. CASE places # {}
  <2>1. PICK m \in places : \A k \in places : k <= m
    <3> HIDE DEF places
    <3> QED BY <1>2, <1>7, <1>9, Largest
  <2>2. m \in 1..n /\ history[m].grid # "none" /\ \A k \in 1..n : history[k].grid # "none" => k <= m
    BY <1>3, <2>1
  <2>3. told.memory = [id |-> history[m].id, cut |-> history[m].grid = "huge"]
    BY <1>1, <1>2, <1>4, <2>2, MemoryOf
  <2>4. Len(grids) \in Nat \ {0} /\ grids[Len(grids)] = reach[m]
    <3> HIDE DEF places
    <3>1. m \in places \cap 1..Len(reach) /\ \A k \in places \cap 1..Len(reach) : k <= m
      BY <1>7, <2>1
    <3>2. QED
      BY <1>1, <1>5, <3>1, LastMember
  <2>5. grids # <<>> /\ Last(grids) = reach[m]
    BY <2>4, EmptySeq DEF Last
  <2>6. Anchor(told) = IF reach[m].grid = "huge" THEN 0 ELSE reach[m].id
    <3>1. told.memory.cut = (history[m].grid = "huge") /\ told.memory.id = history[m].id
      BY <2>3
    <3>2. history[m].grid = reach[m].grid /\ history[m].id = reach[m].id
      BY <1>3, <2>2
    <3>3. QED
      BY <3>1, <3>2, Zenon DEF Anchor
  <2>7. QED
    BY <1>6, <2>5, <2>6
<1>10. QED
  BY <1>8, <1>9

LEMMA HistoryInvTyped ==
    ASSUME HistoryBoundsAssumption, HistoryInv
    PROVE  ModelHistoryTypeOK
<1>1. \A m \in Range(shown) \union Range(kept) : m \in ShownMessage
  BY LenProperties DEF HistoryInv, Range
<1>2. QED
  BY <1>1 DEF HistoryInv, ToldTyped, Memories, Purposes, ShownMessage, Roles, ModelHistoryTypeOK

\* The invariant holds of every behaviour.
THEOREM HistoryInvHolds == ModelHistorySpec => []HistoryInv
<1>1. ModelHistoryInit => HistoryInv
  BY HistoryBoundsAssumption, HistoryInvInit
<1>2. HistoryInv /\ [ModelHistoryNext]_modelHistoryVars => HistoryInv'
  BY HistoryBoundsAssumption, HistoryInvKept
<1>3. QED
  BY <1>1, <1>2, PTL DEF ModelHistorySpec

\* Type correctness of the conversation on the screen, its rows and what is told of it.
THEOREM ModelHistoryTypesHold == ModelHistorySpec => []ModelHistoryTypeOK
<1>1. HistoryInv => ModelHistoryTypeOK
  BY HistoryBoundsAssumption, HistoryInvTyped
<1>2. QED
  BY <1>1, HistoryInvHolds, PTL

\* trimHistoryForModel: whatever the budget and the sizes of the messages, a question is
\* sent with the newest of the messages the shopper saw before it, none left out in between,
\* within the budget, and with the ledger of the last grid within the browser's limit, also
\* after resends, reloads and restored conversations.
THEOREM QuestionsHaveTheirContext == ModelHistorySpec => []QuestionHasItsContext
<1>1. HistoryInv => QuestionHasItsContext
  BY HistoryBoundsAssumption, NewestTold, LastGridTold DEF QuestionHasItsContext
<1>2. QED
  BY <1>1, HistoryInvHolds, PTL

-----------------------------------------------------------------------------
(***************************************************************************)
(* The pictures of a message                                               *)
(***************************************************************************)
\* The files that fit are chosen ones.
LEMMA FittingOf ==
    ASSUME NEW chosen \in Seq(Pictures), Len(composer) < MaxCount, Len(composer) \in Nat,
           ImagesAssumption
    PROVE  FittingFiles(chosen) \in Seq(Pictures)
<1> DEFINE offered == Slice(chosen, MaxCount - Len(composer))
<1>1. offered \in Seq(Pictures)
  BY SliceOf DEF ImagesAssumption
<1>2. PICK n \in Nat : n = Len(offered) /\ offered \in [1..n -> Pictures]
  BY <1>1, LenProperties
<1> HIDE DEF offered
<1> DEFINE Fits(t, i) == WeightOf(PicsOf(composer) \o t) + Weight[offered[i]] <= MaxWeight
           Taken(t) == t = [i \in 0..n |->
                               IF i = 0 THEN <<>>
                               ELSE IF Fits(t[i - 1], i)
                                    THEN Append(t[i - 1], offered[i]) ELSE t[i - 1]]
           taken == CHOOSE t : Taken(t)
           fits == {x \in (1..n) \X Seq(Pictures) : Fits(x[2], x[1])}
<1>3. FittingFiles(chosen) = taken[n]
  BY <1>2 DEF FittingFiles, offered
<1>4. PICK f \in [0..n -> Seq(Pictures)] :
           f[0] = <<>> /\ \A i \in 1..n :
               f[i] = IF <<i, f[i - 1]>> \in fits
                      THEN Append(f[i - 1], offered[i]) ELSE f[i - 1]
  <2> HIDE DEF fits
  <2>1. PICK f : Built(f, Pictures, offered, fits)
    BY <1>1, Builds
  <2>2. QED
    BY <1>2, <2>1 DEF Built
<1> HIDE DEF Fits
<1>5. \A i \in 1..n : i - 1 \in 0..n /\ f[i - 1] \in Seq(Pictures)
  OBVIOUS
<1>6. \A i \in 1..n : <<i, f[i - 1]>> \in fits <=> Fits(f[i - 1], i)
  BY <1>5
<1>7. Taken(f)
  <2> HIDE DEF fits
  <2>1. \A i \in 1..n : f[i] = IF Fits(f[i - 1], i) THEN Append(f[i - 1], offered[i])
                               ELSE f[i - 1]
    BY <1>4, <1>6
  <2>2. \A i \in 0..n :
           f[i] = IF i = 0 THEN <<>>
                  ELSE IF Fits(f[i - 1], i) THEN Append(f[i - 1], offered[i]) ELSE f[i - 1]
    <3>1. \A i \in 0..n : i = 0 \/ i \in 1..n
      OBVIOUS
    <3>2. QED
      BY <1>4, <2>1, <3>1
  <2>3. QED
    BY <2>2
<1>8. Taken(taken)
  <2> HIDE DEF Taken
  <2> QED BY <1>7
<1>9. /\ taken[0] = <<>>
      /\ \A i \in 1..n : taken[i] \in {Append(taken[i - 1], offered[i]), taken[i - 1]}
  <2>1. PICK t : t = taken
    OBVIOUS
  <2>2. t = [i \in 0..n |->
                IF i = 0 THEN <<>>
                ELSE IF Fits(t[i - 1], i) THEN Append(t[i - 1], offered[i]) ELSE t[i - 1]]
    <3> HIDE DEF taken
    <3> QED BY <1>8, <2>1
  <2>3. t[0] = <<>> /\ \A i \in 1..n : t[i] \in {Append(t[i - 1], offered[i]), t[i - 1]}
    <3>1. 0 \in 0..n /\ \A i \in 1..n : i \in 0..n /\ i # 0
      OBVIOUS
    <3> HIDE DEF taken
    <3>2. t[0] = <<>>
      BY <2>2, <3>1
    <3>3. ASSUME NEW i \in 1..n
          PROVE  t[i] = IF Fits(t[i - 1], i) THEN Append(t[i - 1], offered[i]) ELSE t[i - 1]
      BY <2>2, <3>1
    <3>4. QED
      BY <3>2, <3>3
  <2> HIDE DEF taken
  <2>4. QED
    BY <2>1, <2>3
<1> HIDE DEF taken
<1>10. taken[n] \in Seq(Pictures)
  BY <1>2, <1>9, BuildsMembers
<1>11. QED
  BY <1>3, <1>10
-----------------------------------------------------------------------------
\* Parts and attachments: each names the file of its own picture, or none.  Nothing is
\* said of files once a message was told those of another.
HasOwnFile(p) == /\ p.file \in 0..Len(files)
                 /\ misnumbered \/ p.file = NoFile \/ files[p.file] = p.pic
OwnPart == {p \in Part : HasOwnFile(p)}
OwnAttachment == {p \in Attachment : HasOwnFile(p)}

\* A message on its way: the parts are those of its first attachments.
Outgoing ==
    {m \in [at : {"no", "preparing", "connecting", "sent", "over"},
            attachments : Seq(OwnAttachment), parts : Seq(OwnPart), restore : BOOLEAN,
            replaces : Seq(0..MaxSends), seen : Seq(Pictures)] :
        /\ Len(m.parts) <= Len(m.attachments)
        /\ \A i \in 1..Len(m.parts) : m.parts[i].pic = m.attachments[i].pic
        /\ m.at \in {"connecting", "sent"} => Len(m.parts) = Len(m.attachments)}

\* Messages of the screen and of the store, and what they show of the message that was sent.
MessageWithPics == [send : 0..MaxSends, role : {"user", "assistant"}, pics : Seq(OwnPart)]
OnScreenAs(pics, sent) ==
    /\ sent.at # "no"
    /\ \/ PicsOf(pics) = PicsOf(sent.attachments)
       \/ sent.at = "over" /\ PicsOf(pics) = PicsOf(StoredPics(sent.parts))
StoredAs(pics, sent) ==
    /\ sent.at = "over" /\ PicsOf(pics) = PicsOf(StoredPics(sent.parts))
    /\ misnumbered \/ sent.seen = PicsOf(sent.attachments)
ScreenMessage ==
    {m \in MessageWithPics : m.role = "user" /\ m.send # Older => OnScreenAs(m.pics, sending[m.send])}
StoredMessage ==
    {m \in MessageWithPics : m.role = "user" /\ m.send # Older => StoredAs(m.pics, sending[m.send])}

\* Pictures being read: of the composer, or of a message to send again.
ReadingInv ==
    /\ reading.for \in {"nothing", "composer", "resend"}
    /\ reading.at \in Nat /\ reading.send \in 0..MaxSends
    /\ reading.for = "composer" => reading.pics \in Seq(Pictures)
    /\ reading.for = "resend" => reading.pics \in Seq(OwnPart) /\ reading.at # 0
\* The inductive invariant.
ImagesInv ==
    /\ ReadingInv
    /\ composer \in Seq(OwnAttachment)
    /\ transcript \in Seq(ScreenMessage) /\ savedRows \in Seq(StoredMessage)
    /\ sending \in [Sends -> Outgoing]
    /\ busy \in 0..MaxSends /\ misnumbered \in BOOLEAN /\ reachable \in BOOLEAN
    /\ files \in Seq(Pictures) /\ Len(files) <= MaxFiles

\* What no step undoes: a message that is sent keeps its pictures, one that is over does
\* not change, files are only added.
SendingMoves ==
    \A s \in Sends : sending[s].at # "no" =>
        /\ sending'[s].at # "no"
        /\ PicsOf(sending'[s].attachments) = PicsOf(sending[s].attachments)
        /\ sending[s].at = "over" => sending'[s] = sending[s]
Grows == /\ files' = files \/ \E p \in Pictures : files' = Append(files, p)
         /\ misnumbered => misnumbered'

\* No step renumbers a file or undoes a misnumbering.
LEMMA FilesStay ==
    ASSUME files \in Seq(Pictures), Grows
    PROVE  /\ 0..Len(files) \subseteq 0..Len(files')
           /\ \A i \in 1..Len(files) : files'[i] = files[i]
<1>1. Len(files) \in Nat
  BY LenProperties
<1>2. CASE files' = files
  BY <1>2
<1>3. ASSUME NEW p \in Pictures, files' = Append(files, p)
      PROVE  /\ Len(files') = Len(files) + 1
             /\ \A i \in 1..Len(files) : files'[i] = files[i]
  BY <1>3, AppendProperties
<1>4. QED
  BY <1>1, <1>2, <1>3 DEF Grows

\* What names its own file keeps naming it.
LEMMA OwnStay ==
    ASSUME files \in Seq(Pictures), Grows, misnumbered \in BOOLEAN
    PROVE  /\ OwnPart \subseteq OwnPart' /\ OwnAttachment \subseteq OwnAttachment'
           /\ Seq(OwnPart) \subseteq Seq(OwnPart')
           /\ Seq(OwnAttachment) \subseteq Seq(OwnAttachment')
<1>1. ASSUME NEW p \in Part \union Attachment, HasOwnFile(p) PROVE HasOwnFile(p)'
  <2>1. p.file \in 0..Len(files) /\ p.file \in 0..Len(files')
    BY <1>1, FilesStay DEF HasOwnFile
  <2>2. CASE misnumbered
    BY <2>1, <2>2 DEF HasOwnFile, Grows
  <2>3. CASE p.file = NoFile
    BY <2>1, <2>3 DEF HasOwnFile
  <2>4. CASE p.file # NoFile /\ files[p.file] = p.pic
    <3>1. Len(files) \in Nat
      BY LenProperties
    <3>2. p.file \in 1..Len(files)
      BY <2>1, <2>4, <3>1 DEF NoFile
    <3>3. files'[p.file] = p.pic
      BY <2>4, <3>2, FilesStay
    <3>4. QED
      BY <2>1, <3>3 DEF HasOwnFile
  <2>5. QED
    BY <1>1, <2>2, <2>3, <2>4 DEF HasOwnFile
<1>2. OwnPart \subseteq OwnPart' /\ OwnAttachment \subseteq OwnAttachment'
  BY <1>1 DEF OwnPart, OwnAttachment
<1>3. QED
  BY <1>2, WiderSeq

LEMMA MessagesStay ==
    ASSUME ImagesInv, SendingMoves, Grows
    PROVE  /\ MessageWithPics \subseteq MessageWithPics'
           /\ Seq(ScreenMessage) \subseteq Seq(ScreenMessage')
           /\ Seq(StoredMessage) \subseteq Seq(StoredMessage')
<1>1. files \in Seq(Pictures) /\ misnumbered \in BOOLEAN
  BY DEF ImagesInv
<1>2. Seq(OwnPart) \subseteq Seq(OwnPart')
  BY <1>1, OwnStay
<1>3. MessageWithPics \subseteq MessageWithPics'
  BY <1>2 DEF MessageWithPics
<1>4. ASSUME NEW m \in ScreenMessage PROVE m \in ScreenMessage'
  <2>1. m \in MessageWithPics /\ m \in MessageWithPics'
    BY <1>3 DEF ScreenMessage
  <2>2. SUFFICES ASSUME m.role = "user", m.send # Older
                 PROVE  OnScreenAs(m.pics, sending'[m.send])
    BY <2>1 DEF ScreenMessage, OnScreenAs
  <2>3. m.send \in Sends /\ OnScreenAs(m.pics, sending[m.send])
    BY <2>1, <2>2 DEF ScreenMessage, MessageWithPics, Sends, Older
  <2>4. QED
    BY <2>3 DEF OnScreenAs, SendingMoves
<1>5. ASSUME NEW m \in StoredMessage PROVE m \in StoredMessage'
  <2>1. m \in MessageWithPics /\ m \in MessageWithPics'
    BY <1>3 DEF StoredMessage
  <2>2. SUFFICES ASSUME m.role = "user", m.send # Older
                 PROVE  StoredAs(m.pics, sending[m.send])'
    BY <2>1 DEF StoredMessage
  <2>3. m.send \in Sends /\ StoredAs(m.pics, sending[m.send])
    BY <2>1, <2>2 DEF StoredMessage, MessageWithPics, Sends, Older
  <2>4. sending'[m.send] = sending[m.send] /\ (misnumbered => misnumbered')
    BY <2>3 DEF StoredAs, SendingMoves, Grows
  <2>5. QED
    BY <2>3, <2>4 DEF StoredAs
<1>6. QED
  BY <1>3, <1>4, <1>5, WiderSeq

\* A message that did not change is still one.
LEMMA OutgoingStay ==
    ASSUME ImagesInv, Grows
    PROVE  Outgoing \subseteq Outgoing'
<1>1. files \in Seq(Pictures) /\ misnumbered \in BOOLEAN
  BY DEF ImagesInv
<1>2. Seq(OwnPart) \subseteq Seq(OwnPart') /\ Seq(OwnAttachment) \subseteq Seq(OwnAttachment')
  BY <1>1, OwnStay
<1>3. QED
  BY <1>2 DEF Outgoing

\* What is stored of a message is part of it.
LEMMA StoredPicsOf ==
    ASSUME NEW parts \in Seq(OwnPart)
    PROVE  StoredPics(parts) \in Seq(OwnPart)
BY MembersOf DEF StoredPics, References

LEMMA StoredIsShown ==
    ASSUME ImagesInv
    PROVE  Seq(StoredMessage) \subseteq Seq(ScreenMessage)
<1>1. StoredMessage \subseteq ScreenMessage
  BY DEF StoredMessage, ScreenMessage, StoredAs, OnScreenAs
<1>2. QED
  BY <1>1, WiderSeq

LEMMA AnswerIsMessage ==
    ASSUME NEW s \in Sends
    PROVE  AnswerTo(s) \in ScreenMessage /\ AnswerTo(s) \in StoredMessage
<1>1. <<>> \in Seq(OwnPart)
  BY EmptySeq
<1>2. AnswerTo(s) \in MessageWithPics /\ AnswerTo(s).role # "user"
  BY <1>1 DEF AnswerTo, MessageWithPics, Sends
<1>3. QED
  BY <1>2 DEF ScreenMessage, StoredMessage

LEMMA ImagesInitInv ==
    ASSUME ImagesInit, ImagesAssumption
    PROVE  ImagesInv
<1>1. <<>> \in Seq(OwnPart) /\ <<>> \in Seq(OwnAttachment) /\ <<>> \in Seq(Pictures)
      /\ <<>> \in Seq(StoredMessage) /\ <<>> \in Seq(0..MaxSends) /\ Len(<<>>) = 0
  BY EmptySeq
<1>2. NotSent \in Outgoing
  BY <1>1 DEF NotSent, Outgoing
<1>3. savedRows \in Seq(StoredMessage)
  <2> SUFFICES ASSUME NEW p \in Pictures, NEW q \in Pictures
               PROVE  <<UserMessage(Older, <<Pic(p, NoFile), Pic(q, NoFile)>>)>>
                          \in Seq(StoredMessage)
    BY <1>1 DEF ImagesInit
  <2>1. Pic(p, NoFile) \in OwnPart /\ Pic(q, NoFile) \in OwnPart
    BY <1>1 DEF Pic, NoFile, OwnPart, Part, HasOwnFile, ImagesInit, ImagesAssumption
  <2>2. <<Pic(p, NoFile), Pic(q, NoFile)>> \in Seq(OwnPart)
    BY <2>1
  <2>3. UserMessage(Older, <<Pic(p, NoFile), Pic(q, NoFile)>>) \in StoredMessage
    BY <2>2 DEF UserMessage, StoredMessage, MessageWithPics, Older, ImagesAssumption
  <2>4. QED
    BY <2>3
<1>4. transcript \in Seq(ScreenMessage)
  <2>1. StoredMessage \subseteq ScreenMessage
    BY DEF StoredMessage, ScreenMessage, StoredAs, OnScreenAs
  <2>2. QED
    BY <1>3, <2>1, WiderSeq DEF ImagesInit
<1>5. ReadingInv
  BY DEF ReadingInv, ImagesInit, NotReading, NoFile, ImagesAssumption
<1>6. sending \in [Sends -> Outgoing] /\ composer \in Seq(OwnAttachment)
  BY <1>1, <1>2 DEF ImagesInit
<1>7. /\ busy \in 0..MaxSends /\ misnumbered \in BOOLEAN /\ reachable \in BOOLEAN
      /\ files \in Seq(Pictures) /\ Len(files) <= MaxFiles
  <2>1. files = <<>> /\ busy = 0 /\ misnumbered = FALSE /\ reachable = TRUE
    BY DEF ImagesInit
  <2>2. misnumbered \in BOOLEAN /\ reachable \in BOOLEAN
    BY <2>1
  <2>3. 0 \in 0..MaxSends /\ 0 <= MaxFiles
    BY DEF ImagesAssumption
  <2>4. QED
    BY <1>1, <2>1, <2>2, <2>3
<1>8. QED
  BY <1>3, <1>4, <1>5, <1>6, <1>7 DEF ImagesInv

\* A step that leaves sent messages, files and stores alone.
LEMMA ComposerStepInv ==
    ASSUME ImagesInv, ImagesAssumption,
           UNCHANGED <<transcript, sending, busy, misnumbered, files, savedRows>>,
           reachable' \in BOOLEAN, composer' \in Seq(OwnAttachment), ReadingInv'
    PROVE  ImagesInv'
<1>1. OwnAttachment' = OwnAttachment /\ OwnPart' = OwnPart
  BY DEF OwnAttachment, OwnPart, HasOwnFile
<1>2. MessageWithPics' = MessageWithPics
  BY <1>1 DEF MessageWithPics
<1>3. ScreenMessage' = ScreenMessage /\ StoredMessage' = StoredMessage /\ Outgoing' = Outgoing
  BY <1>1, <1>2 DEF ScreenMessage, StoredMessage, Outgoing, OnScreenAs, StoredAs
<1>4. QED
  BY <1>1, <1>3 DEF ImagesInv

LEMMA OwnAsBefore ==
    ASSUME UNCHANGED <<misnumbered, files>>
    PROVE  OwnAttachment' = OwnAttachment /\ OwnPart' = OwnPart
BY DEF OwnAttachment, OwnPart, HasOwnFile

LEMMA ReadingKept ==
    ASSUME ReadingInv, UNCHANGED reading, files \in Seq(Pictures), Grows,
           misnumbered \in BOOLEAN
    PROVE  ReadingInv'
<1>1. Seq(OwnPart) \subseteq Seq(OwnPart')
  BY OwnStay
<1>2. QED
  BY <1>1 DEF ReadingInv

LEMMA NotReadingInv ==
    ASSUME reading' = NotReading, ImagesAssumption
    PROVE  ReadingInv'
BY DEF ReadingInv, NotReading, NoFile, ImagesAssumption

LEMMA ComposingKeeps ==
    ASSUME ImagesInv, ImagesAssumption,
           \/ \E p, q \in Pictures : SelectImages(<<p, q>>)
           \/ \E readable \in SUBSET Pictures : ImagesRead(readable)
           \/ \E i \in DOMAIN composer : RemoveImageAttachment(i)
           \/ \E i \in DOMAIN transcript : ReusePictures(i)
           \/ PicturesUnavailable \/ ConnectivityChanges
    PROVE  ImagesInv'
<1>0. ReadingInv /\ composer \in Seq(OwnAttachment) /\ files \in Seq(Pictures)
      /\ misnumbered \in BOOLEAN /\ reachable \in BOOLEAN /\ transcript \in Seq(ScreenMessage)
  BY DEF ImagesInv
<1>1. ASSUME NEW p \in Pictures, NEW q \in Pictures, SelectImages(<<p, q>>)
      PROVE  ImagesInv'
  <2>1. <<p, q>> \in Seq(Pictures)
    OBVIOUS
  <2>2. Len(composer) \in Nat
    BY <1>0, LenProperties
  <2>3. FittingFiles(<<p, q>>) \in Seq(Pictures)
    BY <1>1, <2>1, <2>2, FittingOf DEF SelectImages
  <2>4. ReadingInv'
    <3>1. reading' = [NotReading EXCEPT !.for = "composer", !.pics = FittingFiles(<<p, q>>)]
      BY <1>1 DEF SelectImages
    <3>2. reading'.for = "composer" /\ reading'.pics = FittingFiles(<<p, q>>)
          /\ reading'.at = 0 /\ reading'.send = 0
      BY <3>1 DEF NotReading, NoFile
    <3>3. QED
      BY <2>3, <3>2 DEF ReadingInv, ImagesAssumption
  <2>5. QED
    BY <1>0, <1>1, <2>4, ComposerStepInv DEF SelectImages
<1>2. ASSUME NEW readable \in SUBSET Pictures, ImagesRead(readable) PROVE ImagesInv'
  <2> DEFINE read == MembersAt(reading.pics,
                         {i \in DOMAIN reading.pics : reading.pics[i] \in readable})
             added == [i \in DOMAIN read |-> [pic |-> read[i], file |-> NoFile, data |-> FALSE]]
  <2>1. reading.pics \in Seq(Pictures)
    BY <1>0, <1>2 DEF ImagesRead, ReadingInv
  <2>2. read \in Seq(Pictures)
    BY <2>1, MembersOf
  <2>3. composer' = composer \o added /\ reading' = NotReading
    BY <1>2 DEF ImagesRead
  <2> HIDE DEF read
  <2>4. DOMAIN read = 1..Len(read) /\ Len(read) \in Nat /\ \A i \in 1..Len(read) : read[i] \in Pictures
    BY <2>2, LenProperties
  <2>5. ASSUME NEW p \in Pictures PROVE [pic |-> p, file |-> NoFile, data |-> FALSE] \in OwnAttachment
    <3>1. Len(files) \in Nat
      BY <1>0, LenProperties
    <3>2. QED
      BY <3>1 DEF OwnAttachment, Attachment, HasOwnFile, NoFile, ImagesAssumption
  <2>6. added \in [1..Len(read) -> OwnAttachment]
    BY <2>4, <2>5
  <2> HIDE DEF added
  <2>7. added \in Seq(OwnAttachment)
    BY <2>4, <2>6, SeqDef
  <2>8. composer' \in Seq(OwnAttachment)
    BY <1>0, <2>3, <2>7, ConcatProperties
  <2>9. QED
    BY <1>0, <1>2, <2>3, <2>8, NotReadingInv, ComposerStepInv DEF ImagesRead
<1>3. ASSUME NEW i \in DOMAIN composer, RemoveImageAttachment(i) PROVE ImagesInv'
  <2>1. Len(composer) \in Nat /\ DOMAIN composer = 1..Len(composer)
        /\ \A j \in 1..Len(composer) : composer[j] \in OwnAttachment
    BY <1>0, LenProperties
  <2>2. \A j \in 1..(i - 1) : composer[j] \in OwnAttachment
    BY <2>1
  <2>3. \A j \in (i + 1)..Len(composer) : composer[j] \in OwnAttachment
    BY <2>1
  <2>4. SubSeq(composer, 1, i - 1) \in Seq(OwnAttachment)
    BY <2>1, <2>2, SubSeqProperties
  <2>5. SubSeq(composer, i + 1, Len(composer)) \in Seq(OwnAttachment)
    BY <2>1, <2>3, SubSeqProperties
  <2>6. composer' = SubSeq(composer, 1, i - 1) \o SubSeq(composer, i + 1, Len(composer))
    BY <1>3 DEF RemoveImageAttachment, RemoveAt
  <2>7. composer' \in Seq(OwnAttachment)
    BY <2>4, <2>5, <2>6, ConcatProperties
  <2>8. ReadingInv'
    BY <1>0, <1>3, ReadingKept DEF RemoveImageAttachment, Grows
  <2>9. QED
    BY <1>0, <1>3, <2>7, <2>8, ComposerStepInv DEF RemoveImageAttachment
<1>4. ASSUME NEW i \in DOMAIN transcript, ReusePictures(i) PROVE ImagesInv'
  <2>1. i \in Nat \ {0} /\ transcript[i] \in MessageWithPics
    BY <1>0, LenProperties DEF ScreenMessage
  <2>2. transcript[i].send \in 0..MaxSends /\ transcript[i].pics \in Seq(OwnPart)
    BY <2>1 DEF MessageWithPics
  <2>3. OwnPart' = OwnPart
    BY <1>4, OwnAsBefore DEF ReusePictures
  <2>4. reading' = [for |-> "resend", at |-> i, send |-> transcript[i].send,
                    pics |-> transcript[i].pics]
    BY <1>4 DEF ReusePictures
  <2>5. ReadingInv'
    BY <2>1, <2>2, <2>3, <2>4 DEF ReadingInv
  <2>6. QED
    BY <1>0, <1>4, <2>5, ComposerStepInv DEF ReusePictures
<1>5. CASE PicturesUnavailable
  BY <1>0, <1>5, NotReadingInv, ComposerStepInv DEF PicturesUnavailable
<1>6. CASE ConnectivityChanges
  <2>1. ReadingInv'
    BY <1>0, <1>6, ReadingKept DEF ConnectivityChanges, Grows
  <2>2. QED
    BY <1>0, <1>6, <2>1, ComposerStepInv DEF ConnectivityChanges
<1>7. QED
  BY <1>1, <1>2, <1>3, <1>4, <1>5, <1>6

\* A message is sent with pictures of its own.
LEMMA PayloadKeeps ==
    ASSUME ImagesInv, ImagesAssumption, NEW s \in Sends, NEW attachments \in Seq(OwnAttachment),
           NEW before \in Seq(ScreenMessage), NEW restore \in BOOLEAN,
           NEW replaces \in Seq(0..MaxSends), SendPayload(s, attachments, before, restore, replaces),
           UNCHANGED <<misnumbered, reachable, files, savedRows>>,
           composer' \in Seq(OwnAttachment), ReadingInv'
    PROVE  ImagesInv'
<1> DEFINE new == [NotSent EXCEPT !.at = "preparing", !.restore = restore,
                       !.attachments = attachments, !.replaces = replaces]
           pics == [i \in DOMAIN attachments |-> Pic(attachments[i].pic, NoFile)]
           message == UserMessage(s, pics)
<1>1. /\ sending[s].at = "no" /\ sending' = [sending EXCEPT ![s] = new]
      /\ transcript' = Append(before, message) /\ busy' = s
  BY DEF SendPayload, NextSend
<1>2. /\ new.at = "preparing" /\ new.attachments = attachments /\ new.parts = <<>>
      /\ new \in [at : {"no", "preparing", "connecting", "sent", "over"},
            attachments : Seq(OwnAttachment), parts : Seq(OwnPart), restore : BOOLEAN,
            replaces : Seq(0..MaxSends), seen : Seq(Pictures)]
  <2>1. <<>> \in Seq(OwnPart) /\ <<>> \in Seq(Pictures)
    BY EmptySeq
  <2>2. QED
    BY <2>1 DEF NotSent
<1> HIDE DEF new
<1>3. /\ Len(attachments) \in Nat /\ DOMAIN attachments = 1..Len(attachments)
      /\ \A i \in 1..Len(attachments) : attachments[i] \in OwnAttachment
  BY LenProperties
<1>4. new \in Outgoing
  <2>1. Len(<<>>) = 0
    BY EmptySeq
  <2>2. QED
    BY <1>2, <1>3, <2>1 DEF Outgoing
<1>5. /\ sending \in [Sends -> Outgoing] /\ files \in Seq(Pictures) /\ misnumbered \in BOOLEAN
      /\ reachable \in BOOLEAN /\ busy \in 0..MaxSends /\ Len(files) <= MaxFiles
      /\ savedRows \in Seq(StoredMessage)
  BY DEF ImagesInv
<1>6. OwnAttachment' = OwnAttachment /\ OwnPart' = OwnPart
  BY OwnAsBefore
<1>7. Outgoing' = Outgoing /\ MessageWithPics' = MessageWithPics
  BY <1>6 DEF Outgoing, MessageWithPics
<1>8. SendingMoves /\ Grows
  BY <1>1, <1>5 DEF SendingMoves, Grows
<1>9. Seq(ScreenMessage) \subseteq Seq(ScreenMessage') /\ Seq(StoredMessage) \subseteq Seq(StoredMessage')
  BY <1>8, MessagesStay
<1>10. sending'[s] = new /\ sending' \in [Sends -> Outgoing]
  BY <1>1, <1>4, <1>5
<1>11. message \in ScreenMessage'
  <2>1. \A i \in DOMAIN attachments : Pic(attachments[i].pic, NoFile) \in OwnPart
    <3>1. Len(files) \in Nat
      BY <1>5, LenProperties
    <3>2. QED
      BY <1>3, <3>1 DEF Pic, OwnPart, OwnAttachment, Attachment, Part, HasOwnFile, NoFile, ImagesAssumption
  <2>2. pics \in Seq(OwnPart) /\ DOMAIN pics = DOMAIN attachments
    <3>1. pics \in [1..Len(attachments) -> OwnPart]
      BY <1>3, <2>1
    <3>2. QED
      BY <1>3, <3>1, SeqDef
  <2>3. \A i \in DOMAIN attachments : pics[i].pic = attachments[i].pic
    BY DEF Pic
  <2> HIDE DEF pics
  <2>4. PicsOf(pics) = PicsOf(attachments)
    BY <2>2, <2>3 DEF PicsOf
  <2>5. message \in MessageWithPics' /\ message.send = s /\ message.pics = pics
    <3>1. message = [send |-> s, role |-> "user", pics |-> pics]
      BY DEF UserMessage
    <3>2. message \in MessageWithPics /\ message.send = s /\ message.pics = pics
      BY <2>2, <3>1 DEF MessageWithPics, Sends
    <3>3. QED
      BY <1>7, <3>2
  <2>6. OnScreenAs(pics, new)
    BY <1>2, <2>4 DEF OnScreenAs
  <2> HIDE DEF message
  <2>7. OnScreenAs(message.pics, sending'[message.send])
    BY <1>10, <2>5, <2>6
  <2>8. QED
    BY <2>5, <2>7 DEF ScreenMessage, OnScreenAs
<1> HIDE DEF message
<1>12. transcript' \in Seq(ScreenMessage')
  <2>1. before \in Seq(ScreenMessage')
    BY <1>9
  <2>2. QED
    BY <1>1, <1>11, <2>1, AppendProperties
<1>13. savedRows' \in Seq(StoredMessage')
  BY <1>5, <1>9
<1>14. busy' \in 0..MaxSends
  BY <1>1 DEF Sends
<1>15. QED
  BY <1>5, <1>6, <1>7, <1>10, <1>12, <1>13, <1>14 DEF ImagesInv

LEMMA SendingKeeps ==
    ASSUME ImagesInv, ImagesAssumption, NEW s \in Sends, SendComposed(s) \/ PicturesReused(s)
    PROVE  ImagesInv'
<1>0. ReadingInv /\ composer \in Seq(OwnAttachment) /\ files \in Seq(Pictures)
      /\ misnumbered \in BOOLEAN /\ transcript \in Seq(ScreenMessage)
  BY DEF ImagesInv
<1>1. CASE SendComposed(s)
  <2>1. SendPayload(s, composer, transcript, TRUE, <<>>) /\ composer' = <<>> /\ UNCHANGED reading
        /\ UNCHANGED <<misnumbered, reachable, files, savedRows>>
    BY <1>1 DEF SendComposed
  <2>2. ReadingInv'
    BY <1>0, <2>1, ReadingKept DEF Grows
  <2>3. <<>> \in Seq(0..MaxSends) /\ <<>> \in Seq(OwnAttachment)
    BY EmptySeq
  <2>4. QED
    BY <1>0, <2>1, <2>2, <2>3, PayloadKeeps
<1>2. CASE PicturesReused(s)
  <2> DEFINE attachments == [j \in DOMAIN reading.pics |->
               [pic |-> reading.pics[j].pic, file |-> reading.pics[j].file,
                data |-> reading.pics[j].file = NoFile]]
             before == Slice(transcript, reading.at - 1)
             replaces == IF RowOf(reading.send) = {} THEN <<>> ELSE <<reading.send>>
  <2>1. /\ reading.for = "resend" /\ reading' = NotReading
        /\ SendPayload(s, attachments, before, FALSE, replaces)
        /\ UNCHANGED <<composer, misnumbered, reachable, files, savedRows>>
    BY <1>2 DEF PicturesReused
  <2>2. /\ reading.pics \in Seq(OwnPart) /\ reading.at - 1 \in Nat /\ reading.send \in 0..MaxSends
    BY <1>0, <2>1 DEF ReadingInv
  <2>3. /\ Len(reading.pics) \in Nat /\ DOMAIN reading.pics = 1..Len(reading.pics)
        /\ \A j \in 1..Len(reading.pics) : reading.pics[j] \in OwnPart
    BY <2>2, LenProperties
  <2>4. attachments \in Seq(OwnAttachment)
    <3>1. ASSUME NEW p \in OwnPart
          PROVE  [pic |-> p.pic, file |-> p.file, data |-> p.file = NoFile] \in OwnAttachment
      BY DEF OwnPart, OwnAttachment, Part, Attachment, HasOwnFile
    <3>2. attachments \in [1..Len(reading.pics) -> OwnAttachment]
      BY <2>3, <3>1
    <3>3. QED
      BY <2>3, <3>2, SeqDef
  <2>5. before \in Seq(ScreenMessage)
    BY <1>0, <2>2, SliceOf
  <2>6. replaces \in Seq(0..MaxSends)
    <3>1. <<reading.send>> \in Seq(0..MaxSends)
      BY <2>2
    <3>2. <<>> \in Seq(0..MaxSends)
      BY EmptySeq
    <3>3. QED
      BY <3>1, <3>2
  <2> HIDE DEF attachments, before, replaces
  <2>7. ReadingInv'
    BY <2>1, NotReadingInv
  <2>8. composer' \in Seq(OwnAttachment)
    BY <1>0, <2>1
  <2>9. QED
    BY <2>1, <2>4, <2>5, <2>6, <2>7, <2>8, PayloadKeeps
<1>3. QED
  BY <1>1, <1>2

\* A step of one message that is on its way.
LEMMA OneMoves ==
    ASSUME ImagesInv, ImagesAssumption, NEW s \in Sends, sending[s].at # "no",
           NEW now \in Outgoing', sending' = [sending EXCEPT ![s] = now], now.at # "no",
           PicsOf(now.attachments) = PicsOf(sending[s].attachments),
           sending[s].at # "over", Grows
    PROVE  SendingMoves /\ sending'[s] = now /\ sending' \in [Sends -> Outgoing']
<1>1. sending \in [Sends -> Outgoing] /\ Outgoing \subseteq Outgoing'
  BY OutgoingStay DEF ImagesInv
<1>2. sending'[s] = now /\ sending' \in [Sends -> Outgoing']
  BY <1>1
<1>3. SendingMoves
  <2> SUFFICES ASSUME NEW q \in Sends, sending[q].at # "no"
               PROVE  /\ sending'[q].at # "no"
                      /\ PicsOf(sending'[q].attachments) = PicsOf(sending[q].attachments)
                      /\ sending[q].at = "over" => sending'[q] = sending[q]
    BY DEF SendingMoves
  <2>1. CASE q = s
    BY <1>2, <2>1
  <2>2. CASE q # s
    BY <1>1, <2>2
  <2>3. QED
    BY <2>1, <2>2
<1>4. QED
  BY <1>2, <1>3

\* A message only goes to another place.
LEMMA PlaceMoves ==
    ASSUME ImagesInv, ImagesAssumption, NEW s \in Sends, sending[s].at \notin {"no", "over"},
           NEW place \in {"preparing", "connecting", "sent", "over"}, sending' = SetAt(s, place),
           place \in {"connecting", "sent"}
               => Len(sending[s].parts) = Len(sending[s].attachments),
           Grows
    PROVE  /\ SendingMoves /\ sending' \in [Sends -> Outgoing']
           /\ sending'[s].at = place /\ sending'[s].attachments = sending[s].attachments
<1>1. PICK sent \in Outgoing : sent = sending[s]
  BY DEF ImagesInv
<1> DEFINE now == [sent EXCEPT !.at = place]
<1>2. now \in Outgoing /\ now.at = place /\ now.attachments = sent.attachments
  BY <1>1 DEF Outgoing
<1>3. sending' = [sending EXCEPT ![s] = now]
  BY <1>1 DEF SetAt
<1> HIDE DEF now
<1>4. now \in Outgoing'
  BY <1>2, OutgoingStay
<1>5. QED
  BY <1>1, <1>2, <1>3, <1>4, OneMoves

\* What remains to be shown of a step under which messages move and files grow.
LEMMA MovedInv ==
    ASSUME ImagesInv, SendingMoves, Grows, sending' \in [Sends -> Outgoing'],
           transcript' \in Seq(ScreenMessage'), savedRows' \in Seq(StoredMessage'),
           composer' \in Seq(OwnAttachment'), ReadingInv', busy' \in 0..MaxSends,
           misnumbered' \in BOOLEAN, reachable' \in BOOLEAN,
           files' \in Seq(Pictures), Len(files') <= MaxFiles
    PROVE  ImagesInv'
BY DEF ImagesInv

\* Of a message that is on its way, all that changes is in it.
LEMMA ElsewhereSame ==
    ASSUME ImagesInv, SendingMoves, Grows, sending' \in [Sends -> Outgoing'],
           UNCHANGED <<composer, reading, transcript, busy, misnumbered, reachable, savedRows>>,
           files' \in Seq(Pictures), Len(files') <= MaxFiles
    PROVE  ImagesInv'
<1>1. /\ ReadingInv /\ composer \in Seq(OwnAttachment) /\ files \in Seq(Pictures)
      /\ misnumbered \in BOOLEAN /\ transcript \in Seq(ScreenMessage)
      /\ savedRows \in Seq(StoredMessage) /\ busy \in 0..MaxSends /\ reachable \in BOOLEAN
  BY DEF ImagesInv
<1>2. transcript' \in Seq(ScreenMessage') /\ savedRows' \in Seq(StoredMessage')
  BY <1>1, MessagesStay
<1>3. composer' \in Seq(OwnAttachment')
  BY <1>1, OwnStay
<1>4. ReadingInv'
  BY <1>1, ReadingKept
<1>5. QED
  BY <1>1, <1>2, <1>3, <1>4, MovedInv

\* An attachment becomes a part, with a file of its own or none.
LEMMA PartTaken ==
    ASSUME ImagesInv, ImagesAssumption, NEW s \in Sends, Preparing(s), Grows, NEW file,
           TakePart(s, file), misnumbered' \in BOOLEAN,
           file \in 0..MaxFiles, file \in 0..Len(files'),
           misnumbered' \/ file = NoFile \/ files'[file] = NextAttachment(s).pic
    PROVE  SendingMoves /\ sending' \in [Sends -> Outgoing']
<1>1. PICK sent \in Outgoing : sent = sending[s]
  BY DEF ImagesInv
<1> DEFINE i == Len(sent.parts) + 1
           attachment == sent.attachments[i]
           numbered == [attachment EXCEPT !.file = file]
           attachments == [sent.attachments EXCEPT ![i] = numbered]
           part == Pic(attachment.pic, file)
           parts == Append(sent.parts, part)
           now == [sent EXCEPT !.attachments = attachments, !.parts = parts]
<1>2. /\ sent.attachments \in Seq(OwnAttachment) /\ sent.parts \in Seq(OwnPart)
      /\ sent.at = "preparing" /\ Len(sent.parts) < Len(sent.attachments)
      /\ \A j \in 1..Len(sent.parts) : sent.parts[j].pic = sent.attachments[j].pic
  BY <1>1 DEF Outgoing, Preparing
<1>3. /\ Len(sent.attachments) \in Nat /\ Len(sent.parts) \in Nat
      /\ \A j \in 1..Len(sent.attachments) : sent.attachments[j] \in OwnAttachment
      /\ DOMAIN sent.attachments = 1..Len(sent.attachments)
  BY <1>2, LenProperties
<1>4. i \in 1..Len(sent.attachments) /\ attachment \in OwnAttachment
  BY <1>2, <1>3
<1>5. NextAttachment(s) = attachment
  BY <1>1 DEF NextAttachment
<1>6. sending' = [sending EXCEPT ![s] = now]
  BY <1>1 DEF TakePart, NextAttachment
<1>7. PICK p : p = attachment.pic
  OBVIOUS
<1>8. ASSUME NEW q, q.file = file, q.pic = p PROVE HasOwnFile(q)'
  BY <1>5, <1>7, <1>8 DEF HasOwnFile
<1> HIDE DEF attachment
<1>9. numbered \in OwnAttachment' /\ numbered.pic = attachment.pic
  <2>1. attachment \in Attachment
    BY <1>4 DEF OwnAttachment
  <2>2. numbered \in Attachment /\ numbered.pic = attachment.pic /\ numbered.file = file
    BY <2>1 DEF Attachment
  <2>3. PICK q : q = numbered
    OBVIOUS
  <2>4. HasOwnFile(q)'
    BY <1>7, <1>8, <2>2, <2>3
  <2>5. q \in OwnAttachment'
    BY <2>2, <2>3, <2>4 DEF OwnAttachment
  <2>6. QED
    BY <2>2, <2>3, <2>5
<1>10. part \in OwnPart' /\ part.pic = attachment.pic
  <2>1. attachment.pic \in Pictures
    BY <1>4 DEF OwnAttachment, Attachment
  <2>2. part \in Part /\ part.file = file /\ part.pic = attachment.pic
    BY <2>1 DEF Pic, Part
  <2>3. PICK q : q = part
    OBVIOUS
  <2>4. HasOwnFile(q)'
    BY <1>7, <1>8, <2>2, <2>3
  <2>5. q \in OwnPart'
    BY <2>2, <2>3, <2>4 DEF OwnPart
  <2>6. QED
    BY <2>2, <2>3, <2>5
<1> HIDE DEF numbered, part
<1>11. sent.attachments \in Seq(OwnAttachment') /\ sent.parts \in Seq(OwnPart')
  <2>1. files \in Seq(Pictures) /\ misnumbered \in BOOLEAN
    BY DEF ImagesInv
  <2>2. QED
    BY <1>2, <2>1, OwnStay
<1>12. /\ attachments \in Seq(OwnAttachment') /\ Len(attachments) = Len(sent.attachments)
       /\ \A j \in 1..Len(sent.attachments) :
             attachments[j] = IF j = i THEN numbered ELSE sent.attachments[j]
  BY <1>4, <1>9, <1>11, ExceptSeq
<1>13. PicsOf(attachments) = PicsOf(sent.attachments)
  <2>1. DOMAIN attachments = DOMAIN sent.attachments
    BY <1>3
  <2>2. \A j \in 1..Len(sent.attachments) : attachments[j].pic = sent.attachments[j].pic
    BY <1>4, <1>9, <1>12 DEF attachment
  <2> HIDE DEF attachments
  <2>3. QED
    BY <1>3, <2>1, <2>2 DEF PicsOf
<1>14. /\ parts \in Seq(OwnPart') /\ Len(parts) = i
       /\ \A j \in 1..Len(sent.parts) : parts[j] = sent.parts[j]
       /\ parts[i] = part
  BY <1>10, <1>11, AppendProperties
<1>15. \A j \in 1..Len(parts) : parts[j].pic = attachments[j].pic
  <2> SUFFICES ASSUME NEW j \in 1..Len(parts) PROVE parts[j].pic = attachments[j].pic
    OBVIOUS
  <2>1. j \in 1..Len(sent.parts) \/ j = i
    BY <1>3, <1>14
  <2>2. CASE j \in 1..Len(sent.parts)
    BY <1>2, <1>3, <1>4, <1>12, <1>14, <2>2
  <2>3. CASE j = i
    BY <1>4, <1>9, <1>10, <1>12, <1>14, <2>3
  <2>4. QED
    BY <2>1, <2>2, <2>3
<1>16. now \in Outgoing' /\ now.at = "preparing" /\ now.attachments = attachments
  <2> HIDE DEF attachments, parts
  <2>1. i <= Len(sent.attachments)
    BY <1>4
  <2> HIDE DEF i
  <2>2. QED
    BY <1>2, <1>12, <1>14, <1>15, <2>1 DEF Outgoing
<1> HIDE DEF now, attachments
<1>17. QED
  BY <1>1, <1>2, <1>6, <1>13, <1>16, OneMoves

LEMMA PreparingKeeps ==
    ASSUME ImagesInv, ImagesAssumption, NEW s \in Sends,
           PrepareReference(s) \/ UploadAttachment(s) \/ SendInline(s)
    PROVE  ImagesInv'
<1>1. /\ files \in Seq(Pictures) /\ Len(files) <= MaxFiles /\ Len(files) \in Nat
      /\ misnumbered \in BOOLEAN /\ misnumbered' = misnumbered
  BY LenProperties DEF ImagesInv, PrepareReference, UploadAttachment, SendInline
<1>2. Preparing(s)
  BY DEF PrepareReference, UploadAttachment, SendInline
<1>3. NextAttachment(s) \in OwnAttachment
  <2>1. sending[s] \in Outgoing
    BY DEF ImagesInv
  <2>2. /\ sending[s].attachments \in Seq(OwnAttachment) /\ sending[s].parts \in Seq(OwnPart)
    BY <2>1 DEF Outgoing
  <2>3. /\ Len(sending[s].parts) \in Nat /\ Len(sending[s].attachments) \in Nat
        /\ \A j \in 1..Len(sending[s].attachments) : sending[s].attachments[j] \in OwnAttachment
    BY <2>2, LenProperties
  <2>4. QED
    BY <1>2, <2>3 DEF Preparing, NextAttachment
<1>4. NextAttachment(s).pic \in Pictures /\ NextAttachment(s) \in Attachment
      /\ HasOwnFile(NextAttachment(s))
  BY <1>3 DEF OwnAttachment, Attachment
<1>5. CASE PrepareReference(s)
  <2>1. UNCHANGED files /\ Grows /\ TakePart(s, NextAttachment(s).file)
    BY <1>1, <1>5 DEF PrepareReference, Grows
  <2>2. /\ NextAttachment(s).file \in 0..Len(files')
        /\ misnumbered' \/ NextAttachment(s).file = NoFile
           \/ files'[NextAttachment(s).file] = NextAttachment(s).pic
    BY <1>1, <1>4, <2>1 DEF HasOwnFile
  <2>3. NextAttachment(s).file \in 0..MaxFiles
    BY <1>4 DEF Attachment
  <2>4. SendingMoves /\ sending' \in [Sends -> Outgoing']
    BY <1>1, <1>2, <2>1, <2>2, <2>3, PartTaken
  <2>5. QED
    BY <1>1, <1>5, <2>1, <2>4, ElsewhereSame DEF PrepareReference
<1>6. CASE UploadAttachment(s)
  <2>1. files' = Append(files, NextAttachment(s).pic) /\ Grows /\ TakePart(s, Len(files) + 1)
        /\ Len(files) < MaxFiles
    BY <1>1, <1>4, <1>6 DEF UploadAttachment, Grows
  <2>2. files' \in Seq(Pictures) /\ Len(files') = Len(files) + 1
        /\ files'[Len(files) + 1] = NextAttachment(s).pic
    BY <1>1, <1>4, <2>1, AppendProperties
  <2>3. Len(files) + 1 \in 0..Len(files') /\ files'[Len(files) + 1] = NextAttachment(s).pic
    BY <1>1, <2>2
  <2>4. Len(files) + 1 \in 0..MaxFiles /\ Len(files') <= MaxFiles
    BY <1>1, <2>1, <2>2 DEF ImagesAssumption
  <2>5. SendingMoves /\ sending' \in [Sends -> Outgoing']
    BY <1>1, <1>2, <2>1, <2>3, <2>4, PartTaken
  <2>6. QED
    BY <1>1, <1>6, <2>1, <2>2, <2>4, <2>5, ElsewhereSame DEF UploadAttachment
<1>7. CASE SendInline(s)
  <2>1. Uploaded(s) /\ TakePart(s, NoFile)
    BY <1>7 DEF SendInline
  <2>2. \/ files' = files
        \/ Len(files) < MaxFiles /\ files' = Append(files, NextAttachment(s).pic)
    BY <2>1 DEF Uploaded
  <2>3. files' \in Seq(Pictures) /\ Len(files') <= MaxFiles /\ Len(files') \in Nat /\ Grows
    BY <1>1, <1>4, <2>2, AppendProperties, LenProperties DEF Grows, ImagesAssumption
  <2>4. NoFile \in 0..Len(files')
    BY <2>3 DEF NoFile
  <2>5. NoFile \in 0..MaxFiles
    BY DEF NoFile, ImagesAssumption
  <2>6. SendingMoves /\ sending' \in [Sends -> Outgoing']
    BY <1>1, <1>2, <2>1, <2>3, <2>4, <2>5, PartTaken
  <2>7. QED
    BY <1>1, <1>7, <2>3, <2>6, ElsewhereSame DEF SendInline
<1>8. QED
  BY <1>5, <1>6, <1>7

\* A message is taken back.
LEMMA TakenBackKeeps ==
    ASSUME ImagesInv, ImagesAssumption, NEW s \in Sends,
           UploadAttachmentFails(s) \/ PartsTooLarge(s) \/ SocketUnavailable(s)
    PROVE  ImagesInv'
<1>1. /\ ReadingInv /\ files \in Seq(Pictures) /\ Len(files) <= MaxFiles /\ Len(files) \in Nat
      /\ misnumbered \in BOOLEAN /\ reachable \in BOOLEAN /\ transcript \in Seq(ScreenMessage)
      /\ composer \in Seq(OwnAttachment) /\ savedRows \in Seq(StoredMessage)
      /\ busy \in 0..MaxSends
  BY LenProperties DEF ImagesInv
<1>2. sending[s].attachments \in Seq(OwnAttachment) /\ sending[s].parts \in Seq(OwnPart)
  BY DEF ImagesInv, Outgoing
<1>3. GiveUp(s) /\ sending[s].at \in {"preparing", "connecting"}
      /\ UNCHANGED <<reading, misnumbered, reachable, savedRows>>
  BY DEF UploadAttachmentFails, PartsTooLarge, SocketUnavailable, Preparing, Prepared, TakeBack
<1>4. composer' \in {composer, sending[s].attachments}
  BY DEF UploadAttachmentFails, PartsTooLarge, SocketUnavailable
<1>5. /\ files' = files \/ \E p \in Pictures : files' = Append(files, p)
      /\ files' \in Seq(Pictures) /\ Len(files') <= MaxFiles
  <2>1. CASE files' = files
    BY <1>1, <2>1
  <2>2. CASE files' # files
    <3>1. Preparing(s) /\ Len(files) < MaxFiles /\ files' = Append(files, NextAttachment(s).pic)
      BY <2>2 DEF UploadAttachmentFails, PartsTooLarge, SocketUnavailable, Uploaded
    <3>2. /\ Len(sending[s].parts) \in Nat /\ Len(sending[s].attachments) \in Nat
          /\ \A j \in 1..Len(sending[s].attachments) : sending[s].attachments[j] \in OwnAttachment
      BY <1>2, LenProperties
    <3>3. NextAttachment(s) \in OwnAttachment
      BY <3>1, <3>2 DEF Preparing, NextAttachment
    <3>4. NextAttachment(s).pic \in Pictures
      BY <3>3 DEF OwnAttachment, Attachment
    <3>5. Append(files, NextAttachment(s).pic) \in Seq(Pictures)
          /\ Len(Append(files, NextAttachment(s).pic)) = Len(files) + 1
      BY <1>1, <3>4, AppendProperties
    <3>6. QED
      BY <1>1, <3>1, <3>4, <3>5 DEF ImagesAssumption
  <2>3. QED
    BY <2>1, <2>2
<1>6. Grows
  BY <1>3, <1>5 DEF Grows
<1>7. SendingMoves /\ sending' \in [Sends -> Outgoing']
  BY <1>3, <1>6, PlaceMoves DEF GiveUp
<1>8. transcript' \in Seq(ScreenMessage)
  <2>1. CASE transcript = <<>>
    BY <1>1, <1>3, <2>1 DEF GiveUp
  <2>2. CASE transcript # <<>>
    <3>1. Len(transcript) \in Nat
          /\ \A i \in 1..Len(transcript) : transcript[i] \in ScreenMessage
      BY <1>1, LenProperties
    <3>2. \A i \in 1..(Len(transcript) - 1) : transcript[i] \in ScreenMessage
      BY <3>1
    <3>3. SubSeq(transcript, 1, Len(transcript) - 1) \in Seq(ScreenMessage)
      BY <3>1, <3>2, SubSeqProperties
    <3>4. QED
      BY <1>3, <2>2, <3>3 DEF GiveUp, Front
  <2>3. QED
    BY <2>1, <2>2
<1>9. transcript' \in Seq(ScreenMessage') /\ savedRows' \in Seq(StoredMessage')
  BY <1>1, <1>3, <1>6, <1>7, <1>8, MessagesStay
<1>10. composer' \in Seq(OwnAttachment')
  BY <1>1, <1>2, <1>4, <1>6, OwnStay
<1>11. ReadingInv'
  BY <1>1, <1>3, <1>6, ReadingKept
<1>12. busy' \in 0..MaxSends
  BY <1>3 DEF GiveUp, ImagesAssumption
<1>13. QED
  BY <1>1, <1>3, <1>5, <1>6, <1>7, <1>9, <1>10, <1>11, <1>12, MovedInv

\* The last message is told the files of its pictures.
LEMMA FilesTold ==
    ASSUME ImagesInv, ImagesAssumption, NEW s \in Sends, PartsReady(s), SendingMoves, Grows
    PROVE  transcript' \in Seq(ScreenMessage')
<1>1. /\ files \in Seq(Pictures) /\ Len(files) \in Nat /\ misnumbered \in BOOLEAN
      /\ transcript \in Seq(ScreenMessage) /\ sending[s] \in Outgoing
  BY LenProperties DEF ImagesInv
<1>2. PICK attachments \in Seq(OwnAttachment) : attachments = sending[s].attachments
  BY <1>1 DEF Outgoing
<1>3. /\ DOMAIN attachments = 1..Len(attachments)
      /\ \A j \in DOMAIN attachments : attachments[j] \in OwnAttachment
  BY LenProperties
<1>4. /\ files' = files /\ sending[s].at = "preparing" /\ (misnumbered => misnumbered')
      /\ transcript' = WithFiles(transcript, attachments)
      /\ misnumbered' \/ \A k \in DOMAIN transcript :
            k = Len(transcript) /\ transcript[k].role = "user" => transcript[k].send = s
  BY <1>2 DEF PartsReady, Prepared
<1>5. transcript \in Seq(ScreenMessage') /\ MessageWithPics \subseteq MessageWithPics'
      /\ Seq(OwnPart) \subseteq Seq(OwnPart')
  BY <1>1, MessagesStay, OwnStay
<1>6. PICK i : i = Len(transcript)
  OBVIOUS
<1>7. CASE transcript = <<>> \/ transcript[i].role # "user"
  BY <1>4, <1>5, <1>6, <1>7 DEF WithFiles
<1>8. CASE transcript # <<>> /\ transcript[i].role = "user"
  <2>1. i \in 1..Len(transcript) /\ i \in DOMAIN transcript /\ transcript[i] \in ScreenMessage'
        /\ transcript[i] \in ScreenMessage
    BY <1>1, <1>5, <1>6, <1>8, EmptySeq, LenProperties
  <2>2. PICK m \in ScreenMessage : m = transcript[i]
    BY <2>1
  <2>3. m \in MessageWithPics /\ m.pics \in Seq(OwnPart) /\ m.role = "user" /\ m.send \in 0..MaxSends
    BY <1>8, <2>2 DEF ScreenMessage, MessageWithPics
  <2> DEFINE FileTold(p, j) == IF j \in DOMAIN attachments /\ attachments[j].file # NoFile
                           THEN [p EXCEPT !.file = attachments[j].file] ELSE p
             pics == [j \in DOMAIN m.pics |-> FileTold(m.pics[j], j)]
             named == [m EXCEPT !.pics = pics]
  <2>4. transcript' = [transcript EXCEPT ![i] = named]
    <3>1. WithFiles(transcript, attachments) =
             [transcript EXCEPT ![i].pics = [j \in DOMAIN @ |->
                IF j \in DOMAIN attachments /\ attachments[j].file # NoFile
                THEN [@[j] EXCEPT !.file = attachments[j].file] ELSE @[j]]]
      BY <1>6, <1>8 DEF WithFiles
    <3>2. QED
      BY <1>4, <2>2, <3>1
  <2>5. Len(m.pics) \in Nat /\ DOMAIN m.pics = 1..Len(m.pics)
        /\ \A j \in DOMAIN m.pics : m.pics[j] \in OwnPart
    BY <2>3, LenProperties
  <2>6. misnumbered' \/ PicsOf(m.pics) = PicsOf(attachments)
    <3>1. SUFFICES ASSUME ~misnumbered' PROVE PicsOf(m.pics) = PicsOf(attachments)
      OBVIOUS
    <3>2. m.send = s
      BY <1>4, <1>6, <2>1, <2>2, <2>3, <3>1
    <3>3. OnScreenAs(m.pics, sending[s])
      BY <2>2, <2>3, <3>2 DEF ScreenMessage, Sends, Older
    <3>4. QED
      BY <1>2, <1>4, <3>3 DEF OnScreenAs
  <2>7. ASSUME NEW j \in DOMAIN m.pics
        PROVE  FileTold(m.pics[j], j) \in OwnPart' /\ FileTold(m.pics[j], j).pic = m.pics[j].pic
    <3>1. PICK p \in OwnPart : p = m.pics[j]
      BY <2>5
    <3>2. p \in OwnPart'
      BY <1>1, <3>1, OwnStay
    <3>3. CASE j \in DOMAIN attachments /\ attachments[j].file # NoFile
      <4>1. PICK a \in OwnAttachment : a = attachments[j]
        BY <1>3, <3>3
      <4>2. PICK q : q = [p EXCEPT !.file = a.file]
        OBVIOUS
      <4>3. q \in Part /\ q.pic = p.pic /\ q.file = a.file
        BY <4>2 DEF OwnPart, OwnAttachment, Part, Attachment
      <4>4. misnumbered' \/ p.pic = a.pic
        <5>1. SUFFICES ASSUME ~misnumbered' PROVE p.pic = a.pic
          OBVIOUS
        <5>2. PicsOf(m.pics) = PicsOf(attachments)
          BY <2>6, <5>1
        <5>3. PicsOf(m.pics)[j] = m.pics[j].pic /\ PicsOf(attachments)[j] = attachments[j].pic
          BY <3>3 DEF PicsOf
        <5>4. QED
          BY <3>1, <4>1, <5>2, <5>3
      <4>5. HasOwnFile(a)
        BY DEF OwnAttachment
      <4>6. HasOwnFile(q)'
        BY <1>4, <3>3, <4>1, <4>3, <4>4, <4>5 DEF HasOwnFile
      <4>7. q \in OwnPart'
        BY <4>3, <4>6 DEF OwnPart
      <4>8. FileTold(m.pics[j], j) = q
        BY <3>1, <3>3, <4>1, <4>2
      <4>9. QED
        BY <3>1, <4>3, <4>7, <4>8
    <3>4. CASE ~(j \in DOMAIN attachments /\ attachments[j].file # NoFile)
      BY <3>1, <3>2, <3>4
    <3>5. QED
      BY <3>3, <3>4
  <2> HIDE DEF FileTold
  <2>8. pics \in Seq(OwnPart') /\ PicsOf(pics) = PicsOf(m.pics)
    <3>1. pics \in [1..Len(m.pics) -> OwnPart']
      BY <2>5, <2>7
    <3>2. DOMAIN pics = DOMAIN m.pics /\ \A j \in DOMAIN m.pics : pics[j].pic = m.pics[j].pic
      BY <2>7
    <3> HIDE DEF pics
    <3>3. PicsOf(pics) = PicsOf(m.pics)
      BY <3>2 DEF PicsOf
    <3>4. QED
      BY <2>5, <3>1, <3>3, SeqDef
  <2> HIDE DEF pics
  <2>9. named \in ScreenMessage'
    <3>1. PICK new : new = named
      OBVIOUS
    <3>2. new \in MessageWithPics' /\ new.send = m.send /\ new.role = m.role /\ new.pics = pics
      BY <2>3, <2>8, <3>1 DEF MessageWithPics
    <3>3. SUFFICES ASSUME m.send # Older PROVE OnScreenAs(pics, sending'[m.send])
      BY <3>1, <3>2 DEF ScreenMessage, OnScreenAs
    <3>4. OnScreenAs(m.pics, sending'[m.send])
      <4>1. m \in ScreenMessage'
        BY <2>1, <2>2
      <4>2. QED
        BY <2>3, <3>3, <4>1 DEF ScreenMessage, OnScreenAs
    <3>5. QED
      BY <2>8, <3>4 DEF OnScreenAs
  <2> HIDE DEF named
  <2>10. [transcript EXCEPT ![i] = named] \in Seq(ScreenMessage')
    BY <1>5, <2>1, <2>9, ExceptSeq
  <2>11. QED
    BY <2>4, <2>10
<1>9. QED
  BY <1>7, <1>8

LEMMA ReadyKeeps ==
    ASSUME ImagesInv, ImagesAssumption, NEW s \in Sends, PartsReady(s) \/ SocketConnected(s)
    PROVE  ImagesInv'
<1>1. /\ ReadingInv /\ files \in Seq(Pictures) /\ Len(files) <= MaxFiles
      /\ misnumbered \in BOOLEAN /\ reachable \in BOOLEAN /\ transcript \in Seq(ScreenMessage)
      /\ composer \in Seq(OwnAttachment) /\ savedRows \in Seq(StoredMessage)
      /\ busy \in 0..MaxSends /\ sending[s] \in Outgoing
  BY DEF ImagesInv
<1>2. CASE PartsReady(s)
  <2>1. /\ UNCHANGED <<composer, reading, busy, reachable, files, savedRows>>
        /\ sending[s].at = "preparing" /\ Len(sending[s].parts) = Len(sending[s].attachments)
        /\ \E place \in {"sent", "connecting"} : sending' = SetAt(s, place)
        /\ misnumbered' \in BOOLEAN /\ (misnumbered => misnumbered')
    <3>1. misnumbered' \in BOOLEAN
      BY <1>1, <1>2, Zenon DEF PartsReady
    <3>2. misnumbered => misnumbered'
      BY <1>2, Zenon DEF PartsReady
    <3>3. QED
      BY <1>2, <3>1, <3>2 DEF PartsReady, Prepared
  <2>2. Grows
    BY <2>1 DEF Grows
  <2>3. SendingMoves /\ sending' \in [Sends -> Outgoing']
    BY <2>1, <2>2, PlaceMoves
  <2>4. transcript' \in Seq(ScreenMessage')
    BY <1>2, <2>2, <2>3, FilesTold
  <2>5. savedRows' \in Seq(StoredMessage') /\ composer' \in Seq(OwnAttachment') /\ ReadingInv'
    BY <1>1, <2>1, <2>2, <2>3, MessagesStay, OwnStay, ReadingKept
  <2>6. QED
    BY <1>1, <2>1, <2>2, <2>3, <2>4, <2>5, MovedInv
<1>3. CASE SocketConnected(s)
  <2>1. /\ UNCHANGED <<composer, reading, transcript, busy, misnumbered, reachable, files, savedRows>>
        /\ sending[s].at = "connecting" /\ sending' = SetAt(s, "sent")
    BY <1>3 DEF SocketConnected
  <2>2. Grows
    BY <2>1 DEF Grows
  <2>3. Len(sending[s].parts) = Len(sending[s].attachments)
    BY <1>1, <2>1 DEF Outgoing
  <2>4. SendingMoves /\ sending' \in [Sends -> Outgoing']
    BY <2>1, <2>2, <2>3, PlaceMoves
  <2>5. QED
    BY <1>1, <2>1, <2>2, <2>4, ElsewhereSame
<1>4. QED
  BY <1>2, <1>3

\* Answers on the screen.
LEMMA AnswerShown ==
    ASSUME ImagesInv, SendingMoves, Grows, NEW s \in Sends
    PROVE  Append(transcript, AnswerTo(s)) \in Seq(ScreenMessage')
<1>1. transcript \in Seq(ScreenMessage)
  BY DEF ImagesInv
<1>2. AnswerTo(s) \in ScreenMessage
  BY AnswerIsMessage
<1>3. Append(transcript, AnswerTo(s)) \in Seq(ScreenMessage)
  BY <1>1, <1>2, AppendProperties
<1>4. QED
  BY <1>3, MessagesStay

\* The model is shown the pictures themselves.
LEMMA ContentOf ==
    ASSUME NEW sent \in Outgoing, sent.at = "sent", files \in Seq(Pictures)
    PROVE  /\ ContentFor(sent.parts) \in Seq(Pictures)
           /\ misnumbered \/ ContentFor(sent.parts) = PicsOf(sent.attachments)
<1>1. /\ sent.parts \in Seq(OwnPart) /\ sent.attachments \in Seq(OwnAttachment)
      /\ Len(sent.parts) = Len(sent.attachments)
      /\ \A i \in 1..Len(sent.parts) : sent.parts[i].pic = sent.attachments[i].pic
  BY DEF Outgoing
<1>2. /\ Len(sent.parts) \in Nat /\ DOMAIN sent.parts = 1..Len(sent.parts)
      /\ DOMAIN sent.attachments = 1..Len(sent.parts)
      /\ \A i \in 1..Len(sent.parts) : sent.parts[i] \in OwnPart
  BY <1>1, LenProperties
<1>3. \A i \in 1..Len(files) : files[i] \in Pictures
  BY LenProperties
<1>4. ASSUME NEW p \in OwnPart
      PROVE  ShownPicture(p) \in Pictures /\ (misnumbered \/ ShownPicture(p) = p.pic)
  <2>1. p.pic \in Pictures /\ HasOwnFile(p)
    BY DEF OwnPart, Part
  <2>2. CASE p.file = NoFile
    BY <2>1, <2>2 DEF ShownPicture
  <2>3. CASE p.file # NoFile
    <3>1. Len(files) \in Nat
      BY LenProperties
    <3>2. p.file \in 1..Len(files)
      BY <2>1, <2>3, <3>1 DEF HasOwnFile, NoFile
    <3>3. QED
      BY <1>3, <2>1, <2>3, <3>2 DEF ShownPicture, HasOwnFile
  <2>4. QED
    BY <2>2, <2>3
<1>5. ContentFor(sent.parts) = [i \in 1..Len(sent.parts) |-> ShownPicture(sent.parts[i])]
  BY <1>2 DEF ContentFor
<1>6. ContentFor(sent.parts) \in [1..Len(sent.parts) -> Pictures]
  BY <1>2, <1>4, <1>5
<1>7. ContentFor(sent.parts) \in Seq(Pictures)
  BY <1>2, <1>6, SeqDef
<1>8. CASE ~misnumbered
  <2>1. \A i \in 1..Len(sent.parts) : ShownPicture(sent.parts[i]) = sent.attachments[i].pic
    BY <1>1, <1>2, <1>4, <1>8
  <2>2. QED
    BY <1>2, <1>5, <1>7, <2>1 DEF PicsOf
<1>9. QED
  BY <1>7, <1>8

LEMMA QuestionTaken ==
    ASSUME ImagesInv, ImagesAssumption, NEW s \in Sends, TakeQuestion(s)
    PROVE  ImagesInv'
<1>1. /\ ReadingInv /\ files \in Seq(Pictures) /\ Len(files) <= MaxFiles
      /\ misnumbered \in BOOLEAN /\ reachable \in BOOLEAN /\ transcript \in Seq(ScreenMessage)
      /\ composer \in Seq(OwnAttachment) /\ savedRows \in Seq(StoredMessage)
      /\ busy \in 0..MaxSends
  BY DEF ImagesInv
<1>2. PICK sent \in Outgoing : sent = sending[s]
  BY DEF ImagesInv
<1>3. sent.at = "sent" /\ UNCHANGED <<composer, reading, misnumbered, reachable, files>>
  BY <1>2 DEF TakeQuestion
<1>4. Grows
  BY <1>3 DEF Grows
<1>5. PICK content : content = ContentFor(sent.parts)
  OBVIOUS
<1>6. content \in Seq(Pictures) /\ (misnumbered \/ content = PicsOf(sent.attachments))
  BY <1>1, <1>3, <1>5, ContentOf
<1>7. PICK now : now = [sent EXCEPT !.at = "over", !.seen = content]
  OBVIOUS
<1>8. /\ now \in Outgoing /\ now.at = "over" /\ now.attachments = sent.attachments
      /\ now.parts = sent.parts /\ now.seen = content
  BY <1>6, <1>7 DEF Outgoing
<1>9. sending' = [sending EXCEPT ![s] = now]
  BY <1>2, <1>5, <1>7 DEF TakeQuestion
<1>10. now \in Outgoing'
  BY <1>4, <1>8, OutgoingStay
<1>11. SendingMoves /\ sending'[s] = now /\ sending' \in [Sends -> Outgoing']
  BY <1>2, <1>3, <1>4, <1>8, <1>9, <1>10, OneMoves
<1>12. transcript' \in Seq(ScreenMessage')
  <2>1. transcript \in Seq(ScreenMessage')
    BY <1>1, <1>4, <1>11, MessagesStay
  <2>2. transcript' \in {transcript, Append(transcript, AnswerTo(s))}
    BY DEF TakeQuestion
  <2>3. QED
    BY <1>4, <1>11, <2>1, <2>2, AnswerShown
<1>13. savedRows' \in Seq(StoredMessage')
  <2> DEFINE question == UserMessage(s, StoredPics(sent.parts))
             before == IF AnchorRow(s) = {} THEN savedRows
                       ELSE SubSeq(savedRows, 1, (CHOOSE i \in AnchorRow(s) : TRUE) - 1)
  <2>1. savedRows' = before \o <<question, AnswerTo(s)>>
    BY <1>2 DEF TakeQuestion
  <2>2. before \in Seq(StoredMessage)
    <3>1. CASE AnchorRow(s) = {}
      BY <1>1, <3>1
    <3>2. CASE AnchorRow(s) # {}
      <4>1. PICK i : i = (CHOOSE k \in AnchorRow(s) : TRUE) /\ i \in AnchorRow(s)
        BY <3>2
      <4>2. i \in DOMAIN savedRows
        BY <4>1 DEF AnchorRow, RowOf
      <4>3. i \in Nat /\ \A k \in 1..(i - 1) : savedRows[k] \in StoredMessage
        BY <1>1, <4>2, LenProperties
      <4>4. SubSeq(savedRows, 1, i - 1) \in Seq(StoredMessage)
        BY <4>3, SubSeqProperties
      <4>5. QED
        BY <3>2, <4>1, <4>4
    <3>3. QED
      BY <3>1, <3>2
  <2> HIDE DEF before
  <2>3. before \in Seq(StoredMessage')
    BY <1>4, <1>11, <2>2, MessagesStay
  <2>4. question \in StoredMessage'
    <3>1. PICK m : m = question
      OBVIOUS
    <3>2. sent.parts \in Seq(OwnPart)
      BY DEF Outgoing
    <3>3. StoredPics(sent.parts) \in Seq(OwnPart)
      BY <3>2, StoredPicsOf
    <3>4. m = [send |-> s, role |-> "user", pics |-> StoredPics(sent.parts)]
      BY <3>1 DEF UserMessage
    <3>5. m \in MessageWithPics /\ m.send = s /\ m.pics = StoredPics(sent.parts)
      BY <3>3, <3>4 DEF MessageWithPics, Sends
    <3>6. m \in MessageWithPics'
      BY <1>4, <1>11, <3>5, MessagesStay
    <3>7. StoredAs(m.pics, now)'
      BY <1>3, <1>6, <1>8, <3>5 DEF StoredAs
    <3>8. StoredAs(m.pics, sending[m.send])'
      BY <1>11, <3>5, <3>7
    <3>9. m \in StoredMessage'
      BY <3>6, <3>8 DEF StoredMessage
    <3>10. QED
      BY <3>1, <3>9
  <2>5. AnswerTo(s) \in StoredMessage'
    <3>1. AnswerTo(s) \in StoredMessage
      BY AnswerIsMessage
    <3>2. AnswerTo(s) \in MessageWithPics' /\ AnswerTo(s).role # "user"
      BY <1>4, <1>11, <3>1, MessagesStay DEF StoredMessage, AnswerTo
    <3>3. PICK m : m = AnswerTo(s)
      OBVIOUS
    <3>4. m \in StoredMessage'
      BY <3>2, <3>3 DEF StoredMessage
    <3>5. QED
      BY <3>3, <3>4
  <2> HIDE DEF question
  <2>6. <<question, AnswerTo(s)>> \in Seq(StoredMessage')
    BY <2>4, <2>5
  <2>7. QED
    BY <2>1, <2>3, <2>6, ConcatProperties
<1>14. composer' \in Seq(OwnAttachment') /\ ReadingInv'
  BY <1>1, <1>3, <1>4, OwnStay, ReadingKept
<1>15. busy' \in 0..MaxSends
  BY <1>1 DEF TakeQuestion, ImagesAssumption
<1>16. QED
  BY <1>1, <1>3, <1>4, <1>11, <1>12, <1>13, <1>14, <1>15, MovedInv

LEMMA OverKeeps ==
    ASSUME ImagesInv, ImagesAssumption,
           StopSending \/ ReloadTranscript \/ \E s \in Sends : GatewayRefuses(s)
    PROVE  ImagesInv'
<1>1. /\ ReadingInv /\ files \in Seq(Pictures) /\ Len(files) <= MaxFiles
      /\ misnumbered \in BOOLEAN /\ reachable \in BOOLEAN /\ transcript \in Seq(ScreenMessage)
      /\ composer \in Seq(OwnAttachment) /\ savedRows \in Seq(StoredMessage)
      /\ busy \in 0..MaxSends /\ sending \in [Sends -> Outgoing]
  BY DEF ImagesInv
<1>2. UNCHANGED <<composer, reading, misnumbered, reachable, files, savedRows>>
  BY DEF StopSending, ReloadTranscript, GatewayRefuses
<1>3. Grows
  BY <1>2 DEF Grows
<1>4. busy' \in 0..MaxSends
  BY <1>1 DEF StopSending, ReloadTranscript, GatewayRefuses, ImagesAssumption
<1>5. SUFFICES SendingMoves /\ sending' \in [Sends -> Outgoing'] /\ transcript' \in Seq(ScreenMessage')
  <2>1. savedRows' \in Seq(StoredMessage') /\ composer' \in Seq(OwnAttachment') /\ ReadingInv'
    BY <1>1, <1>2, <1>3, <1>5, MessagesStay, OwnStay, ReadingKept
  <2>2. QED
    BY <1>1, <1>2, <1>3, <1>4, <1>5, <2>1, MovedInv
<1>6. CASE StopSending
  <2>1. UNCHANGED sending /\ busy \in Sends /\ transcript' = Append(transcript, AnswerTo(busy))
    BY <1>1, <1>6 DEF StopSending, Sends
  <2>2. SendingMoves /\ sending' \in [Sends -> Outgoing']
    BY <1>1, <1>3, <2>1, OutgoingStay DEF SendingMoves
  <2>3. QED
    BY <1>3, <2>1, <2>2, AnswerShown
<1>7. CASE ReloadTranscript
  <2>1. UNCHANGED sending /\ transcript' = savedRows
    BY <1>7 DEF ReloadTranscript
  <2>2. SendingMoves /\ sending' \in [Sends -> Outgoing']
    BY <1>1, <1>3, <2>1, OutgoingStay DEF SendingMoves
  <2>3. savedRows \in Seq(ScreenMessage)
    BY <1>1, StoredIsShown
  <2>4. QED
    BY <1>3, <2>1, <2>2, <2>3, MessagesStay
<1>8. ASSUME NEW s \in Sends, GatewayRefuses(s)
      PROVE  SendingMoves /\ sending' \in [Sends -> Outgoing'] /\ transcript' \in Seq(ScreenMessage')
  <2>1. sending[s].at = "sent" /\ sending' = SetAt(s, "over")
        /\ transcript' \in {transcript, Append(transcript, AnswerTo(s))}
    BY <1>8 DEF GatewayRefuses
  <2>2. SendingMoves /\ sending' \in [Sends -> Outgoing']
    BY <1>3, <2>1, PlaceMoves
  <2>3. QED
    BY <1>1, <1>3, <2>1, <2>2, AnswerShown, MessagesStay
<1>9. QED
  BY <1>6, <1>7, <1>8

LEMMA ImagesStepInv ==
    ASSUME ImagesInv, ImagesAssumption, [ImagesNext]_imageVars
    PROVE  ImagesInv'
<1>1. CASE ImagesNext
  BY <1>1, ComposingKeeps, SendingKeeps, PreparingKeeps, TakenBackKeeps, ReadyKeeps,
     QuestionTaken, OverKeeps DEF ImagesNext
<1>2. CASE UNCHANGED imageVars
  <2>1. UNCHANGED <<composer, reading, transcript, sending, busy, misnumbered, reachable, files,
                    savedRows>>
    BY <1>2 DEF imageVars
  <2>2. composer' \in Seq(OwnAttachment) /\ reachable' \in BOOLEAN
    BY <2>1 DEF ImagesInv
  <2>3. ReadingInv'
    BY <2>1, ReadingKept DEF ImagesInv, Grows
  <2>4. QED
    BY <2>1, <2>2, <2>3, ComposerStepInv
<1>3. QED
  BY <1>1, <1>2

THEOREM ImagesInvariant == ImagesSpec => []ImagesInv
<1>1. ImagesInit => ImagesInv
  BY ImagesInitInv, ImagesAssumption
<1>2. ImagesInv /\ [ImagesNext]_imageVars => ImagesInv'
  BY ImagesStepInv, ImagesAssumption
<1>3. QED
  BY <1>1, <1>2, PTL DEF ImagesSpec

\* Every reachable state of the pictures and the messages they are sent with is well typed.
THEOREM ImagesTypeCorrect == ImagesSpec => []ImagesTypeOK
<1>1. ImagesInv => ImagesTypeOK
  <2> SUFFICES ASSUME ImagesInv PROVE ImagesTypeOK
    OBVIOUS
  <2>1. OwnAttachment \subseteq Attachment /\ OwnPart \subseteq Part
    BY DEF OwnAttachment, OwnPart
  <2>2. Seq(OwnAttachment) \subseteq Seq(Attachment) /\ Seq(OwnPart) \subseteq Seq(Part)
    BY <2>1, WiderSeq
  <2>3. ASSUME NEW i \in DOMAIN transcript
        PROVE  transcript[i].send \in 0..MaxSends /\ transcript[i].pics \in Seq(Part)
    <3>1. transcript[i] \in MessageWithPics
      BY LenProperties DEF ImagesInv, ScreenMessage
    <3>2. QED
      BY <2>2, <3>1 DEF MessageWithPics
  <2>4. ASSUME NEW s \in Sends
        PROVE  /\ sending[s].at \in {"no", "preparing", "connecting", "sent", "over"}
               /\ sending[s].attachments \in Seq(Attachment)
               /\ sending[s].parts \in Seq(Part) /\ sending[s].seen \in Seq(Pictures)
    BY <2>2 DEF ImagesInv, Outgoing
  <2>5. QED
    BY <2>2, <2>3, <2>4 DEF ImagesInv, ReadingInv, ImagesTypeOK
<1>2. QED
  BY <1>1, ImagesInvariant, PTL

\* What the model saw of a stored message is what the shopper sees in it and, unless it
\* mixes references with data, what is stored, each picture under its own file's number,
\* until a message is told another one's files; for any pictures, messages, uploads and
\* reloads.
THEOREM PicturesCorrect == ImagesSpec => []PicturesStayTogether
<1>1. ImagesInv => PicturesStayTogether
  <2> SUFFICES ASSUME ImagesInv, ~misnumbered
               PROVE  /\ \A i \in DOMAIN savedRows :
                             /\ OwnFiles(savedRows[i].pics)
                             /\ savedRows[i].role = "user" /\ savedRows[i].send # Older
                                    => SamePictures(savedRows[i], savedRows[i].send)
                      /\ \A i \in DOMAIN transcript :
                             /\ OwnFiles(transcript[i].pics)
                             /\ transcript[i].role = "user" /\ RowOf(transcript[i].send) # {}
                                    => LET sent == sending[transcript[i].send]
                                       IN transcript[i].send = Older \/ PicsOf(transcript[i].pics)
                                              \in {sent.seen, PicsOf(StoredPics(sent.parts))}
    BY DEF PicturesStayTogether
  <2>1. ASSUME NEW m \in MessageWithPics PROVE OwnFiles(m.pics)
    <3>1. m.pics \in Seq(OwnPart)
      BY DEF MessageWithPics
    <3>2. \A i \in DOMAIN m.pics : m.pics[i] \in OwnPart
      BY <3>1, LenProperties
    <3>3. QED
      BY <3>2 DEF OwnFiles, OwnPart, HasOwnFile
  <2>2. ASSUME NEW i \in DOMAIN savedRows
        PROVE  /\ savedRows[i] \in MessageWithPics
               /\ savedRows[i].role = "user" /\ savedRows[i].send # Older
                      => SamePictures(savedRows[i], savedRows[i].send)
    <3>1. savedRows[i] \in StoredMessage
      BY LenProperties DEF ImagesInv
    <3>2. QED
      BY <3>1 DEF StoredMessage, StoredAs, SamePictures
  <2>3. ASSUME NEW i \in DOMAIN transcript
        PROVE  /\ transcript[i] \in MessageWithPics
               /\ transcript[i].role = "user" /\ RowOf(transcript[i].send) # {}
                      => transcript[i].send = Older \/ PicsOf(transcript[i].pics)
                             \in {sending[transcript[i].send].seen,
                                  PicsOf(StoredPics(sending[transcript[i].send].parts))}
    <3>1. transcript[i] \in ScreenMessage
      BY LenProperties DEF ImagesInv
    <3>2. SUFFICES ASSUME transcript[i].role = "user", RowOf(transcript[i].send) # {},
                          transcript[i].send # Older
                   PROVE  PicsOf(transcript[i].pics)
                             \in {sending[transcript[i].send].seen,
                                  PicsOf(StoredPics(sending[transcript[i].send].parts))}
      BY <3>1 DEF ScreenMessage
    <3>3. OnScreenAs(transcript[i].pics, sending[transcript[i].send])
      BY <3>1, <3>2 DEF ScreenMessage
    <3>4. PICK j \in DOMAIN savedRows :
             savedRows[j].send = transcript[i].send /\ savedRows[j].role = "user"
      BY <3>2 DEF RowOf
    <3>5. SamePictures(savedRows[j], transcript[i].send)
      BY <2>2, <3>2, <3>4
    <3>6. QED
      BY <3>3, <3>5 DEF OnScreenAs, SamePictures
  <2>4. QED
    BY <2>1, <2>2, <2>3
<1>2. QED
  BY <1>1, ImagesInvariant, PTL
=============================================================================
