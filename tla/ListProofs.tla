----------------------------- MODULE ListProofs ------------------------------
(***************************************************************************)
(* Proofs about lists: what slice, filter and flat of MessageLists return of *)
(* every list.  A recursive function is what the loop it stands for builds, *)
(* one member after the other (Iterates); what holds at its start and is kept *)
(* by each step holds at its end (UpTo).                                   *)
(***************************************************************************)
EXTENDS MessageLists, SequenceTheorems, WellFoundedInduction, TLAPS

-----------------------------------------------------------------------------
(***************************************************************************)
(* Lists                                                                   *)
(***************************************************************************)
\* n steps from a set to itself, and the function f that takes them one after the other.
Steps(n, S) == [1..n -> [S -> S]]
Iterated(f, n, S, base, step) ==
    f \in [0..n -> S] /\ f[0] = base /\ \A i \in 1..n : f[i] = step[i][f[i - 1]]

\* Every step from a set to itself can be iterated: a recursive function is one.
LEMMA Iterates ==
    ASSUME NEW n \in Nat, NEW S, NEW base \in S, NEW step \in Steps(n, S)
    PROVE  \E f : Iterated(f, n, S, base, step)
<1> USE DEF Steps, Iterated
<1> DEFINE Iterate(m) == \E f \in [0..m -> S] :
                            f[0] = base /\ \A i \in 1..m : f[i] = step[i][f[i - 1]]
           without == {m \in 0..n : ~Iterate(m)}
           less == {x \in Nat \X Nat : x[1] < x[2]}
<1>1. IsWellFoundedOn(less, Nat)
  BY NatLessThanWellFounded DEF OpToRel
<1>2. Iterate(0)
  <2> DEFINE f == [i \in 0..0 |-> base]
  <2>1. f \in [0..0 -> S] /\ f[0] = base /\ 1..0 = {}
    OBVIOUS
  <2>2. \A i \in 1..0 : f[i] = step[i][f[i - 1]]
    BY <2>1
  <2> HIDE DEF f
  <2>3. QED
    BY <2>1, <2>2
<1>3. ASSUME NEW m \in 0..n, m # n, Iterate(m) PROVE Iterate(m + 1)
  <2>1. PICK f \in [0..m -> S] : f[0] = base /\ \A i \in 1..m : f[i] = step[i][f[i - 1]]
    BY <1>3
  <2> DEFINE g == [i \in 0..(m + 1) |-> IF i <= m THEN f[i] ELSE step[m + 1][f[m]]]
  <2>2. m + 1 \in 1..n /\ step[m + 1] \in [S -> S] /\ f[m] \in S
    BY <1>3
  <2>3. g \in [0..(m + 1) -> S]
    BY <2>2
  <2>4. g[0] = base /\ \A i \in 1..(m + 1) : g[i] = step[i][g[i - 1]]
    BY <2>1, <2>2
  <2>5. QED
    BY <2>3, <2>4
<1>4. without = {}
  <2> SUFFICES ASSUME without # {} PROVE FALSE
    OBVIOUS
  <2>1. without \subseteq Nat
    OBVIOUS
  <2>2. PICK m \in without : \A k \in without : ~(<<k, m>> \in less)
    <3> HIDE DEF less, without
    <3> QED BY <1>1, <2>1, WFMin
  <2>3. m # 0 /\ m \in 1..n /\ ~Iterate(m)
    <3>1. m \in 0..n /\ ~Iterate(m)
      OBVIOUS
    <3> HIDE DEF Iterate, without
    <3>2. QED
      BY <1>2, <3>1
  <2> HIDE DEF Iterate
  <2>4. m - 1 \in 0..n /\ m - 1 # n /\ m - 1 \in Nat /\ m - 1 < m
    BY <2>3
  <2>5. m - 1 \notin without
    BY <2>1, <2>2, <2>4
  <2>6. Iterate(m - 1)
    BY <2>4, <2>5
  <2>7. Iterate((m - 1) + 1)
    BY <1>3, <2>4, <2>6
  <2>8. (m - 1) + 1 = m
    BY <2>3
  <2>9. QED
    BY <2>3, <2>7, <2>8
<1>5. QED
  BY <1>4

\* Induction over the numbers up to n, for a set of them.
LEMMA UpTo ==
    ASSUME NEW n \in Nat, NEW D, 0 \in D, \A i \in 1..n : i - 1 \in D => i \in D
    PROVE  \A i \in 0..n : i \in D
<1> DEFINE outside == {m \in 0..n : m \notin D}
           less == {x \in Nat \X Nat : x[1] < x[2]}
<1>1. IsWellFoundedOn(less, Nat)
  BY NatLessThanWellFounded DEF OpToRel
<1>2. outside = {}
  <2> SUFFICES ASSUME outside # {} PROVE FALSE
    OBVIOUS
  <2>1. outside \subseteq Nat
    OBVIOUS
  <2>2. PICK m \in outside : \A k \in outside : ~(<<k, m>> \in less)
    <3> HIDE DEF less, outside
    <3> QED BY <1>1, <2>1, WFMin
  <2>3. m # 0 /\ m \in 1..n /\ m - 1 \in 0..n /\ m - 1 < m
    OBVIOUS
  <2>4. m - 1 \notin outside
    BY <2>1, <2>2, <2>3
  <2>5. QED
    BY <2>3, <2>4
<1>3. QED
  BY <1>2

\* What holds of the first value of a function, and of each if of the one before, holds
\* of the last.
LEMMA StaysIn ==
    ASSUME NEW n \in Nat, NEW S, NEW f, f[0] \in S,
           \A i \in 1..n : f[i - 1] \in S => f[i] \in S
    PROVE  f[n] \in S
<1> DEFINE D == {i \in 0..n : f[i] \in S}
<1>1. 0 \in D /\ \A i \in 1..n : i - 1 \in D => i \in D
  OBVIOUS
<1> HIDE DEF D
<1>2. n \in D
  BY <1>1, UpTo
<1>3. QED
  BY <1>2 DEF D

\* A nonempty set of numbers up to n has a largest one.
LEMMA Largest ==
    ASSUME NEW n \in Nat, NEW numbers, numbers \subseteq 0..n, numbers # {}
    PROVE  \E j \in numbers : \A k \in numbers : k <= j
<1> DEFINE D == {i \in 0..n : numbers \cap 0..i = {}
                              \/ \E j \in numbers : j <= i /\ \A k \in numbers : k <= i => k <= j}
<1>1. 0 \in D /\ \A i \in 1..n : i - 1 \in D => i \in D
  <2>1. 0 \in D
    OBVIOUS
  <2>2. ASSUME NEW i \in 1..n, i - 1 \in D PROVE i \in D
    <3>1. CASE i \in numbers
      BY <3>1
    <3>2. CASE i \notin numbers
      <4>1. \A k \in numbers : k <= i <=> k <= i - 1
        BY <3>2
      <4>2. CASE numbers \cap 0..(i - 1) = {}
        <5>1. numbers \cap 0..i = {}
          BY <4>1, <4>2
        <5>2. QED
          BY <5>1
      <4>3. CASE \E j \in numbers : j <= i - 1 /\ \A k \in numbers : k <= i - 1 => k <= j
        BY <4>1, <4>3
      <4>4. QED
        BY <2>2, <4>2, <4>3
    <3>3. QED
      BY <3>1, <3>2
  <2>3. QED
    BY <2>1, <2>2
<1> HIDE DEF D
<1>2. n \in D
  BY <1>1, UpTo
<1>3. QED
  <2>0. PICK k \in numbers : k \in 0..n
    OBVIOUS
  <2>1. numbers \cap 0..n # {} /\ \A j \in numbers : j <= n
    BY <2>0
  <2>2. \E j \in numbers : j <= n /\ \A i \in numbers : i <= n => i <= j
    BY <1>2, <2>1 DEF D
  <2>3. QED
    BY <2>1, <2>2

\* f[n] is what the first n members leave of seq: each that fits is added at the end.
Built(f, S, seq, fits) ==
    f \in [0..Len(seq) -> Seq(S)] /\ f[0] = <<>> /\ \A i \in 1..Len(seq) :
        f[i] = IF <<i, f[i - 1]>> \in fits THEN Append(f[i - 1], seq[i]) ELSE f[i - 1]

\* A sequence is built from another one: each member is taken or left.
LEMMA Builds ==
    ASSUME NEW S, NEW seq \in Seq(S), NEW fits
    PROVE  \E f : Built(f, S, seq, fits)
<1>1. PICK n \in Nat : n = Len(seq) /\ seq \in [1..n -> S]
  BY LenProperties
<1> DEFINE step == [i \in 1..n |-> [t \in Seq(S) |->
                       IF <<i, t>> \in fits THEN Append(t, seq[i]) ELSE t]]
<1>2. step \in Steps(n, Seq(S))
  <2>1. \A i \in 1..n : \A t \in Seq(S) : Append(t, seq[i]) \in Seq(S)
    BY <1>1, AppendProperties
  <2>2. QED
    BY <2>1 DEF Steps
<1>3. <<>> \in Seq(S)
  BY EmptySeq
<1>4. \A i \in 1..n : \A t \in Seq(S) :
         step[i][t] = IF <<i, t>> \in fits THEN Append(t, seq[i]) ELSE t
  OBVIOUS
<1> HIDE DEF step
<1>5. PICK f : Iterated(f, n, Seq(S), <<>>, step)
  BY <1>2, <1>3, Iterates
<1>6. \A i \in 1..n : f[i - 1] \in Seq(S)
  BY <1>5 DEF Iterated
<1>7. \A i \in 1..n :
         f[i] = IF <<i, f[i - 1]>> \in fits THEN Append(f[i - 1], seq[i]) ELSE f[i - 1]
  BY <1>4, <1>5, <1>6 DEF Iterated
<1>8. Built(f, S, seq, fits)
  BY <1>1, <1>5, <1>7 DEF Built, Iterated
<1>9. QED
  BY <1>8

\* What is built has members of the sequence only.
LEMMA BuildsMembers ==
    ASSUME NEW n \in Nat, NEW S, NEW seq \in [1..n -> S], NEW t,
           t[0] = <<>>,
           \A i \in 1..n : t[i] \in {Append(t[i - 1], seq[i]), t[i - 1]}
    PROVE  t[n] \in Seq(S)
<1>1. t[0] \in Seq(S)
  BY EmptySeq
<1>2. \A i \in 1..n : t[i - 1] \in Seq(S) => t[i] \in Seq(S)
  <2> SUFFICES ASSUME NEW i \in 1..n, t[i - 1] \in Seq(S) PROVE t[i] \in Seq(S)
    OBVIOUS
  <2>1. seq[i] \in S
    OBVIOUS
  <2>2. Append(t[i - 1], seq[i]) \in Seq(S)
    BY <2>1, AppendProperties
  <2>3. QED
    BY <2>2
<1>3. QED
  BY <1>1, <1>2, StaysIn

\* filter as a loop: what it holds after each member.
Filtered(t, S, seq, places) ==
    /\ t \in [0..Len(seq) -> Seq(S)] /\ t[0] = <<>>
    /\ \A i \in 1..Len(seq) : t[i] = IF i \in places THEN Append(t[i - 1], seq[i]) ELSE t[i - 1]
LEMMA Filters ==
    ASSUME NEW S, NEW seq \in Seq(S), NEW places
    PROVE  \E t : Filtered(t, S, seq, places) /\ MembersAt(seq, places) = t[Len(seq)]
<1>1. PICK n \in Nat : n = Len(seq) /\ seq \in [1..n -> S]
  BY LenProperties
<1> DEFINE Taken(t) == t = [i \in 0..n |->
                               IF i = 0 THEN <<>>
                               ELSE IF i \in places THEN Append(t[i - 1], seq[i]) ELSE t[i - 1]]
           taken == CHOOSE t : Taken(t)
           fits == {x \in (1..n) \X Seq(S) : x[1] \in places}
<1>2. PICK f \in [0..n -> Seq(S)] :
           f[0] = <<>> /\ \A i \in 1..n :
               f[i] = IF <<i, f[i - 1]>> \in fits THEN Append(f[i - 1], seq[i]) ELSE f[i - 1]
  <2> HIDE DEF fits
  <2>1. PICK f : Built(f, S, seq, fits)
    BY Builds
  <2>2. QED
    BY <1>1, <2>1 DEF Built
<1>3. \A i \in 1..n : i - 1 \in 0..n /\ f[i - 1] \in Seq(S)
  OBVIOUS
<1>4. \A i \in 1..n : <<i, f[i - 1]>> \in fits <=> i \in places
  BY <1>3
<1>5. Taken(f)
  <2> HIDE DEF fits
  <2>1. \A i \in 1..n : f[i] = IF i \in places THEN Append(f[i - 1], seq[i]) ELSE f[i - 1]
    BY <1>2, <1>4
  <2>2. \A i \in 0..n :
           f[i] = IF i = 0 THEN <<>>
                  ELSE IF i \in places THEN Append(f[i - 1], seq[i]) ELSE f[i - 1]
    <3>1. \A i \in 0..n : i = 0 \/ i \in 1..n
      OBVIOUS
    <3>2. QED
      BY <1>2, <2>1, <3>1
  <2>3. QED
    BY <2>2
<1>6. Taken(taken)
  <2> HIDE DEF Taken
  <2> QED BY <1>5
<1>7. MembersAt(seq, places) = taken[n]
  BY <1>1 DEF MembersAt
<1> HIDE DEF fits, taken
<1>8. PICK t : t = taken
  OBVIOUS
<1>9. t = [i \in 0..n |->
               IF i = 0 THEN <<>>
               ELSE IF i \in places THEN Append(t[i - 1], seq[i]) ELSE t[i - 1]]
  BY <1>6, <1>8
<1> HIDE DEF Taken
<1>10. t[0] = <<>> /\ DOMAIN t = 0..n
  BY <1>9
<1>11. ASSUME NEW i \in 1..n
       PROVE  t[i] = IF i \in places THEN Append(t[i - 1], seq[i]) ELSE t[i - 1]
  <2>1. i \in 0..n /\ i # 0
    OBVIOUS
  <2>2. QED
    BY <1>9, <2>1
<1> DEFINE D == {i \in 0..n : t[i] \in Seq(S)}
<1>12. 0 \in D
  <2>1. t[0] \in Seq(S)
    BY <1>10, EmptySeq
  <2>2. QED
    BY <2>1
<1>13. ASSUME NEW i \in 1..n, i - 1 \in D PROVE i \in D
  <2>1. seq[i] \in S /\ t[i - 1] \in Seq(S)
    BY <1>1, <1>13
  <2>2. Append(t[i - 1], seq[i]) \in Seq(S)
    BY <2>1, AppendProperties
  <2>3. t[i] \in Seq(S)
    BY <1>11, <2>1, <2>2
  <2>4. QED
    BY <2>3
<1> HIDE DEF D
<1>14. \A i \in 0..n : i \in D
  BY <1>12, <1>13, UpTo
<1>15. t \in [0..n -> Seq(S)]
  <2>1. \A i \in 0..n : t[i] \in Seq(S)
    BY <1>14 DEF D
  <2>2. t = [i \in 0..n |-> t[i]]
    BY <1>9
  <2>3. QED
    BY <2>1, <2>2
<1>16. Filtered(t, S, seq, places)
  BY <1>1, <1>10, <1>11, <1>15 DEF Filtered
<1>17. QED
  BY <1>1, <1>7, <1>8, <1>16

\* The members at some places are members.
LEMMA MembersOf ==
    ASSUME NEW S, NEW seq \in Seq(S), NEW places
    PROVE  MembersAt(seq, places) \in Seq(S)
<1>1. PICK t : Filtered(t, S, seq, places) /\ MembersAt(seq, places) = t[Len(seq)]
  BY Filters
<1>2. QED
  BY <1>1, LenProperties DEF Filtered

\* The last of them is at the last place.
LEMMA LastMember ==
    ASSUME NEW S, NEW seq \in Seq(S), NEW places
    PROVE  /\ places \cap 1..Len(seq) = {} => MembersAt(seq, places) = <<>>
           /\ \A m \in places \cap 1..Len(seq) :
                 (\A k \in places \cap 1..Len(seq) : k <= m)
                 => LET taken == MembersAt(seq, places)
                    IN Len(taken) \in Nat \ {0} /\ taken[Len(taken)] = seq[m]
<1>1. PICK n \in Nat : n = Len(seq) /\ seq \in [1..n -> S]
  BY LenProperties
<1>2. PICK t : Filtered(t, S, seq, places) /\ MembersAt(seq, places) = t[n]
  BY <1>1, Filters
<1> DEFINE None(i) == (\A k \in 1..i : k \notin places) /\ t[i] = <<>>
           Some(i) == \E m \in places : /\ m \in 1..i /\ \A k \in 1..i : k \in places => k <= m
                                        /\ Len(t[i]) # 0 /\ t[i][Len(t[i])] = seq[m]
           D == {i \in 0..n : None(i) \/ Some(i)}
<1>3. 0 \in D
  BY <1>1, <1>2 DEF Filtered
<1>4. ASSUME NEW i \in 1..n, i - 1 \in D PROVE i \in D
  <2>1. t[i - 1] \in Seq(S) /\ seq[i] \in S /\ i \in 0..n
    BY <1>1, <1>2 DEF Filtered
  <2>2. CASE i \in places
    <3>1. t[i] = Append(t[i - 1], seq[i])
      BY <1>1, <1>2, <2>2 DEF Filtered
    <3>2. Len(t[i]) # 0 /\ t[i][Len(t[i])] = seq[i]
      BY <2>1, <3>1, AppendProperties, LenProperties
    <3>3. Some(i)
      BY <2>2, <3>2
    <3>4. QED
      BY <2>1, <3>3
  <2>3. CASE i \notin places
    <3>1. t[i] = t[i - 1]
      BY <1>1, <1>2, <2>3 DEF Filtered
    <3>2. \A k \in 1..i : k \in places => k \in 1..(i - 1)
      BY <2>3
    <3>3. CASE None(i - 1)
      <4>1. None(i)
        BY <3>1, <3>2, <3>3
      <4>2. QED
        BY <2>1, <4>1
    <3>4. CASE Some(i - 1)
      <4>1. Some(i)
        BY <3>1, <3>2, <3>4
      <4>2. QED
        BY <2>1, <4>1
    <3>5. QED
      BY <1>4, <3>3, <3>4
  <2>4. QED
    BY <2>2, <2>3
<1> HIDE DEF D
<1>5. \A i \in 0..n : i \in D
  BY <1>3, <1>4, UpTo
<1>6. None(n) \/ Some(n)
  BY <1>5 DEF D
<1>7. t[n] \in Seq(S) /\ Len(t[n]) \in Nat
  BY <1>1, <1>2, LenProperties DEF Filtered
<1>8. CASE None(n)
  BY <1>1, <1>2, <1>8
<1>9. CASE Some(n)
  <2>1. PICK m \in places : /\ m \in 1..n /\ \A k \in 1..n : k \in places => k <= m
                            /\ Len(t[n]) # 0 /\ t[n][Len(t[n])] = seq[m]
    BY <1>9
  <2>2. ASSUME NEW q \in places \cap 1..n, \A k \in places \cap 1..n : k <= q PROVE q = m
    BY <2>1, <2>2
  <2>3. QED
    BY <1>1, <1>2, <1>7, <2>1, <2>2
<1>10. QED
  BY <1>6, <1>8, <1>9

\* filter and map commute.
Maps(g, S, T, seq, mapped) ==
    /\ g \in [S -> T] /\ seq \in Seq(S) /\ mapped \in Seq(T)
    /\ Len(mapped) = Len(seq) /\ \A i \in 1..Len(seq) : mapped[i] = g[seq[i]]
LEMMA FilterOfMap ==
    ASSUME NEW S, NEW T, NEW g, NEW seq, NEW mapped, Maps(g, S, T, seq, mapped), NEW places
    PROVE  /\ Len(MembersAt(mapped, places)) = Len(MembersAt(seq, places))
           /\ \A j \in 1..Len(MembersAt(seq, places)) :
                 MembersAt(mapped, places)[j] = g[MembersAt(seq, places)[j]]
<1> USE DEF Maps
<1>1. PICK n \in Nat : n = Len(seq) /\ seq \in [1..n -> S] /\ mapped \in [1..n -> T]
  BY LenProperties
<1>2. PICK t : Filtered(t, S, seq, places) /\ MembersAt(seq, places) = t[n]
  BY <1>1, Filters
<1>3. PICK u : Filtered(u, T, mapped, places) /\ MembersAt(mapped, places) = u[n]
  BY <1>1, Filters
<1> DEFINE D == {i \in 0..n : Len(u[i]) = Len(t[i]) /\ \A j \in 1..Len(t[i]) : u[i][j] = g[t[i][j]]}
<1>4. 0 \in D
  BY <1>2, <1>3 DEF Filtered
<1>5. ASSUME NEW i \in 1..n, i - 1 \in D PROVE i \in D
  <2>1. i \in 0..n /\ i - 1 \in 0..n /\ seq[i] \in S /\ mapped[i] \in T /\ mapped[i] = g[seq[i]]
    BY <1>1
  <2>0. t[i - 1] \in Seq(S) /\ u[i - 1] \in Seq(T)
    BY <1>1, <1>2, <1>3, <2>1 DEF Filtered
  <2>2. CASE i \in places
    <3>1. t[i] = Append(t[i - 1], seq[i]) /\ u[i] = Append(u[i - 1], mapped[i])
      BY <1>1, <1>2, <1>3, <2>2 DEF Filtered
    <3>2. /\ Len(t[i - 1]) \in Nat
          /\ Len(t[i]) = Len(t[i - 1]) + 1 /\ t[i][Len(t[i - 1]) + 1] = seq[i]
          /\ \A j \in 1..Len(t[i - 1]) : t[i][j] = t[i - 1][j]
      BY <2>0, <2>1, <3>1, AppendProperties, LenProperties
    <3>3. /\ Len(u[i - 1]) \in Nat
          /\ Len(u[i]) = Len(u[i - 1]) + 1 /\ u[i][Len(u[i - 1]) + 1] = mapped[i]
          /\ \A j \in 1..Len(u[i - 1]) : u[i][j] = u[i - 1][j]
      BY <2>0, <2>1, <3>1, AppendProperties, LenProperties
    <3>4. \A j \in 1..Len(t[i]) : j \in 1..Len(t[i - 1]) \/ j = Len(t[i - 1]) + 1
      BY <3>2
    <3>5. QED
      BY <1>5, <2>1, <3>2, <3>3, <3>4
  <2>3. CASE i \notin places
    <3>1. t[i] = t[i - 1] /\ u[i] = u[i - 1]
      BY <1>1, <1>2, <1>3, <2>3 DEF Filtered
    <3>2. QED
      BY <1>5, <2>1, <3>1
  <2>4. QED
    BY <2>2, <2>3
<1> HIDE DEF D
<1>6. \A i \in 0..n : i \in D
  BY <1>4, <1>5, UpTo
<1>7. QED
  BY <1>2, <1>3, <1>6 DEF D

\* The first members of a sequence.
LEMMA SliceOf ==
    ASSUME NEW S, NEW seq \in Seq(S), NEW n \in Nat
    PROVE  Slice(seq, n) \in Seq(S)
<1>1. Len(seq) \in Nat /\ \A i \in 1..Len(seq) : seq[i] \in S
  BY LenProperties
<1>2. PICK m \in Nat : m <= Len(seq) /\ Slice(seq, n) = SubSeq(seq, 1, m)
  BY <1>1 DEF Slice
<1>3. \A i \in 1..m : seq[i] \in S
  BY <1>1, <1>2
<1>4. SubSeq(seq, 1, m) \in Seq(S)
  BY <1>3, SubSeqProperties
<1>5. QED
  BY <1>2, <1>4

\* Sequences over a set are sequences over a wider one.
LEMMA WiderSeq ==
    ASSUME NEW S, NEW T, S \subseteq T
    PROVE  Seq(S) \subseteq Seq(T)
<1>1. ASSUME NEW seq \in Seq(S) PROVE seq \in Seq(T)
  <2>1. Len(seq) \in Nat /\ seq \in [1..Len(seq) -> S]
    BY LenProperties
  <2>2. seq \in [1..Len(seq) -> T]
    BY <2>1
  <2>3. QED
    BY <2>1, <2>2, SeqDef
<1>2. QED
  BY <1>1

\* The library's facts about two sequences, to be used of any two.
LEMMA Concats ==
    ASSUME NEW S
    PROVE  \A x, y \in Seq(S) :
              /\ x \o y \in Seq(S) /\ Len(x \o y) = Len(x) + Len(y)
              /\ \A i \in 1..(Len(x) + Len(y)) :
                    (x \o y)[i] = IF i <= Len(x) THEN x[i] ELSE y[i - Len(x)]
<1>1. TAKE x, y \in Seq(S)
<1>2. QED
  BY ConcatProperties
LEMMA EqualSeqs ==
    ASSUME NEW S
    PROVE  \A x, y \in Seq(S) : Len(x) = Len(y) /\ (\A i \in 1..Len(x) : x[i] = y[i]) => x = y
<1>1. TAKE x, y \in Seq(S)
<1>2. QED
  BY SeqEqual

\* flat as a loop: what it holds after each list.
Joins(f, T, lists) ==
    /\ f \in [0..Len(lists) -> Seq(T)] /\ f[0] = <<>>
    /\ \A i \in 1..Len(lists) : f[i] = f[i - 1] \o lists[i]
LEMMA Joining ==
    ASSUME NEW T, NEW lists \in Seq(Seq(T))
    PROVE  \E f : Joins(f, T, lists) /\ Joined(lists) = f[Len(lists)]
<1>1. PICK n \in Nat : n = Len(lists) /\ lists \in [1..n -> Seq(T)]
  BY LenProperties
<1> DEFINE Makes(f) == f = [i \in 0..n |-> IF i = 0 THEN <<>> ELSE f[i - 1] \o lists[i]]
           joined == CHOOSE f : Makes(f)
           step == [i \in 1..n |-> [t \in Seq(T) |-> t \o lists[i]]]
<1>2. step \in Steps(n, Seq(T))
  <2>1. \A i \in 1..n : \A t \in Seq(T) : t \o lists[i] \in Seq(T)
    BY <1>1, ConcatProperties
  <2>2. QED
    BY <2>1 DEF Steps
<1>3. <<>> \in Seq(T)
  BY EmptySeq
<1>4. \A i \in 1..n : \A t \in Seq(T) : step[i][t] = t \o lists[i]
  OBVIOUS
<1> HIDE DEF step
<1>5. PICK f : Iterated(f, n, Seq(T), <<>>, step)
  BY <1>2, <1>3, Iterates
<1>6. \A i \in 1..n : i - 1 \in 0..n /\ f[i - 1] \in Seq(T)
  BY <1>5 DEF Iterated
<1>7. f \in [0..n -> Seq(T)] /\ f[0] = <<>> /\ \A i \in 1..n : f[i] = f[i - 1] \o lists[i]
  BY <1>4, <1>5, <1>6 DEF Iterated
<1>8. Makes(f)
  <2>1. \A i \in 0..n : i = 0 \/ i \in 1..n
    OBVIOUS
  <2>2. \A i \in 0..n : f[i] = IF i = 0 THEN <<>> ELSE f[i - 1] \o lists[i]
    BY <1>7, <2>1
  <2>3. QED
    BY <1>7, <2>2
<1>9. Makes(joined)
  <2> HIDE DEF Makes
  <2> QED BY <1>8
<1>10. Joined(lists) = joined[n]
  BY <1>1 DEF Joined
<1> HIDE DEF joined
<1>11. PICK t : t = joined
  OBVIOUS
<1>12. t = [i \in 0..n |-> IF i = 0 THEN <<>> ELSE t[i - 1] \o lists[i]]
  BY <1>9, <1>11
<1> HIDE DEF Makes
<1>13. t[0] = <<>> /\ DOMAIN t = 0..n
  BY <1>12
<1>14. ASSUME NEW i \in 1..n PROVE t[i] = t[i - 1] \o lists[i]
  <2>1. i \in 0..n /\ i # 0
    OBVIOUS
  <2>2. QED
    BY <1>12, <2>1
<1> DEFINE D == {i \in 0..n : t[i] = f[i]}
<1>15. 0 \in D
  BY <1>7, <1>13
<1>16. ASSUME NEW i \in 1..n, i - 1 \in D PROVE i \in D
  <2>1. i \in 0..n /\ t[i - 1] = f[i - 1]
    BY <1>16
  <2>2. t[i] = t[i - 1] \o lists[i]
    BY <1>14
  <2>3. f[i] = f[i - 1] \o lists[i]
    BY <1>7
  <2>4. t[i] = f[i]
    BY <2>1, <2>2, <2>3, Zenon
  <2>5. QED
    BY <2>1, <2>4
<1> HIDE DEF D
<1>17. \A i \in 0..n : i \in D
  BY <1>15, <1>16, UpTo
<1>18. t[n] = f[n]
  BY <1>17 DEF D
<1>19. QED
  BY <1>1, <1>7, <1>10, <1>11, <1>18 DEF Joins

LEMMA JoinedType ==
    ASSUME NEW T, NEW lists \in Seq(Seq(T))
    PROVE  Joined(lists) \in Seq(T)
<1>1. PICK f : Joins(f, T, lists) /\ Joined(lists) = f[Len(lists)]
  BY Joining
<1>2. QED
  BY <1>1, LenProperties DEF Joins

\* Lists are joined in parts.
LEMMA JoinedConcat ==
    ASSUME NEW T, NEW a \in Seq(Seq(T)), NEW b \in Seq(Seq(T))
    PROVE  Joined(a \o b) = Joined(a) \o Joined(b)
<1>1. PICK n \in Nat : n = Len(a) /\ a \in [1..n -> Seq(T)]
  BY LenProperties
<1>2. PICK m \in Nat : m = Len(b) /\ b \in [1..m -> Seq(T)]
  BY LenProperties
<1>3. a \o b \in Seq(Seq(T)) /\ Len(a \o b) = n + m
  BY <1>1, <1>2, ConcatProperties
<1>4. (\A i \in 1..n : (a \o b)[i] = a[i]) /\ \A i \in 1..m : (a \o b)[n + i] = b[i]
  <2>1. \A i \in 1..(n + m) : (a \o b)[i] = IF i <= n THEN a[i] ELSE b[i - n]
    BY <1>1, <1>2, ConcatProperties
  <2>2. \A i \in 1..n : i \in 1..(n + m) /\ i <= n
    OBVIOUS
  <2>3. \A i \in 1..m : n + i \in 1..(n + m) /\ ~(n + i <= n) /\ (n + i) - n = i
    OBVIOUS
  <2>4. QED
    BY <2>1, <2>2, <2>3
<1>5. PICK f : Joins(f, T, a) /\ Joined(a) = f[n]
  BY <1>1, Joining
<1>6. PICK g : Joins(g, T, b) /\ Joined(b) = g[m]
  BY <1>2, Joining
<1>7. PICK h : Joins(h, T, a \o b) /\ Joined(a \o b) = h[n + m]
  BY <1>3, Joining
<1>8. \A i \in 1..(n + m) : h[i] = h[i - 1] \o (a \o b)[i]
  BY <1>3, <1>7 DEF Joins
<1>9. h[0] = <<>> /\ f[0] = <<>> /\ g[0] = <<>>
  BY <1>5, <1>6, <1>7 DEF Joins
<1>10. (\A i \in 0..n : f[i] \in Seq(T)) /\ \A i \in 0..m : g[i] \in Seq(T)
  BY <1>1, <1>2, <1>5, <1>6 DEF Joins
<1> DEFINE D == {i \in 0..n : h[i] = f[i]}
           E == {i \in 0..m : h[n + i] = f[n] \o g[i]}
<1>11. 0 \in D
  BY <1>9
<1>12. ASSUME NEW i \in 1..n, i - 1 \in D PROVE i \in D
  <2>1. f[i] = f[i - 1] \o a[i]
    BY <1>1, <1>5 DEF Joins
  <2>2. h[i] = h[i - 1] \o a[i]
    <3>1. i \in 1..(n + m)
      OBVIOUS
    <3>2. h[i] = h[i - 1] \o (a \o b)[i] /\ (a \o b)[i] = a[i]
      BY <1>4, <1>8, <3>1, Zenon
    <3>3. QED
      BY <3>2, Zenon
  <2>3. h[i - 1] = f[i - 1] /\ i \in 0..n
    BY <1>12
  <2>4. h[i] = f[i]
    BY <2>1, <2>2, <2>3, Zenon
  <2>5. QED
    BY <2>3, <2>4
<1>13. h[n] = f[n]
  <2> HIDE DEF D, E
  <2>1. \A i \in 0..n : i \in D
    BY <1>11, <1>12, UpTo
  <2>2. QED
    BY <2>1 DEF D
<1>14. 0 \in E
  <2>1. f[n] \o g[0] = f[n]
    BY <1>9, <1>10, ConcatEmptySeq
  <2>2. QED
    <3>1. n + 0 = n /\ 0 \in 0..m
      OBVIOUS
    <3>2. h[n + 0] = f[n] \o g[0]
      BY <1>13, <2>1, <3>1, Zenon
    <3>3. QED
      BY <3>1, <3>2
<1>15. ASSUME NEW i \in 1..m, i - 1 \in E PROVE i \in E
  <2>1. g[i] = g[i - 1] \o b[i] /\ b[i] \in Seq(T)
    BY <1>2, <1>6 DEF Joins
  <2>2. h[n + i] = h[n + (i - 1)] \o b[i]
    <3>1. n + i \in 1..(n + m) /\ (n + i) - 1 = n + (i - 1)
      OBVIOUS
    <3>2. h[n + i] = h[(n + i) - 1] \o (a \o b)[n + i] /\ (a \o b)[n + i] = b[i]
      BY <1>4, <1>8, <3>1, Zenon
    <3>3. QED
      BY <3>1, <3>2, Zenon
  <2>3. (f[n] \o g[i - 1]) \o b[i] = f[n] \o (g[i - 1] \o b[i])
    <3>1. n \in 0..n /\ i - 1 \in 0..m
      OBVIOUS
    <3>2. f[n] \in Seq(T) /\ g[i - 1] \in Seq(T)
      BY <1>10, <3>1
    <3> HIDE DEF D, E
    <3>3. QED
      <4>1. \A x, y, z \in Seq(T) : (x \o y) \o z = x \o (y \o z)
        BY ConcatAssociative
      <4>2. QED
        BY <2>1, <3>2, <4>1, Zenon
  <2>4. h[n + (i - 1)] = f[n] \o g[i - 1] /\ i \in 0..m
    <3>1. i \in 0..m
      OBVIOUS
    <3>2. i - 1 \in E
      BY <1>15, Zenon
    <3>3. QED
      BY <3>1, <3>2, Zenon
  <2>5. h[n + i] = f[n] \o g[i]
    BY <2>1, <2>2, <2>3, <2>4, Zenon
  <2>6. QED
    BY <2>4, <2>5
<1>16. h[n + m] = f[n] \o g[m]
  <2> HIDE DEF D, E
  <2>1. \A i \in 0..m : i \in E
    BY <1>14, <1>15, UpTo
  <2>2. QED
    <3>1. m \in 0..m
      OBVIOUS
    <3>2. m \in E
      BY <2>1, <3>1, Zenon
    <3>3. QED
      BY <3>2, Zenon DEF E
<1>17. QED
  BY <1>5, <1>6, <1>7, <1>16

LEMMA JoinedOne ==
    ASSUME NEW T, NEW x \in Seq(T)
    PROVE  Joined(<<x>>) = x /\ Joined(<<>>) = <<>>
<1>1. <<x>> \in Seq(Seq(T)) /\ Len(<<x>>) = 1 /\ <<x>>[1] = x
  OBVIOUS
<1>2. PICK f : Joins(f, T, <<x>>) /\ Joined(<<x>>) = f[1]
  BY <1>1, Joining
<1>3. f[1] = f[0] \o x /\ f[0] = <<>>
  <2>1. 1 \in 1..Len(<<x>>) /\ 1 - 1 = 0
    BY <1>1
  <2>2. f[1] = f[1 - 1] \o <<x>>[1] /\ f[0] = <<>>
    BY <1>2, <2>1, Zenon DEF Joins
  <2>3. QED
    BY <1>1, <2>1, <2>2, Zenon
<1>4. <<>> \o x = x
  BY ConcatEmptySeq
<1>5. <<>> \in Seq(Seq(T)) /\ Len(<<>>) = 0
  BY EmptySeq
<1>6. PICK g : Joins(g, T, <<>>) /\ Joined(<<>>) = g[0]
  BY <1>5, Joining
<1>7. QED
  BY <1>2, <1>3, <1>4, <1>6 DEF Joins

\* Empty lists joined are empty, and lists of one are joined to the list of these.
LEMMA JoinedEmpty ==
    ASSUME NEW T, NEW lists \in Seq(Seq(T)), \A i \in 1..Len(lists) : lists[i] = <<>>
    PROVE  Joined(lists) = <<>>
<1>1. PICK f : Joins(f, T, lists) /\ Joined(lists) = f[Len(lists)]
  BY Joining
<1>2. Len(lists) \in Nat
  BY LenProperties
<1> DEFINE empty == {<<>>}
<1>3. f[0] \in empty
  BY <1>1 DEF Joins
<1>4. <<>> \o <<>> = <<>>
  BY EmptySeq, ConcatEmptySeq
<1>5. \A i \in 1..Len(lists) : f[i - 1] \in empty => f[i] \in empty
  BY <1>1, <1>4 DEF Joins
<1> HIDE DEF empty
<1>6. f[Len(lists)] \in empty
  BY <1>2, <1>3, <1>5, StaysIn
<1>7. QED
  BY <1>1, <1>6 DEF empty

Singles(lists, T, seq) ==
    /\ seq \in Seq(T) /\ lists \in Seq(Seq(T)) /\ Len(lists) = Len(seq)
    /\ \A i \in 1..Len(seq) : lists[i] = <<seq[i]>>
LEMMA JoinedSingles ==
    ASSUME NEW T, NEW seq, NEW lists, Singles(lists, T, seq)
    PROVE  Joined(lists) = seq
<1> USE DEF Singles
<1>1. PICK n \in Nat : n = Len(seq) /\ seq \in [1..n -> T]
  BY LenProperties
<1>2. PICK f : Joins(f, T, lists) /\ Joined(lists) = f[n]
  BY <1>1, Joining
<1>3. f \in [0..n -> Seq(T)] /\ f[0] = <<>> /\ \A i \in 1..n : f[i] = f[i - 1] \o <<seq[i]>>
  BY <1>1, <1>2 DEF Joins
<1> DEFINE D == {i \in 0..n : Len(f[i]) = i /\ \A j \in 1..i : f[i][j] = seq[j]}
<1>4. 0 \in D
  BY <1>3
<1>5. ASSUME NEW i \in 1..n, i - 1 \in D PROVE i \in D
  <2>1. f[i - 1] \in Seq(T) /\ <<seq[i]>> \in Seq(T) /\ Len(<<seq[i]>>) = 1 /\ Len(f[i - 1]) = i - 1
    <3>1. i - 1 \in 0..n /\ seq[i] \in T
      BY <1>1
    <3>2. f[i - 1] \in Seq(T) /\ Len(f[i - 1]) = i - 1
      BY <1>3, <1>5, <3>1
    <3>3. QED
      BY <3>1, <3>2
  <2>2. /\ Len(f[i]) = i
        /\ \A j \in 1..i : f[i][j] = IF j <= i - 1 THEN f[i - 1][j] ELSE <<seq[i]>>[j - (i - 1)]
    <3> DEFINE u == f[i - 1]
               v == <<seq[i]>>
    <3>1. u \in Seq(T) /\ v \in Seq(T) /\ Len(v) = 1 /\ Len(u) = i - 1
      BY <2>1
    <3>2. f[i] = u \o v
      BY <1>3
    <3> HIDE DEF u, v, D
    <3>3. Len(u \o v) = Len(u) + Len(v)
      BY <3>1, ConcatProperties, Zenon
    <3>4. \A j \in 1..(Len(u) + Len(v)) : (u \o v)[j] = IF j <= Len(u) THEN u[j] ELSE v[j - Len(u)]
      <4>1. \A x, y \in Seq(T) : \A j \in 1..(Len(x) + Len(y)) :
               (x \o y)[j] = IF j <= Len(x) THEN x[j] ELSE y[j - Len(x)]
        BY ConcatProperties
      <4>2. QED
        BY <3>1, <4>1, Zenon
    <3>5. Len(f[i]) = i /\ \A j \in 1..i : f[i][j] = IF j <= i - 1 THEN u[j] ELSE v[j - (i - 1)]
      BY <3>1, <3>2, <3>3, <3>4
    <3>6. QED
      BY <3>5 DEF u, v
  <2>3. \A j \in 1..i : j <= i - 1 \/ (j = i /\ j - (i - 1) = 1)
    OBVIOUS
  <2>4. \A j \in 1..i : f[i][j] = seq[j]
    <3>1. <<seq[i]>>[1] = seq[i] /\ \A j \in 1..(i - 1) : f[i - 1][j] = seq[j]
      BY <1>5
    <3> HIDE DEF D
    <3>2. TAKE j \in 1..i
    <3>3. CASE j <= i - 1
      BY <2>2, <3>1, <3>3
    <3>4. CASE j = i /\ j - (i - 1) = 1 /\ ~(j <= i - 1)
      BY <2>2, <3>1, <3>4
    <3>5. QED
      BY <2>3, <3>3, <3>4
  <2>5. QED
    BY <2>2, <2>4
<1>6. n \in D
  <2> HIDE DEF D
  <2>1. \A i \in 0..n : i \in D
    BY <1>4, <1>5, UpTo
  <2>2. QED
    BY <2>1
<1>7. f[n] \in Seq(T) /\ Len(f[n]) = Len(seq) /\ \A j \in 1..Len(seq) : f[n][j] = seq[j]
  BY <1>1, <1>3, <1>6
<1>8. f[n] = seq
  BY <1>7, SeqEqual, LenProperties
<1>9. QED
  BY <1>2, <1>8
=============================================================================
