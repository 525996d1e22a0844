-------------------------- MODULE TranscriptProofs ---------------------------
(***************************************************************************)
(* Proofs about AnswerTranscript, for every number of calls, operations and *)
(* pieces of prose and every number of rows that are stored.               *)
(*                                                                         *)
(* The recorded parts and the shown ones are kept by different code; that  *)
(* both are the same at the end needs an invariant of every frame.  Sync says *)
(* how the record and the screen that received the same frames compare, Fits *)
(* which frames the gateway may send next, Chain that each frame still on its *)
(* way fits when its turn comes.  A frame that fits keeps Sync (FrameStep); *)
(* what the gateway sends in a step is a chain (StartCallStep and the others). *)
(***************************************************************************)
EXTENDS ListProofs, AnswerTranscript, SequenceTheorems, WellFoundedInduction, TLAPS

-----------------------------------------------------------------------------
(***************************************************************************)
(* An answer, recorded and shown                                           *)
(***************************************************************************)
RowStates == {"running", "completed", "failed"}
Row == [id : 1..MaxCalls, op : Operations, state : RowStates]
ShownRow == [id : 1..MaxCalls, op : Operations, state : RowStates, current : BOOLEAN]
TextParts == [type : {"text"}, pieces : Seq(1..MaxPieces)]
Timelines(rowSet) == [type : {"reasoning"}, rows : Seq(rowSet)]
ImageParts == [type : {"image"}, id : 1..MaxCalls, status : {"generating", "complete", "error"}]
ProductParts == [type : {"products"}, grid : 0..MaxCalls]
AccessParts == [type : {"guest_order_access"}, form : 1..MaxCalls]
AnswerParts(rowSet) == TextParts \union Timelines(rowSet) \union ImageParts \union ProductParts \union AccessParts

ActivityFrames == [type : {"activity"}, id : 1..MaxCalls, op : Operations, state : RowStates]
ProseFrames == [type : {"chunk"}, piece : 1..MaxPieces]
ContentFrames == ActivityFrames \union ProseFrames \union ImageParts \union ProductParts \union AccessParts
EndFrames == [type : {"done", "failed", "cancelled"}]

\* The rows of a timeline.
RowsIn(parts) ==
    IF PartAt(parts, "reasoning") = 0 THEN <<>> ELSE parts[PartAt(parts, "reasoning")].rows
Ids(rows) == {rows[i].id : i \in 1..Len(rows)}
NoIdTwice(rows) == \A i, j \in 1..Len(rows) : rows[i].id = rows[j].id => i = j
EndOf(rows, op) == IF LatestRow(rows, op) = 0 THEN "absent" ELSE rows[LatestRow(rows, op)].state
EndsWith(rows, op) == rows # <<>> /\ rows[Len(rows)].op = op
Running(rows) == rows # <<>> /\ rows[Len(rows)].state = "running"
SameRows(R, S) ==
    /\ Len(R) = Len(S)
    /\ \A i \in 1..Len(R) : R[i].id = S[i].id /\ R[i].op = S[i].op /\ R[i].state = S[i].state

\* What is recorded of the timeline: only its last row may run.
RowsRecorded(R) == NoIdTwice(R) /\ \A i \in 1..(Len(R) - 1) : R[i].state # "running"

\* The recorded and the shown timeline.
InStep(R, S, late) ==
    /\ RowsRecorded(R) /\ NoIdTwice(S) /\ Ids(S) \subseteq Ids(R)
    /\ R # <<>> => \E c \in 1..Len(S) : S[c].current /\ S[c].op = R[Len(R)].op
    /\ \A i \in 1..Len(S) : S[i].current => S[LatestRow(S, S[i].op)].current
    /\ \A op \in Operations : EndOf(R, op) = EndOf(S, op)
    /\ ~late => SameRows(R, S) /\ \A i \in 1..(Len(S) - 1) : ~S[i].current

\* The recorded parts and the screen that has received the same frames.
Sync(parts, s, late) ==
    /\ ProseOf(parts) = ProseOf(s.parts) /\ ImagesOf(parts) = ImagesOf(s.parts)
    /\ PartAt(s.parts, "products") = 0 /\ PartAt(s.parts, "guest_order_access") = 0
    /\ Len(s.grids) <= 1
    /\ OfType(parts, "products") = s.grids /\ OfType(parts, "guest_order_access") = s.access
    /\ s.rows = RowsIn(s.parts) /\ InStep(RowsIn(parts), s.rows, late)

\* A frame the gateway may send when it has recorded so much.
RowFits(R, f, late) ==
    /\ f.id \in Ids(R) => R[Len(R)].id = f.id /\ R[Len(R)].op = f.op
    /\ Running(R) => EndsWith(R, f.op)
    /\ ~late /\ f.state # "running" => EndsWith(R, f.op)
Fits(parts, f, late) ==
    /\ f.type = "activity" => RowFits(RowsIn(parts), f, late)
    /\ f.type = "image" => \A p \in ImagesOf(parts) : p.id # f.id
    /\ f.type = "products" => PartAt(parts, "products") = 0

\* What the gateway holds back and the call it executes, beside the rows it recorded.
CallInStep(R) ==
    call # NoCallYet =>
        /\ call.id = calls
        /\ call.labels = "always" => EndsWith(R, call.op) /\ (call.id \in Ids(R) => R[Len(R)].id = call.id)
        /\ call.labels # "always" => call.id \notin Ids(R)
        /\ call.labels = "at_end" => lateLabel
        /\ held # NoActivity => held.op = call.op
        /\ \A p \in ImagesOf(recorded) : p.id # call.id
HeldInStep(R) ==
    held # NoActivity =>
        /\ held.id \in 1..calls
        /\ held.id \in Ids(R) => R[Len(R)].id = held.id /\ R[Len(R)].op = held.op
        /\ ~lateLabel => EndsWith(R, held.op)
GatewayInStep(R) ==
    /\ CallInStep(R) /\ HeldInStep(R)
    /\ Running(R) => \/ call # NoCallYet /\ call.labels = "always"
                     \/ held # NoActivity /\ EndsWith(R, held.op)

CallSet == {NoCallYet} \union
           [id : 1..MaxCalls, op : Operations, kind : Kinds, labels : {"always", "at_end", "never"}]
HeldSet == {NoActivity} \union
           [type : {"activity"}, id : 1..MaxCalls, op : Operations, state : {"completed", "failed"}]
ScreenSet ==
    [rows : Seq(ShownRow), parts : Seq(AnswerParts(ShownRow)), grids : Seq(ProductParts),
     access : Seq(AccessParts), saw : {"on", "stopped", "done", "failed", "cancelled"}]

TranscriptTypes ==
    /\ calls \in 0..MaxCalls /\ lateLabel \in BOOLEAN /\ call \in CallSet /\ held \in HeldSet
    /\ pieces \in 0..MaxPieces /\ answerTurn \in {"on", "done", "failed", "cancelled"}
    /\ recorded \in Seq(AnswerParts(Row)) /\ wire \in Seq(ContentFrames \union EndFrames)
    /\ screen \in ScreenSet

OneGrid(parts) ==
    \A i, j \in 1..Len(parts) : parts[i].type = "products" /\ parts[j].type = "products" => i = j
WellRecorded ==
    /\ RowsRecorded(RowsIn(recorded)) /\ Ids(RowsIn(recorded)) \subseteq 1..calls
    /\ \A p \in ImagesOf(recorded) : p.id \in 1..calls
    /\ OneGrid(recorded) /\ (answerTurn # "done" => PartAt(recorded, "products") = 0)

\* A screen that has all of a finished answer, or the beginning of a stopped one.
Finished(parts, s, late) ==
    /\ ProseOf(parts) = ProseOf(s.parts) /\ ImagesOf(parts) = ImagesOf(s.parts)
    /\ OfType(parts, "products") = OfType(s.parts, "products")
    /\ s.saw = "done" => OfType(parts, "guest_order_access") = OfType(s.parts, "guest_order_access")
    /\ \A op \in Operations : EndOf(RowsIn(parts), op) = EndOf(RowsIn(s.parts), op)
    /\ ~late => SameRows(RowsIn(parts), RowsIn(s.parts))
Begins(x, y) == Len(x) <= Len(y) /\ \A i \in 1..Len(x) : x[i] = y[i]
Begun(parts, s) ==
    /\ Begins(ProseOf(s.parts), ProseOf(parts)) /\ ImagesOf(s.parts) \subseteq ImagesOf(parts)
    /\ \A i \in 1..Len(RowsIn(s.parts)) : \E j \in 1..Len(RowsIn(parts)) :
           RowsIn(s.parts)[i].op = RowsIn(parts)[j].op

SavedOnceEnded ==
    stored = IF answerTurn = "on" THEN NotSaved ELSE StoragePayload(recorded)

-----------------------------------------------------------------------------
(* What is read off a list of parts *)

AnyPart == AnswerParts(Row \union ShownRow)
PartTypes == {"text", "reasoning", "products", "image", "guest_order_access"}
FlatOf(g, seq) == Joined([i \in 1..Len(seq) |-> g[seq[i]]])
Pieces == [p \in AnyPart |-> IF p.type = "text" THEN p.pieces ELSE <<>>]
Lists(g, P, T) == g \in [P -> Seq(T)]
Only(type) == [p \in AnyPart |-> IF p.type = type THEN <<p>> ELSE <<>>]

LEMMA FlatMapped ==
    ASSUME NEW P, NEW T, NEW g, Lists(g, P, T), NEW seq \in Seq(P)
    PROVE  [i \in 1..Len(seq) |-> g[seq[i]]] \in Seq(Seq(T)) /\ FlatOf(g, seq) \in Seq(T)
<1> USE DEF Lists
<1>1. PICK n \in Nat : n = Len(seq) /\ seq \in [1..n -> P]
  BY LenProperties
<1>2. \A k \in Nat : [1..k -> Seq(T)] \subseteq Seq(Seq(T))
  OBVIOUS
<1>3. [i \in 1..n |-> g[seq[i]]] \in [1..n -> Seq(T)]
  BY <1>1
<1>4. QED
  BY <1>1, <1>2, <1>3, JoinedType DEF FlatOf

LEMMA FlatConcat ==
    ASSUME NEW P, NEW T, NEW g, Lists(g, P, T)
    PROVE  \A a, b \in Seq(P) : FlatOf(g, a \o b) = FlatOf(g, a) \o FlatOf(g, b)
<1> USE DEF Lists
<1> TAKE a, b \in Seq(P)
<1> DEFINE Of(seq) == [i \in 1..Len(seq) |-> g[seq[i]]]
<1>1. a \o b \in Seq(P) /\ Len(a \o b) = Len(a) + Len(b) /\ Len(a) \in Nat /\ Len(b) \in Nat
  BY ConcatProperties, LenProperties
<1>2. \A i \in 1..(Len(a) + Len(b)) : (a \o b)[i] = IF i <= Len(a) THEN a[i] ELSE b[i - Len(a)]
  BY ConcatProperties
<1>3. Of(a) \in Seq(Seq(T)) /\ Of(b) \in Seq(Seq(T)) /\ Of(a \o b) \in Seq(Seq(T))
  BY <1>1, FlatMapped
<1>4. Len(Of(a)) = Len(a) /\ Len(Of(b)) = Len(b) /\ Len(Of(a \o b)) = Len(a) + Len(b)
  BY <1>1
<1>5. /\ \A i \in 1..Len(a) : Of(a)[i] = g[a[i]]
      /\ \A i \in 1..Len(b) : Of(b)[i] = g[b[i]]
      /\ \A i \in 1..(Len(a) + Len(b)) : Of(a \o b)[i] = g[(a \o b)[i]]
  BY <1>1
<1> HIDE DEF Of
<1>6. PICK x, y, z \in Seq(Seq(T)) : x = Of(a) /\ y = Of(b) /\ z = Of(a \o b)
  BY <1>3
<1>7. /\ x \o y \in Seq(Seq(T)) /\ Len(x \o y) = Len(x) + Len(y)
      /\ \A i \in 1..(Len(x) + Len(y)) : (x \o y)[i] = IF i <= Len(x) THEN x[i] ELSE y[i - Len(x)]
  BY Concats, Zenon
<1>8. Len(x) = Len(a) /\ Len(y) = Len(b) /\ Len(z) = Len(a) + Len(b)
  BY <1>4, <1>6
<1>9. ASSUME NEW i \in 1..Len(z) PROVE z[i] = (x \o y)[i]
  <2>1. z[i] = g[(a \o b)[i]] /\ i \in 1..(Len(a) + Len(b))
    BY <1>5, <1>6, <1>8
  <2>2. CASE i <= Len(a)
    <3>1. i \in 1..Len(a)
      BY <1>1, <1>8, <2>2
    <3>2. x[i] = g[a[i]] /\ (a \o b)[i] = a[i]
      BY <1>2, <1>5, <1>6, <2>1, <2>2, <3>1
    <3>3. (x \o y)[i] = x[i]
      BY <1>7, <1>8, <2>1, <2>2
    <3>4. QED
      BY <2>1, <3>2, <3>3
  <2>3. CASE ~(i <= Len(a))
    <3>1. i - Len(a) \in 1..Len(b)
      BY <1>1, <1>8, <2>1, <2>3
    <3>2. y[i - Len(a)] = g[b[i - Len(a)]] /\ (a \o b)[i] = b[i - Len(a)]
      BY <1>2, <1>5, <1>6, <2>1, <2>3, <3>1
    <3>3. (x \o y)[i] = y[i - Len(a)]
      BY <1>7, <1>8, <2>1, <2>3
    <3>4. QED
      BY <2>1, <3>2, <3>3
  <2>4. QED
    BY <2>2, <2>3
<1>10. Of(a \o b) = Of(a) \o Of(b)
  <2>1. z = x \o y
    BY <1>7, <1>8, <1>9, EqualSeqs, Zenon
  <2>2. QED
    BY <1>6, <2>1
<1>11. Joined(Of(a) \o Of(b)) = Joined(Of(a)) \o Joined(Of(b))
  BY <1>3, JoinedConcat
<1>12. QED
  BY <1>10, <1>11 DEF FlatOf, Of

LEMMA FlatOne ==
    ASSUME NEW P, NEW T, NEW g, Lists(g, P, T), NEW p \in P
    PROVE  FlatOf(g, <<p>>) = g[p] /\ FlatOf(g, <<>>) = <<>>
<1> USE DEF Lists
<1>1. [i \in 1..Len(<<p>>) |-> g[<<p>>[i]]] = <<g[p]>>
  OBVIOUS
<1>2. [i \in 1..Len(<<>>) |-> g[<<>>[i]]] = <<>>
  OBVIOUS
<1>3. g[p] \in Seq(T)
  OBVIOUS
<1>4. QED
  BY <1>1, <1>2, <1>3, JoinedOne DEF FlatOf

LEMMA FlatAppend ==
    ASSUME NEW P, NEW T, NEW g, Lists(g, P, T), NEW seq \in Seq(P), NEW p \in P
    PROVE  FlatOf(g, Append(seq, p)) = FlatOf(g, seq) \o g[p]
<1>1. Append(seq, p) = seq \o <<p>> /\ <<p>> \in Seq(P)
  BY AppendIsConcat
<1>2. FlatOf(g, seq \o <<p>>) = FlatOf(g, seq) \o FlatOf(g, <<p>>)
  <2>1. PICK one \in Seq(P) : one = <<p>>
    BY <1>1
  <2>2. FlatOf(g, seq \o one) = FlatOf(g, seq) \o FlatOf(g, one)
    BY Lists(g, P, T), FlatConcat
  <2>3. QED
    BY <2>1, <2>2
<1>3. QED
  BY <1>1, <1>2, FlatOne

LEMMA FlatSame ==
    ASSUME NEW g, NEW a, NEW b, Len(a) = Len(b), \A i \in 1..Len(a) : g[a[i]] = g[b[i]]
    PROVE  FlatOf(g, a) = FlatOf(g, b)
<1>1. [i \in 1..Len(a) |-> g[a[i]]] = [i \in 1..Len(b) |-> g[b[i]]]
  OBVIOUS
<1>2. QED
  BY <1>1 DEF FlatOf

\* What each part is.
LEMMA PartsAre ==
    ASSUME NEW p \in AnyPart
    PROVE  /\ p.type \in PartTypes
           /\ p.type = "text" => p \in TextParts
           /\ p.type = "reasoning" => p \in Timelines(Row \union ShownRow)
           /\ p.type = "image" => p \in ImageParts
           /\ p.type = "products" => p \in ProductParts
           /\ p.type = "guest_order_access" => p \in AccessParts
BY DEF AnyPart, AnswerParts, TextParts, Timelines, ImageParts, ProductParts, AccessParts, PartTypes

LEMMA FlatTypes ==
    /\ Lists(Pieces, AnyPart, 1..MaxPieces)
    /\ \A type : Lists(Only(type), AnyPart, AnyPart)
<1>1. ASSUME NEW p \in AnyPart PROVE Pieces[p] \in Seq(1..MaxPieces)
  <2>1. CASE p.type = "text"
    <3>1. p.pieces \in Seq(1..MaxPieces)
      BY <2>1, PartsAre DEF TextParts
    <3>2. QED
      BY <2>1, <3>1 DEF Pieces
  <2>2. CASE p.type # "text"
    BY <2>2, EmptySeq DEF Pieces
  <2>3. QED
    BY <2>1, <2>2
<1>2. ASSUME NEW type, NEW p \in AnyPart PROVE Only(type)[p] \in Seq(AnyPart)
  <2>1. <<p>> \in Seq(AnyPart) /\ <<>> \in Seq(AnyPart)
    OBVIOUS
  <2>2. QED
    BY <2>1 DEF Only
<1>3. QED
  BY <1>1, <1>2 DEF Pieces, Only, Lists

LEMMA FlatViews ==
    ASSUME NEW parts \in Seq(AnyPart)
    PROVE  /\ ProseOf(parts) = FlatOf(Pieces, parts) /\ ProseOf(parts) \in Seq(1..MaxPieces)
           /\ \A type : OfType(parts, type) = FlatOf(Only(type), parts)
           /\ \A type : OfType(parts, type) \in Seq(AnyPart)
<1>1. PICK n \in Nat : n = Len(parts) /\ parts \in [1..n -> AnyPart] /\ DOMAIN parts = 1..n
  BY LenProperties
<1>2. \A i \in 1..n : Pieces[parts[i]] = IF parts[i].type = "text" THEN parts[i].pieces ELSE <<>>
  BY <1>1 DEF Pieces
<1>3. \A type : \A i \in 1..n :
         Only(type)[parts[i]] = IF parts[i].type = type THEN <<parts[i]>> ELSE <<>>
  BY <1>1 DEF Only
<1>4. ProseOf(parts) = FlatOf(Pieces, parts)
  <2>1. [i \in DOMAIN parts |-> IF parts[i].type = "text" THEN parts[i].pieces ELSE <<>>]
        = [i \in 1..n |-> Pieces[parts[i]]]
    BY <1>1, <1>2
  <2>2. QED
    BY <1>1, <2>1 DEF ProseOf, FlatOf
<1>5. ASSUME NEW type PROVE OfType(parts, type) = FlatOf(Only(type), parts)
  <2>1. [i \in DOMAIN parts |-> IF parts[i].type = type THEN <<parts[i]>> ELSE <<>>]
        = [i \in 1..n |-> Only(type)[parts[i]]]
    BY <1>1, <1>3
  <2>2. QED
    BY <1>1, <2>1 DEF OfType, FlatOf
<1>6. QED
  <2>1. FlatOf(Pieces, parts) \in Seq(1..MaxPieces)
    BY FlatTypes, FlatMapped
  <2>2. \A type : FlatOf(Only(type), parts) \in Seq(AnyPart)
    <3>1. ASSUME NEW type PROVE FlatOf(Only(type), parts) \in Seq(AnyPart)
      <4>1. Lists(Only(type), AnyPart, AnyPart)
        BY FlatTypes
      <4>2. QED
        BY <4>1, FlatMapped
    <3>2. QED
      BY <3>1
  <2>3. QED
    BY <1>4, <1>5, <2>1, <2>2, Zenon

\* The last place of some.
LEMMA LastPlace ==
    ASSUME NEW n \in Nat, NEW places, places \subseteq 1..n
    PROVE  /\ LastOf(places) \in 0..n
           /\ LastOf(places) = 0 <=> places = {}
           /\ places # {} => LastOf(places) \in places
           /\ \A k \in places : k <= LastOf(places)
           /\ \A m \in places : (\A k \in places : k <= m) => LastOf(places) = m
<1>1. CASE places = {}
  BY <1>1 DEF LastOf
<1>2. CASE places # {}
  <2>1. PICK m \in places : \A k \in places : k <= m
    <3>1. places \subseteq 0..n
      OBVIOUS
    <3>2. QED
      BY <1>2, <3>1, Largest
  <2>2. LastOf(places) \in places /\ \A k \in places : k <= LastOf(places)
    BY <1>2, <2>1 DEF LastOf
  <2>3. LastOf(places) \in 0..n /\ LastOf(places) # 0
    <3>1. LastOf(places) \in 1..n
      BY <2>2
    <3>2. QED
      BY <3>1
  <2>4. ASSUME NEW q \in places, \A k \in places : k <= q PROVE LastOf(places) = q
    <3>1. q \in 1..n /\ LastOf(places) \in 1..n /\ q <= LastOf(places) /\ LastOf(places) <= q
      BY <2>2, <2>4
    <3>2. QED
      BY <3>1
  <2>5. QED
    BY <1>2, <2>2, <2>3, <2>4, Zenon
<1>3. QED
  BY <1>1, <1>2

LEMMA PartPlace ==
    ASSUME NEW parts \in Seq(AnyPart), NEW type
    PROVE  /\ PartAt(parts, type) \in 0..Len(parts)
           /\ PartAt(parts, type) = 0 <=> \A i \in 1..Len(parts) : parts[i].type # type
           /\ PartAt(parts, type) # 0 => parts[PartAt(parts, type)].type = type
           /\ \A m \in 1..Len(parts) :
                 parts[m].type = type /\ (\A k \in 1..Len(parts) : parts[k].type = type => k <= m)
                 => PartAt(parts, type) = m
<1>1. PICK n \in Nat : n = Len(parts) /\ DOMAIN parts = 1..n
  BY LenProperties
<1> DEFINE places == {i \in DOMAIN parts : parts[i].type = type}
<1>2. places \subseteq 1..n /\ \A i \in 1..n : i \in places <=> parts[i].type = type
  BY <1>1
<1>3. PartAt(parts, type) = LastOf(places)
  BY DEF PartAt
<1> HIDE DEF places
<1>4. QED
  <2> DEFINE at == PartAt(parts, type)
  <2>1. /\ at \in 0..n /\ (at = 0 <=> places = {}) /\ (places # {} => at \in places)
        /\ \A m \in places : (\A k \in places : k <= m) => at = m
    <3>1. at = LastOf(places)
      BY <1>3
    <3> HIDE DEF at
    <3>2. QED
      BY <1>1, <1>2, <3>1, LastPlace, Zenon
  <2> HIDE DEF at
  <2>2. (places = {} <=> \A i \in 1..n : parts[i].type # type) /\ (at # 0 => parts[at].type = type)
    BY <1>2, <2>1
  <2>3. ASSUME NEW m \in 1..n, parts[m].type = type, \A k \in 1..n : parts[k].type = type => k <= m
        PROVE  at = m
    BY <1>2, <2>1, <2>3
  <2>4. QED
    BY <1>1, <2>1, <2>2, <2>3 DEF at

\* Only the parts of one type changed.
OnlyNew(parts, new, type) ==
    /\ type # "text" => ProseOf(new) = ProseOf(parts)
    /\ type # "image" => ImagesOf(new) = ImagesOf(parts)
    /\ type # "reasoning" => RowsIn(new) = RowsIn(parts)
    /\ \A other \in PartTypes \ {type} :
          /\ OfType(new, other) = OfType(parts, other)
          /\ PartAt(new, other) = 0 <=> PartAt(parts, other) = 0

ImageIn(parts, p) ==
    \E i \in 1..Len(parts) : p = parts[i] /\ p.type = "image" /\ p.status = "complete"
LEMMA ImagesAre ==
    ASSUME NEW parts \in Seq(AnyPart)
    PROVE  \A p : p \in ImagesOf(parts) <=> ImageIn(parts, p)
<1>1. DOMAIN parts = 1..Len(parts)
  BY LenProperties
<1>2. QED
  BY <1>1 DEF ImagesOf, Range, ImageIn

LEMMA PlusPart ==
    ASSUME NEW parts \in Seq(AnyPart), NEW p \in AnyPart
    PROVE  /\ Append(parts, p) \in Seq(AnyPart)
           /\ OnlyNew(parts, Append(parts, p), p.type)
           /\ p.type = "text" => ProseOf(Append(parts, p)) = ProseOf(parts) \o p.pieces
           /\ p.type = "image" =>
                 ImagesOf(Append(parts, p))
                 = ImagesOf(parts) \union {q \in {p} : q.status = "complete"}
           /\ OfType(Append(parts, p), p.type) = Append(OfType(parts, p.type), p)
           /\ PartAt(Append(parts, p), p.type) = Len(parts) + 1
<1>1. PICK n \in Nat, new \in Seq(AnyPart) : n = Len(parts) /\ new = Append(parts, p)
  BY LenProperties, AppendProperties
<1>2. Len(new) = n + 1 /\ new[n + 1] = p /\ \A i \in 1..n : new[i] = parts[i]
  BY <1>1, AppendProperties
<1>3. ProseOf(new) = ProseOf(parts) \o Pieces[p]
  <2>1. Lists(Pieces, AnyPart, 1..MaxPieces)
    BY FlatTypes
  <2>2. FlatOf(Pieces, Append(parts, p)) = FlatOf(Pieces, parts) \o Pieces[p]
    BY <2>1, FlatAppend
  <2>3. QED
    BY <1>1, <2>2, FlatViews
<1>4. ASSUME NEW type PROVE OfType(new, type) = OfType(parts, type) \o Only(type)[p]
  <2>1. Lists(Only(type), AnyPart, AnyPart)
    BY FlatTypes
  <2>2. FlatOf(Only(type), Append(parts, p)) = FlatOf(Only(type), parts) \o Only(type)[p]
    BY <2>1, FlatAppend
  <2>3. QED
    BY <1>1, <2>2, FlatViews
<1>5. ProseOf(parts) \o <<>> = ProseOf(parts) /\ \A type : OfType(parts, type) \o <<>> = OfType(parts, type)
  <2>1. \A S : \A x \in Seq(S) : x \o <<>> = x
    BY ConcatEmptySeq
  <2>2. QED
    BY <2>1, FlatViews, Zenon
<1>6. p.type # "text" => ProseOf(new) = ProseOf(parts)
  <2>1. p.type # "text" => Pieces[p] = <<>>
    BY DEF Pieces
  <2>2. QED
    BY <1>3, <1>5, <2>1, Zenon
<1>7. p.type = "text" => ProseOf(new) = ProseOf(parts) \o p.pieces
  <2>1. p.type = "text" => Pieces[p] = p.pieces
    BY DEF Pieces
  <2>2. QED
    BY <1>3, <2>1, Zenon
<1>8. \A type : type # p.type => OfType(new, type) = OfType(parts, type)
  <2>1. ASSUME NEW type, type # p.type PROVE OfType(new, type) = OfType(parts, type)
    <3>1. Only(type)[p] = <<>>
      BY <2>1 DEF Only
    <3>2. QED
      BY <1>4, <1>5, <3>1, Zenon
  <2>2. QED
    BY <2>1
<1>9. OfType(new, p.type) = Append(OfType(parts, p.type), p)
  <2>1. Only(p.type)[p] = <<p>>
    BY DEF Only
  <2>2. OfType(new, p.type) = OfType(parts, p.type) \o <<p>>
    BY <1>4, <2>1, Zenon
  <2>3. Append(OfType(parts, p.type), p) = OfType(parts, p.type) \o <<p>>
    BY FlatViews, AppendIsConcat
  <2>4. QED
    BY <2>2, <2>3, Zenon
<1>10. ImagesOf(new) = ImagesOf(parts) \union {q \in {p} : q.type = "image" /\ q.status = "complete"}
  <2>1. \A i \in 1..(n + 1) : i \in 1..n \/ i = n + 1
    OBVIOUS
  <2>2. \A q : ImageIn(new, q) <=>
                 ImageIn(parts, q) \/ (q = p /\ q.type = "image" /\ q.status = "complete")
    BY <1>1, <1>2, <2>1 DEF ImageIn
  <2>3. \A q : q \in ImagesOf(new) <=>
                 q \in ImagesOf(parts) \/ (q = p /\ q.type = "image" /\ q.status = "complete")
    BY <2>2, ImagesAre, Zenon
  <2>4. QED
    BY <2>3
<1>11. ASSUME NEW type PROVE PartAt(new, type) = IF p.type = type THEN n + 1 ELSE PartAt(parts, type)
  <2>1. CASE p.type = type
    <3>1. n + 1 \in 1..(n + 1) /\ \A k \in 1..(n + 1) : k <= n + 1
      OBVIOUS
    <3>2. PartAt(new, type) = n + 1
      <4>1. \A m \in 1..Len(new) :
               new[m].type = type /\ (\A k \in 1..Len(new) : new[k].type = type => k <= m)
               => PartAt(new, type) = m
        BY PartPlace
      <4>2. QED
        BY <1>2, <2>1, <3>1, <4>1
    <3>3. QED
      BY <2>1, <3>2
  <2>2. CASE p.type # type
    <3> DEFINE at == PartAt(parts, type)
    <3>1. at \in 0..n /\ (at = 0 <=> \A i \in 1..n : parts[i].type # type)
      BY <1>1, PartPlace
    <3>2. CASE at = 0
      <4>1. \A i \in 1..(n + 1) : new[i].type # type
        BY <1>2, <2>2, <3>1, <3>2
      <4>2. PartAt(new, type) = 0
        BY <1>2, <4>1, PartPlace
      <4>3. QED
        BY <2>2, <3>2, <4>2
    <3>3. CASE at # 0
      <4>1. {i \in DOMAIN new : new[i].type = type} = {i \in DOMAIN parts : parts[i].type = type}
        <5>1. DOMAIN new = 1..(n + 1) /\ DOMAIN parts = 1..n
          BY <1>1, <1>2, LenProperties
        <5>2. \A i \in 1..(n + 1) : i \in 1..n \/ i = n + 1
          OBVIOUS
        <5>3. QED
          BY <1>2, <2>2, <5>1, <5>2
      <4>2. QED
        BY <2>2, <4>1 DEF PartAt
    <3>4. QED
      BY <3>2, <3>3
  <2>3. QED
    BY <2>1, <2>2
<1>12. p.type # "reasoning" => RowsIn(new) = RowsIn(parts)
  <2>1. PartAt(parts, "reasoning") \in 0..n
    BY <1>1, PartPlace
  <2>2. QED
    BY <1>2, <1>11, <2>1 DEF RowsIn
<1>13. OnlyNew(parts, new, p.type)
  <2>1. p.type # "image" => ImagesOf(new) = ImagesOf(parts)
    BY <1>10
  <2>2. \A other : other # p.type => (PartAt(new, other) = 0 <=> PartAt(parts, other) = 0)
    BY <1>11
  <2>3. QED
    BY <1>6, <1>8, <1>12, <2>1, <2>2 DEF OnlyNew
<1>14. QED
  BY <1>1, <1>7, <1>9, <1>10, <1>11, <1>13

LEMMA OtherPart ==
    ASSUME NEW parts \in Seq(AnyPart), NEW i \in 1..Len(parts), NEW p \in AnyPart,
           p.type = parts[i].type
    PROVE  /\ [parts EXCEPT ![i] = p] \in Seq(AnyPart)
           /\ OnlyNew(parts, [parts EXCEPT ![i] = p], p.type)
           /\ \A type : PartAt([parts EXCEPT ![i] = p], type) = PartAt(parts, type)
<1>1. PICK n \in Nat, new \in Seq(AnyPart) : n = Len(parts) /\ new = [parts EXCEPT ![i] = p]
  BY LenProperties, ExceptSeq
<1>2. Len(new) = n /\ \A j \in 1..n : new[j] = IF j = i THEN p ELSE parts[j]
  BY <1>1, ExceptSeq
<1>3. \A j \in 1..n : new[j].type = parts[j].type
  BY <1>1, <1>2, p.type = parts[i].type
<1>4. p.type # "text" => ProseOf(new) = ProseOf(parts)
  <2>1. ASSUME p.type # "text" PROVE FlatOf(Pieces, new) = FlatOf(Pieces, parts)
    <3>1. Pieces[p] = <<>> /\ Pieces[parts[i]] = <<>>
      BY <1>1, <2>1, p.type = parts[i].type, ElementOfSeq DEF Pieces
    <3>2. \A j \in 1..n : Pieces[new[j]] = Pieces[parts[j]]
      BY <1>1, <1>2, <3>1
    <3>3. QED
      BY <1>1, <1>2, <3>2, FlatSame
  <2>2. QED
    BY <2>1, FlatViews
<1>5. ASSUME NEW type, type # p.type PROVE OfType(new, type) = OfType(parts, type)
  <2>1. Only(type)[p] = <<>> /\ Only(type)[parts[i]] = <<>>
    BY <1>1, <1>5, p.type = parts[i].type, ElementOfSeq DEF Only
  <2>2. \A j \in 1..n : Only(type)[new[j]] = Only(type)[parts[j]]
    BY <1>1, <1>2, <2>1
  <2>3. FlatOf(Only(type), new) = FlatOf(Only(type), parts)
    BY <1>1, <1>2, <2>2, FlatSame
  <2>4. QED
    BY <2>3, FlatViews
<1>6. p.type # "image" => ImagesOf(new) = ImagesOf(parts)
  <2>1. ASSUME p.type # "image" PROVE ImagesOf(new) = ImagesOf(parts)
    <3>1. \A q : ImageIn(new, q) <=> ImageIn(parts, q)
      BY <1>1, <1>2, <2>1, p.type = parts[i].type DEF ImageIn
    <3>2. \A q : q \in ImagesOf(new) <=> q \in ImagesOf(parts)
      BY <3>1, ImagesAre, Zenon
    <3>3. QED
      BY <3>2
  <2>2. QED
    BY <2>1
<1>7. \A type : PartAt(new, type) = PartAt(parts, type)
  <2>1. DOMAIN new = 1..n /\ DOMAIN parts = 1..n
    BY <1>1, <1>2, LenProperties
  <2>2. \A type : {j \in DOMAIN new : new[j].type = type} = {j \in DOMAIN parts : parts[j].type = type}
    BY <1>3, <2>1
  <2>3. QED
    BY <2>2, Zenon DEF PartAt
<1>8. p.type # "reasoning" => RowsIn(new) = RowsIn(parts)
  <2>1. ASSUME p.type # "reasoning" PROVE RowsIn(new) = RowsIn(parts)
    <3>1. PartAt(parts, "reasoning") \in 0..n
          /\ (PartAt(parts, "reasoning") # 0 => parts[PartAt(parts, "reasoning")].type = "reasoning")
      BY <1>1, PartPlace
    <3>2. PartAt(parts, "reasoning") # 0 =>
             new[PartAt(parts, "reasoning")] = parts[PartAt(parts, "reasoning")]
      BY <1>1, <1>2, <2>1, <3>1, p.type = parts[i].type
    <3>3. QED
      BY <1>7, <3>2 DEF RowsIn
  <2>2. QED
    BY <2>1
<1>9. OnlyNew(parts, new, p.type)
  BY <1>4, <1>5, <1>6, <1>7, <1>8 DEF OnlyNew
<1>10. QED
  BY <1>1, <1>7, <1>9

\* A timeline in front of the parts.
LEMMA FirstPart ==
    ASSUME NEW parts \in Seq(AnyPart), NEW p \in AnyPart, p.type = "reasoning",
           PartAt(parts, "reasoning") = 0
    PROVE  /\ <<p>> \o parts \in Seq(AnyPart) /\ OnlyNew(parts, <<p>> \o parts, "reasoning")
           /\ RowsIn(<<p>> \o parts) = p.rows
<1> DEFINE one == <<p>>
<1>1. one \in Seq(AnyPart) /\ Len(one) = 1 /\ one[1] = p
  OBVIOUS
<1> HIDE DEF one
<1>2. PICK n \in Nat, new \in Seq(AnyPart) : n = Len(parts) /\ new = one \o parts
  BY <1>1, Concats, LenProperties
<1>3. Len(new) = n + 1 /\ new[1] = p /\ \A i \in 1..n : new[i + 1] = parts[i]
  <2>1. Len(new) = Len(one) + Len(parts) /\ \A i \in 1..(Len(one) + Len(parts)) :
           new[i] = IF i <= Len(one) THEN one[i] ELSE parts[i - Len(one)]
    BY <1>1, <1>2, Concats
  <2>2. \A i \in 1..n : i + 1 \in 1..(n + 1) /\ ~(i + 1 <= 1) /\ (i + 1) - 1 = i
    OBVIOUS
  <2>3. QED
    BY <1>1, <1>2, <2>1, <2>2
<1>4. \A j \in 1..(n + 1) : j = 1 \/ (j - 1 \in 1..n /\ j = (j - 1) + 1)
  OBVIOUS
<1>5. \A S : \A x \in Seq(S) : <<>> \o x = x
  BY ConcatEmptySeq
<1>6. ProseOf(new) = ProseOf(parts)
  <2>1. Lists(Pieces, AnyPart, 1..MaxPieces) /\ Pieces[p] = <<>>
    BY FlatTypes, p.type = "reasoning" DEF Pieces
  <2>2. FlatOf(Pieces, one \o parts) = FlatOf(Pieces, one) \o FlatOf(Pieces, parts)
    BY <1>1, <2>1, FlatConcat
  <2>3. FlatOf(Pieces, one) = <<>>
    BY <2>1, FlatOne DEF one
  <2>4. FlatOf(Pieces, parts) \in Seq(1..MaxPieces)
    BY <2>1, FlatMapped
  <2>5. FlatOf(Pieces, new) = FlatOf(Pieces, parts)
    BY <1>2, <1>5, <2>2, <2>3, <2>4, Zenon
  <2>6. QED
    BY <2>5, FlatViews
<1>7. ASSUME NEW type, type # "reasoning" PROVE OfType(new, type) = OfType(parts, type)
  <2>1. Lists(Only(type), AnyPart, AnyPart) /\ Only(type)[p] = <<>>
    BY <1>7, FlatTypes, p.type = "reasoning" DEF Only
  <2>2. FlatOf(Only(type), one \o parts) = FlatOf(Only(type), one) \o FlatOf(Only(type), parts)
    BY <1>1, <2>1, FlatConcat
  <2>3. FlatOf(Only(type), one) = <<>>
    BY <2>1, FlatOne DEF one
  <2>4. FlatOf(Only(type), parts) \in Seq(AnyPart)
    BY <2>1, FlatMapped
  <2>5. FlatOf(Only(type), new) = FlatOf(Only(type), parts)
    BY <1>2, <1>5, <2>2, <2>3, <2>4, Zenon
  <2>6. QED
    BY <2>5, FlatViews
<1>8. ImagesOf(new) = ImagesOf(parts)
  <2>1. ASSUME NEW q PROVE ImageIn(new, q) <=> ImageIn(parts, q)
    <3>2. ASSUME NEW j \in 1..(n + 1), q = new[j], q.type = "image"
          PROVE  j - 1 \in 1..n /\ q = parts[j - 1]
      <4>1. j # 1
        BY <1>3, <3>2, p.type = "reasoning"
      <4>2. QED
        BY <1>3, <1>4, <3>2, <4>1
    <3>3. ASSUME NEW j \in 1..n, q = parts[j]
          PROVE  j + 1 \in 1..(n + 1) /\ q = new[j + 1]
      BY <1>3, <3>3
    <3>4. QED
      BY <1>2, <1>3, <3>2, <3>3 DEF ImageIn
  <2>2. \A q : q \in ImagesOf(new) <=> q \in ImagesOf(parts)
    BY <2>1, ImagesAre, Zenon
  <2>3. QED
    BY <2>2
<1>9. RowsIn(new) = p.rows
  <2>1. \A i \in 1..n : parts[i].type # "reasoning"
    BY <1>2, PartAt(parts, "reasoning") = 0, PartPlace
  <2>2. \A k \in 1..(n + 1) : new[k].type = "reasoning" => k <= 1
    <3>1. TAKE k \in 1..(n + 1)
    <3>2. k = 1 \/ (k - 1 \in 1..n /\ new[k] = parts[k - 1])
      BY <1>3, <1>4
    <3>3. QED
      BY <2>1, <3>2
  <2>3. 1 \in 1..(n + 1) /\ new[1].type = "reasoning"
    BY <1>3, p.type = "reasoning"
  <2>4. PartAt(new, "reasoning") = 1
    <3>1. \A m \in 1..Len(new) :
             new[m].type = "reasoning" /\ (\A k \in 1..Len(new) : new[k].type = "reasoning" => k <= m)
             => PartAt(new, "reasoning") = m
      BY PartPlace
    <3>2. QED
      BY <1>3, <2>2, <2>3, <3>1
  <2>5. QED
    BY <1>3, <2>4 DEF RowsIn
<1>10. ASSUME NEW type, type # "reasoning" PROVE PartAt(new, type) = 0 <=> PartAt(parts, type) = 0
  <2>1. (\A k \in 1..(n + 1) : new[k].type # type) <=> \A k \in 1..n : parts[k].type # type
    <3>1. ASSUME \A k \in 1..(n + 1) : new[k].type # type, NEW k \in 1..n PROVE parts[k].type # type
      <4>1. k + 1 \in 1..(n + 1) /\ new[k + 1] = parts[k]
        BY <1>3
      <4>2. QED
        BY <3>1, <4>1
    <3>2. ASSUME \A k \in 1..n : parts[k].type # type, NEW k \in 1..(n + 1) PROVE new[k].type # type
      BY <1>3, <1>4, <1>10, <3>2, p.type = "reasoning"
    <3>3. QED
      BY <3>1, <3>2
  <2>2. QED
    <3>1. PartAt(parts, type) = 0 <=> \A k \in 1..n : parts[k].type # type
      BY <1>2, PartPlace
    <3>2. PartAt(new, type) = 0 <=> \A k \in 1..(n + 1) : new[k].type # type
      BY <1>3, PartPlace
    <3>3. QED
      BY <2>1, <3>1, <3>2
<1>11. OnlyNew(parts, new, "reasoning")
  BY <1>6, <1>7, <1>8, <1>10 DEF OnlyNew
<1>12. QED
  BY <1>2, <1>9, <1>11 DEF one

LEMMA PartsWiden ==
    ASSUME NEW rowSet, rowSet \subseteq Row \union ShownRow
    PROVE  AnswerParts(rowSet) \subseteq AnyPart /\ Seq(AnswerParts(rowSet)) \subseteq Seq(AnyPart)
<1>1. Seq(rowSet) \subseteq Seq(Row \union ShownRow)
  BY rowSet \subseteq Row \union ShownRow, WiderSeq
<1>2. AnswerParts(rowSet) \subseteq AnyPart
  <2>1. Timelines(rowSet) \subseteq Timelines(Row \union ShownRow)
    BY <1>1 DEF Timelines
  <2>2. QED
    BY <2>1 DEF AnswerParts, AnyPart
<1>3. QED
  BY <1>2, WiderSeq

LEMMA AddsText ==
    ASSUME NEW rowSet, rowSet \subseteq Row \union ShownRow,
           NEW parts \in Seq(AnswerParts(rowSet)), NEW n \in 1..MaxPieces
    PROVE  /\ AddText(parts, n) \in Seq(AnswerParts(rowSet))
           /\ OnlyNew(parts, AddText(parts, n), "text")
           /\ ProseOf(AddText(parts, n)) = Append(ProseOf(parts), n)
<1>1. parts \in Seq(AnyPart) /\ AnswerParts(rowSet) \subseteq AnyPart
  BY rowSet \subseteq Row \union ShownRow, PartsWiden
<1>2. CASE parts # <<>> /\ Last(parts).type = "text"
  <2>1. PICK front \in Seq(AnswerParts(rowSet)), p \in AnswerParts(rowSet) : parts = Append(front, p)
    BY <1>2, SequenceEmptyOrAppend
  <2>2. PICK m \in Nat : m = Len(front)
    BY LenProperties
  <2>3. Len(parts) = m + 1 /\ parts[m + 1] = p /\ \A i \in 1..m : parts[i] = front[i]
    BY <2>1, <2>2, AppendProperties
  <2>4. p.type = "text" /\ p \in TextParts /\ p \in AnyPart
    BY <1>1, <1>2, <2>3, PartsAre DEF Last
  <2>5. p.pieces \in Seq(1..MaxPieces)
    BY <2>4 DEF TextParts
  <2>6. Append(p.pieces, n) \in Seq(1..MaxPieces)
    BY <2>5, AppendProperties
  <2>7. PICK q : q = [p EXCEPT !.pieces = Append(p.pieces, n)]
    OBVIOUS
  <2>8. q \in TextParts /\ q.type = "text" /\ q.pieces = Append(p.pieces, n)
    BY <2>4, <2>6, <2>7 DEF TextParts
  <2>9. q \in AnswerParts(rowSet) /\ q \in AnyPart
    BY <1>1, <2>8 DEF AnswerParts
  <2>10. AddText(parts, n) = Append(front, q)
    <3>1. AddText(parts, n) = [parts EXCEPT ![m + 1] = q]
      BY <1>2, <2>3, <2>7 DEF AddText
    <3>2. m + 1 \in 1..Len(parts)
      BY <2>2, <2>3
    <3>3. PICK new \in Seq(AnswerParts(rowSet)) : new = [parts EXCEPT ![m + 1] = q]
      BY <2>9, <3>2, ExceptSeq
    <3>4. Len(new) = m + 1 /\ \A j \in 1..(m + 1) : new[j] = IF j = m + 1 THEN q ELSE parts[j]
      BY <2>3, <2>9, <3>2, <3>3, ExceptSeq
    <3>5. PICK other \in Seq(AnswerParts(rowSet)) : other = Append(front, q)
      BY <2>9, AppendProperties
    <3>6. Len(other) = m + 1 /\ other[m + 1] = q /\ \A j \in 1..m : other[j] = front[j]
      BY <2>2, <2>9, <3>5, AppendProperties
    <3>7. \A j \in 1..(m + 1) : j \in 1..m \/ j = m + 1
      BY <2>2
    <3>8. \A j \in 1..m : j \in 1..(m + 1) /\ j # m + 1
      BY <2>2
    <3>9. \A j \in 1..Len(new) : new[j] = other[j]
      BY <2>3, <3>4, <3>6, <3>7, <3>8
    <3>10. new = other
      BY <3>4, <3>6, <3>9, EqualSeqs
    <3>11. QED
      BY <3>1, <3>3, <3>5, <3>10
  <2>11. front \in Seq(AnyPart)
    BY rowSet \subseteq Row \union ShownRow, PartsWiden
  <2>12. OnlyNew(front, parts, "text") /\ ProseOf(parts) = ProseOf(front) \o p.pieces
    BY <2>1, <2>4, <2>11, PlusPart
  <2>13. OnlyNew(front, Append(front, q), "text") /\ ProseOf(Append(front, q)) = ProseOf(front) \o q.pieces
    BY <2>8, <2>9, <2>11, PlusPart
  <2>14. OnlyNew(parts, AddText(parts, n), "text")
    BY <2>10, <2>12, <2>13 DEF OnlyNew
  <2>15. ProseOf(front) \in Seq(1..MaxPieces)
    BY <2>11, FlatViews
  <2>16. ProseOf(front) \o Append(p.pieces, n) = Append(ProseOf(front) \o p.pieces, n)
    <3>0. <<n>> \in Seq(1..MaxPieces)
      BY n \in 1..MaxPieces
    <3>1. PICK a, b, c \in Seq(1..MaxPieces) : a = ProseOf(front) /\ b = p.pieces /\ c = <<n>>
      BY <2>5, <2>15, <3>0, Zenon
    <3>2. Append(b, n) = b \o c
      BY <3>1, AppendIsConcat
    <3>3. (a \o b) \in Seq(1..MaxPieces)
      BY Concats
    <3>4. Append(a \o b, n) = (a \o b) \o c
      BY <3>1, <3>3, AppendIsConcat
    <3>5. (a \o b) \o c = a \o (b \o c)
      BY ConcatAssociative
    <3>6. QED
      BY <3>1, <3>2, <3>4, <3>5
  <2>17. Append(front, q) \in Seq(AnswerParts(rowSet))
    BY <2>9, AppendProperties
  <2>18. QED
    BY <2>8, <2>10, <2>12, <2>13, <2>14, <2>16, <2>17
<1>3. CASE ~(parts # <<>> /\ Last(parts).type = "text")
  <2>1. PICK p : p = Text(<<n>>)
    OBVIOUS
  <2>2. p \in TextParts /\ p.type = "text" /\ p.pieces = <<n>>
    BY <2>1 DEF Text, TextParts
  <2>3. p \in AnswerParts(rowSet) /\ p \in AnyPart
    BY <1>1, <2>2 DEF AnswerParts
  <2>4. AddText(parts, n) = Append(parts, p)
    BY <1>3, <2>1 DEF AddText
  <2>5. OnlyNew(parts, Append(parts, p), "text") /\ ProseOf(Append(parts, p)) = ProseOf(parts) \o p.pieces
    BY <1>1, <2>2, <2>3, PlusPart
  <2>6. ProseOf(parts) \in Seq(1..MaxPieces)
    BY <1>1, FlatViews
  <2>7. Append(ProseOf(parts), n) = ProseOf(parts) \o <<n>>
    BY <2>6, AppendIsConcat
  <2>8. Append(parts, p) \in Seq(AnswerParts(rowSet))
    BY <2>3, AppendProperties
  <2>9. QED
    BY <2>2, <2>4, <2>5, <2>7, <2>8
<1>4. QED
  BY <1>2, <1>3

LEMMA AddsRows ==
    ASSUME NEW rowSet, rowSet \subseteq Row \union ShownRow,
           NEW parts \in Seq(AnswerParts(rowSet)), NEW rows \in Seq(rowSet)
    PROVE  /\ WithRows(parts, rows) \in Seq(AnswerParts(rowSet))
           /\ OnlyNew(parts, WithRows(parts, rows), "reasoning")
           /\ RowsIn(WithRows(parts, rows)) = rows
<1>1. parts \in Seq(AnyPart) /\ AnswerParts(rowSet) \subseteq AnyPart
  BY rowSet \subseteq Row \union ShownRow, PartsWiden
<1>2. PICK p : p = Reasoning(rows)
  OBVIOUS
<1>3. p \in Timelines(rowSet) /\ p.type = "reasoning" /\ p.rows = rows
  BY <1>2 DEF Reasoning, Timelines
<1>4. p \in AnswerParts(rowSet) /\ p \in AnyPart
  BY <1>1, <1>3 DEF AnswerParts
<1>5. CASE PartAt(parts, "reasoning") = 0
  <2>1. WithRows(parts, rows) = <<p>> \o parts
    BY <1>2, <1>5 DEF WithRows
  <2>2. <<p>> \o parts \in Seq(AnswerParts(rowSet))
    <3>0. <<p>> \in Seq(AnswerParts(rowSet))
      BY <1>4
    <3>1. PICK one \in Seq(AnswerParts(rowSet)) : one = <<p>>
      BY <3>0, Zenon
    <3>2. one \o parts \in Seq(AnswerParts(rowSet))
      BY Concats
    <3>3. QED
      BY <3>1, <3>2
  <2>3. OnlyNew(parts, <<p>> \o parts, "reasoning") /\ RowsIn(<<p>> \o parts) = p.rows
    BY <1>1, <1>3, <1>4, <1>5, FirstPart
  <2>4. QED
    BY <1>3, <2>1, <2>2, <2>3
<1>6. CASE PartAt(parts, "reasoning") # 0
  <2>1. PICK i \in 1..Len(parts) : i = PartAt(parts, "reasoning") /\ parts[i].type = "reasoning"
    <3>1. PartAt(parts, "reasoning") \in 0..Len(parts)
          /\ (PartAt(parts, "reasoning") # 0 => parts[PartAt(parts, "reasoning")].type = "reasoning")
          /\ Len(parts) \in Nat
      BY <1>1, PartPlace, LenProperties
    <3>2. QED
      BY <1>6, <3>1
  <2>2. parts[i] \in Timelines(Row \union ShownRow)
    BY <1>1, <2>1, PartsAre, ElementOfSeq
  <2>3. [parts[i] EXCEPT !.rows = rows] = p
    BY <1>2, <2>2 DEF Timelines, Reasoning
  <2>4. WithRows(parts, rows) = [parts EXCEPT ![i] = p]
    BY <1>6, <2>1, <2>3 DEF WithRows
  <2>5. PICK new : new = [parts EXCEPT ![i] = p]
    OBVIOUS
  <2>6. OnlyNew(parts, new, "reasoning") /\ \A type : PartAt(new, type) = PartAt(parts, type)
    BY <1>1, <1>3, <1>4, <2>1, <2>5, OtherPart
  <2>7. new \in Seq(AnswerParts(rowSet)) /\ new[i] = p
    BY <1>4, <2>5, ExceptSeq
  <2>8. RowsIn(new) = rows
    BY <1>3, <1>6, <2>1, <2>6, <2>7 DEF RowsIn
  <2>9. QED
    BY <2>4, <2>5, <2>6, <2>7, <2>8
<1>7. QED
  BY <1>5, <1>6

-----------------------------------------------------------------------------
(***************************************************************************)
(* One timeline                                                            *)
(***************************************************************************)
\* rows with one more, and rows with another one at a place.
Grown(rows, x, new) ==
    Len(new) = Len(rows) + 1 /\ new[Len(rows) + 1] = x /\ \A i \in 1..Len(rows) : new[i] = rows[i]
PutAt(rows, c, x, new) ==
    /\ c \in 1..Len(rows) /\ Len(new) = Len(rows)
    /\ \A i \in 1..Len(rows) : new[i] = IF i = c THEN x ELSE rows[i]

LEMMA LatestPlace ==
    ASSUME NEW S, NEW rows \in Seq(S), NEW op
    PROVE  /\ LatestRow(rows, op) \in 0..Len(rows)
           /\ LatestRow(rows, op) = 0 <=> \A i \in 1..Len(rows) : rows[i].op # op
           /\ LatestRow(rows, op) # 0 => rows[LatestRow(rows, op)].op = op
           /\ \A i \in 1..Len(rows) : rows[i].op = op => i <= LatestRow(rows, op)
           /\ \A m \in 1..Len(rows) :
                 rows[m].op = op /\ (\A k \in 1..Len(rows) : rows[k].op = op => k <= m)
                 => LatestRow(rows, op) = m
<1>1. PICK n \in Nat : n = Len(rows) /\ DOMAIN rows = 1..n
  BY LenProperties
<1> DEFINE places == {i \in DOMAIN rows : rows[i].op = op}
<1>2. places \subseteq 1..n /\ \A i \in 1..n : i \in places <=> rows[i].op = op
  BY <1>1
<1>3. PICK at : at = LatestRow(rows, op)
  OBVIOUS
<1>4. at = LastOf(places)
  BY <1>3 DEF LatestRow
<1> HIDE DEF places
<1>5. /\ at \in 0..n /\ (at = 0 <=> places = {}) /\ (places # {} => at \in places)
      /\ (\A k \in places : k <= at) /\ \A m \in places : (\A k \in places : k <= m) => at = m
  BY <1>1, <1>2, <1>4, LastPlace, Zenon
<1>6. (places = {} <=> \A i \in 1..n : rows[i].op # op) /\ (at # 0 => rows[at].op = op)
  BY <1>2, <1>5
<1>7. \A i \in 1..n : rows[i].op = op => i <= at
  BY <1>2, <1>5
<1>8. ASSUME NEW m \in 1..n, rows[m].op = op, \A k \in 1..n : rows[k].op = op => k <= m
      PROVE  at = m
  BY <1>2, <1>5, <1>8
<1>9. QED
  BY <1>1, <1>3, <1>5, <1>6, <1>7, <1>8

\* What one more row does to the end of each operation.
LEMMA EndGrown ==
    ASSUME NEW S, NEW rows \in Seq(S), NEW new \in Seq(S), NEW x, Grown(rows, x, new), NEW op
    PROVE  /\ LatestRow(new, op) = IF x.op = op THEN Len(rows) + 1 ELSE LatestRow(rows, op)
           /\ EndOf(new, op) = IF x.op = op THEN x.state ELSE EndOf(rows, op)
<1>1. PICK n \in Nat : n = Len(rows)
  BY LenProperties
<1>2. Len(new) = n + 1 /\ new[n + 1] = x /\ \A i \in 1..n : new[i] = rows[i]
  BY <1>1, Grown(rows, x, new) DEF Grown
<1>3. \A i \in 1..(n + 1) : i \in 1..n \/ i = n + 1
  OBVIOUS
<1>4. CASE x.op = op
  <2>1. LatestRow(new, op) = n + 1
    <3>1. n + 1 \in 1..(n + 1) /\ \A k \in 1..(n + 1) : k <= n + 1
      OBVIOUS
    <3>2. QED
      BY <1>2, <1>4, <3>1, LatestPlace
  <2>2. QED
    BY <1>1, <1>2, <1>4, <2>1 DEF EndOf
<1>5. CASE x.op # op
  <2>1. PICK m, k : m = LatestRow(rows, op) /\ k = LatestRow(new, op)
    OBVIOUS
  <2>2. /\ m \in 0..n /\ (m = 0 <=> \A i \in 1..n : rows[i].op # op) /\ (m # 0 => rows[m].op = op)
        /\ \A i \in 1..n : rows[i].op = op => i <= m
    BY <1>1, <2>1, LatestPlace
  <2>3. /\ k \in 0..(n + 1) /\ (k = 0 <=> \A i \in 1..(n + 1) : new[i].op # op)
        /\ (k # 0 => new[k].op = op) /\ \A i \in 1..(n + 1) : new[i].op = op => i <= k
    BY <1>2, <2>1, LatestPlace
  <2>4. k \in 0..n /\ (k # 0 => rows[k].op = op)
    BY <1>2, <1>5, <2>3
  <2>5. m # 0 => new[m].op = op /\ m \in 1..n
    BY <1>2, <2>2
  <2>6. m = k
    BY <1>2, <2>2, <2>3, <2>4, <2>5
  <2>7. k # 0 => new[k] = rows[k]
    BY <1>2, <2>4
  <2>8. QED
    BY <1>5, <2>1, <2>6, <2>7 DEF EndOf
<1>6. QED
  BY <1>4, <1>5

LEMMA EndPut ==
    ASSUME NEW S, NEW rows \in Seq(S), NEW new \in Seq(S), NEW x, NEW c,
           PutAt(rows, c, x, new), x.op = rows[c].op, NEW op
    PROVE  /\ LatestRow(new, op) = LatestRow(rows, op)
           /\ EndOf(new, op) = IF LatestRow(rows, op) = c THEN x.state ELSE EndOf(rows, op)
<1>1. PICK n \in Nat : n = Len(rows) /\ DOMAIN rows = 1..n
  BY LenProperties
<1>2. Len(new) = n /\ c \in 1..n /\ \A i \in 1..n : new[i] = IF i = c THEN x ELSE rows[i]
  BY <1>1, PutAt(rows, c, x, new) DEF PutAt
<1>3. DOMAIN new = 1..n
  BY <1>2, LenProperties
<1>4. \A i \in 1..n : new[i].op = rows[i].op
  BY <1>2, x.op = rows[c].op
<1>5. LatestRow(new, op) = LatestRow(rows, op)
  <2>1. {i \in DOMAIN new : new[i].op = op} = {i \in DOMAIN rows : rows[i].op = op}
    BY <1>1, <1>3, <1>4
  <2>2. QED
    BY <2>1 DEF LatestRow
<1>6. LatestRow(rows, op) \in 0..n
  BY <1>1, LatestPlace
<1>7. QED
  BY <1>2, <1>5, <1>6 DEF EndOf

\* The row of an identifier that no other row has.
LEMMA RowPlace ==
    ASSUME NEW S, NEW rows \in Seq(S), NEW id
    PROVE  /\ id \notin Ids(rows) => RowAt(rows, id) = 0
           /\ \A c \in 1..Len(rows) : NoIdTwice(rows) /\ rows[c].id = id => RowAt(rows, id) = c
<1>1. PICK n \in Nat : n = Len(rows) /\ DOMAIN rows = 1..n
  BY LenProperties
<1> DEFINE places == {i \in DOMAIN rows : rows[i].id = id}
<1>2. places \subseteq 1..n /\ \A i \in 1..n : i \in places <=> rows[i].id = id
  BY <1>1
<1>3. RowAt(rows, id) = LastOf(places)
  BY DEF RowAt
<1> HIDE DEF places
<1>4. /\ LastOf(places) = 0 <=> places = {}
      /\ \A m \in places : (\A k \in places : k <= m) => LastOf(places) = m
  BY <1>1, <1>2, LastPlace, Zenon
<1>5. id \notin Ids(rows) => places = {}
  BY <1>1, <1>2 DEF Ids
<1>6. ASSUME NEW c \in 1..n, NoIdTwice(rows), rows[c].id = id PROVE LastOf(places) = c
  <2>1. \A k \in places : k = c
    BY <1>1, <1>2, <1>6 DEF NoIdTwice
  <2>2. c \in places
    BY <1>2, <1>6
  <2>3. QED
    BY <1>4, <2>1, <2>2
<1>7. QED
  BY <1>1, <1>3, <1>4, <1>5, <1>6

\* A row taken from the end is put there again.
LEMMA MovedLast ==
    ASSUME NEW S, NEW rows \in Seq(S), rows # <<>>, NEW x \in S
    PROVE  /\ Append(RemoveAt(rows, Len(rows)), x) \in Seq(S)
           /\ PutAt(rows, Len(rows), x, Append(RemoveAt(rows, Len(rows)), x))
<1>1. PICK front \in Seq(S), y \in S : rows = Append(front, y)
  BY rows # <<>>, SequenceEmptyOrAppend
<1>2. PICK n \in Nat : n = Len(front)
  BY LenProperties
<1>3. Len(rows) = n + 1 /\ \A i \in 1..n : rows[i] = front[i]
  BY <1>1, <1>2, AppendProperties
<1>4. RemoveAt(rows, n + 1) = SubSeq(rows, 1, n) \o SubSeq(rows, n + 2, n + 1)
  <2>1. (n + 1) - 1 = n /\ (n + 1) + 1 = n + 2
    OBVIOUS
  <2>2. QED
    BY <1>3, <2>1 DEF RemoveAt
<1>5. SubSeq(rows, n + 2, n + 1) = <<>>
  BY <1>2
<1>6. PICK head \in Seq(S) : head = SubSeq(rows, 1, n) /\ Len(head) = n /\ \A i \in 1..n : head[i] = rows[i]
  <2>1. \A i \in 1..n : rows[i] \in S
    BY <1>2, <1>3, ElementOfSeq
  <2>2. SubSeq(rows, 1, n) = [i \in 1..n |-> rows[i]]
    BY <1>2, <1>3
  <2>3. [i \in 1..n |-> rows[i]] \in Seq(S)
    BY <2>1
  <2>4. PICK head \in Seq(S) : head = [i \in 1..n |-> rows[i]]
    BY <2>3
  <2>5. Len(head) = n /\ \A i \in 1..n : head[i] = rows[i]
    BY <2>4
  <2>6. QED
    BY <2>2, <2>4, <2>5
<1>7. RemoveAt(rows, n + 1) = head
  <2>1. \A s \in Seq(S) : s \o <<>> = s
    BY ConcatEmptySeq
  <2>2. QED
    BY <1>4, <1>5, <1>6, <2>1, Zenon
<1>8. Append(head, x) \in Seq(S) /\ Len(Append(head, x)) = n + 1 /\ Append(head, x)[n + 1] = x
      /\ \A i \in 1..n : Append(head, x)[i] = head[i]
  BY <1>6, AppendProperties
<1>9. \A i \in 1..(n + 1) : i \in 1..n \/ i = n + 1
  OBVIOUS
<1>10. \A i \in 1..n : i # n + 1
  OBVIOUS
<1>11. PutAt(rows, n + 1, x, Append(head, x))
  BY <1>3, <1>6, <1>8, <1>9, <1>10 DEF PutAt
<1>12. QED
  BY <1>3, <1>7, <1>8, <1>11

LEMMA PutExcept ==
    ASSUME NEW S, NEW rows \in Seq(S), NEW c \in 1..Len(rows), NEW x \in S
    PROVE  [rows EXCEPT ![c] = x] \in Seq(S) /\ PutAt(rows, c, x, [rows EXCEPT ![c] = x])
BY ExceptSeq DEF PutAt

LEMMA GrownAppend ==
    ASSUME NEW S, NEW rows \in Seq(S), NEW x \in S
    PROVE  Append(rows, x) \in Seq(S) /\ Grown(rows, x, Append(rows, x))
BY AppendProperties DEF Grown

-----------------------------------------------------------------------------
(***************************************************************************)
(* An action on the recorded and on the shown timeline                     *)
(***************************************************************************)
LEMMA RecordsRow ==
    ASSUME NEW rows \in Seq(Row), NEW f \in ActivityFrames, NEW late,
           RowsRecorded(rows), RowFits(rows, f, late)
    PROVE  LET n == Len(rows)  new == RecordActivity(rows, f) IN
           /\ new \in Seq(Row)
           /\ EndsWith(rows, f.op) =>
                 n \in 1..Len(rows) /\ PutAt(rows, n, [rows[n] EXCEPT !.state = f.state], new)
           /\ ~EndsWith(rows, f.op) =>
                 f.id \notin Ids(rows) /\ Grown(rows, [id |-> f.id, op |-> f.op, state |-> f.state], new)
<1>1. PICK n \in Nat : n = Len(rows) /\ (rows # <<>> => n \in 1..n)
  <2>1. Len(rows) \in Nat /\ (Len(rows) = 0 => rows = <<>>)
    BY LenProperties, EmptySeq
  <2>2. QED
    BY <2>1
<1>2. f.id \in 1..MaxCalls /\ f.op \in Operations /\ f.state \in RowStates
  BY DEF ActivityFrames
<1>3. f.id \in Ids(rows) => rows # <<>> /\ rows[n].id = f.id /\ rows[n].op = f.op
  <2>1. f.id \in Ids(rows) => rows # <<>>
    BY <1>1 DEF Ids
  <2>2. QED
    BY <1>1, <2>1, RowFits(rows, f, late) DEF RowFits
<1>4. RowAt(rows, f.id) = IF f.id \in Ids(rows) THEN n ELSE 0
  BY <1>1, <1>3, RowsRecorded(rows), RowPlace DEF RowsRecorded
<1>5. CASE EndsWith(rows, f.op)
  <2>1. rows # <<>> /\ rows[n].op = f.op /\ n \in 1..n /\ n # 0
    BY <1>1, <1>5 DEF EndsWith
  <2>2. RowOfCall(rows, f) = n
    BY <1>1, <1>4, <2>1 DEF RowOfCall, Last
  <2>3. PICK row : row = [rows[n] EXCEPT !.state = f.state]
    OBVIOUS
  <2>4. row \in Row
    <3>1. rows[n] \in Row
      BY <1>1, <2>1, ElementOfSeq
    <3>2. QED
      BY <1>2, <2>3, <3>1 DEF Row
  <2>5. RecordActivity(rows, f) \in {Append(RemoveAt(rows, n), row), [rows EXCEPT ![n] = row]}
    BY <2>1, <2>2, <2>3 DEF RecordActivity
  <2>6. Append(RemoveAt(rows, n), row) \in Seq(Row) /\ PutAt(rows, n, row, Append(RemoveAt(rows, n), row))
    BY <1>1, <2>1, <2>4, MovedLast
  <2>7. [rows EXCEPT ![n] = row] \in Seq(Row) /\ PutAt(rows, n, row, [rows EXCEPT ![n] = row])
    BY <1>1, <2>1, <2>4, PutExcept
  <2>8. QED
    BY <1>1, <1>5, <2>1, <2>3, <2>5, <2>6, <2>7
<1>6. CASE ~EndsWith(rows, f.op)
  <2>1. f.id \notin Ids(rows)
    BY <1>1, <1>3, <1>6 DEF EndsWith
  <2>2. RowOfCall(rows, f) = 0
    BY <1>1, <1>4, <1>6, <2>1 DEF RowOfCall, Last, EndsWith
  <2>3. PICK row : row = [id |-> f.id, op |-> f.op, state |-> f.state]
    OBVIOUS
  <2>4. row \in Row
    BY <1>2, <2>3 DEF Row
  <2>5. RecordActivity(rows, f) = Append(rows, row)
    BY <2>2, <2>3 DEF RecordActivity
  <2>6. QED
    BY <1>6, <2>1, <2>3, <2>4, <2>5, GrownAppend
<1>7. QED
  BY <1>5, <1>6

\* The row an action goes on with is the latest of its operation.
LatestStaysCurrent(rows) == \A i \in 1..Len(rows) : rows[i].current => rows[LatestRow(rows, rows[i].op)].current
LEMMA CurrentIsLatest ==
    ASSUME NEW rows \in Seq(ShownRow), LatestStaysCurrent(rows), NEW op
    PROVE  /\ CurrentRow(rows, op) \in 0..Len(rows)
           /\ CurrentRow(rows, op) = 0 <=> \A i \in 1..Len(rows) : ~(rows[i].current /\ rows[i].op = op)
           /\ CurrentRow(rows, op) # 0 =>
                 /\ CurrentRow(rows, op) = LatestRow(rows, op)
                 /\ rows[CurrentRow(rows, op)].op = op /\ rows[CurrentRow(rows, op)].current
<1>1. PICK n \in Nat : n = Len(rows) /\ DOMAIN rows = 1..n
  BY LenProperties
<1> DEFINE places == {i \in DOMAIN rows : rows[i].current /\ rows[i].op = op}
<1>2. places \subseteq 1..n /\ \A i \in 1..n : i \in places <=> (rows[i].current /\ rows[i].op = op)
  BY <1>1
<1>3. PICK at : at = CurrentRow(rows, op)
  OBVIOUS
<1>4. at = LastOf(places)
  BY <1>3 DEF CurrentRow
<1> HIDE DEF places
<1>5. at \in 0..n /\ (at = 0 <=> places = {}) /\ (places # {} => at \in places) /\ \A k \in places : k <= at
  BY <1>1, <1>2, <1>4, LastPlace, Zenon
<1>6. at = 0 <=> \A i \in 1..n : ~(rows[i].current /\ rows[i].op = op)
  BY <1>2, <1>5
<1>7. ASSUME at # 0 PROVE at = LatestRow(rows, op) /\ rows[at].op = op /\ rows[at].current
  <2>1. at \in 1..n /\ rows[at].op = op /\ rows[at].current
    BY <1>2, <1>5, <1>7
  <2>2. PICK m : m = LatestRow(rows, op)
    OBVIOUS
  <2>3. m \in 0..n /\ (m # 0 => rows[m].op = op) /\ at <= m
    BY <1>1, <2>1, <2>2, LatestPlace
  <2>4. rows[m].current
    BY <1>1, <2>1, <2>2, LatestStaysCurrent(rows) DEF LatestStaysCurrent
  <2>5. m \in 1..n
    BY <2>1, <2>3
  <2>6. m <= at
    BY <1>2, <1>5, <2>3, <2>4, <2>5
  <2>7. QED
    BY <2>1, <2>2, <2>3, <2>6
<1>8. QED
  BY <1>1, <1>3, <1>5, <1>6, <1>7

\* The rows before a new action.
Before(rows, state, ended) ==
    /\ ended \in Seq(ShownRow) /\ Len(ended) = Len(rows)
    /\ \A i \in 1..Len(rows) :
          ended[i] = IF state # "running" THEN rows[i]
                     ELSE [rows[i] EXCEPT !.current = FALSE,
                               !.state = IF rows[i].state = "running" THEN "completed" ELSE rows[i].state]
LEMMA ShowsRow ==
    ASSUME NEW rows \in Seq(ShownRow), LatestStaysCurrent(rows), NoIdTwice(rows), NEW f \in ActivityFrames
    PROVE  LET c == CurrentRow(rows, f.op)  new == ShowRow(rows, f)
               row(id) == [id |-> id, op |-> f.op, state |-> f.state, current |-> TRUE]
           IN /\ c # 0 => /\ new \in Seq(ShownRow) /\ c \in 1..Len(rows)
                          /\ PutAt(rows, c, row(rows[c].id), new)
              /\ c = 0 /\ f.id \notin Ids(rows) =>
                    /\ new \in Seq(ShownRow)
                    /\ \E ended : Before(rows, f.state, ended) /\ Grown(ended, row(f.id), new)
<1>1. PICK n \in Nat : n = Len(rows) /\ DOMAIN rows = 1..n
  BY LenProperties
<1>2. f.id \in 1..MaxCalls /\ f.op \in Operations /\ f.state \in RowStates
  BY DEF ActivityFrames
<1>3. PICK c : c = CurrentRow(rows, f.op)
  OBVIOUS
<1>4. c \in 0..n /\ (c # 0 => rows[c].op = f.op /\ rows[c].current)
  BY <1>1, <1>3, LatestStaysCurrent(rows), CurrentIsLatest
<1>5. ASSUME c # 0
      PROVE  /\ c \in 1..n /\ ShowRow(rows, f) \in Seq(ShownRow)
             /\ PutAt(rows, c, [id |-> rows[c].id, op |-> f.op, state |-> f.state, current |-> TRUE],
                      ShowRow(rows, f))
  <2>1. c \in 1..n
    BY <1>4, <1>5
  <2>2. RowAt(rows, rows[c].id) = c
    BY <1>1, <2>1, NoIdTwice(rows), RowPlace
  <2>3. PICK row : row = [id |-> rows[c].id, op |-> f.op, state |-> f.state, current |-> TRUE]
    OBVIOUS
  <2>4. rows[c] \in ShownRow
    BY <1>1, <2>1, ElementOfSeq
  <2>5. row \in ShownRow
    BY <1>2, <2>3, <2>4 DEF ShownRow
  <2>6. ShowRow(rows, f) = [rows EXCEPT ![c] = row]
    <3>1. (f.state = "running" \/ c = 0 \/ rows[c].current) = TRUE
      BY <1>4, <1>5
    <3>2. QED
      BY <1>3, <1>4, <1>5, <2>2, <2>3, <3>1 DEF ShowRow
  <2>7. [rows EXCEPT ![c] = row] \in Seq(ShownRow) /\ PutAt(rows, c, row, [rows EXCEPT ![c] = row])
    BY <1>1, <2>1, <2>5, PutExcept
  <2>8. QED
    BY <2>1, <2>3, <2>6, <2>7
<1>6. ASSUME c = 0, f.id \notin Ids(rows)
      PROVE  /\ ShowRow(rows, f) \in Seq(ShownRow)
             /\ \E ended : Before(rows, f.state, ended)
                   /\ Grown(ended, [id |-> f.id, op |-> f.op, state |-> f.state, current |-> TRUE],
                            ShowRow(rows, f))
  <2>1. PICK ended : ended = IF f.state = "running" THEN EndPrevious(rows, f.id) ELSE rows
    OBVIOUS
  <2>2. \A i \in 1..n : rows[i] \in ShownRow /\ rows[i].id # f.id
    BY <1>1, <1>6, ElementOfSeq DEF Ids
  <2>3. Before(rows, f.state, ended) /\ Ids(ended) = Ids(rows)
    <3>1. CASE f.state # "running"
      BY <2>1, <3>1 DEF Before
    <3>2. CASE f.state = "running"
      <4> DEFINE over(i) == [rows[i] EXCEPT !.current = FALSE,
                               !.state = IF rows[i].state = "running" THEN "completed" ELSE rows[i].state]
      <4>1. EndPrevious(rows, f.id) = [i \in 1..n |-> over(i)]
        BY <1>1, <2>2 DEF EndPrevious
      <4>2. ASSUME NEW i \in 1..n PROVE over(i) \in ShownRow /\ over(i).id = rows[i].id
        <5>1. rows[i] \in ShownRow
          BY <2>2
        <5>2. QED
          BY <5>1 DEF ShownRow, RowStates
      <4> HIDE DEF over
      <4>3. ended = [i \in 1..n |-> over(i)]
        BY <2>1, <3>2, <4>1
      <4>4. ended \in Seq(ShownRow) /\ Len(ended) = n /\ \A i \in 1..n : ended[i] = over(i)
        BY <4>2, <4>3
      <4>5. Ids(ended) = Ids(rows)
        BY <1>1, <4>2, <4>4 DEF Ids
      <4>6. QED
        BY <1>1, <3>2, <4>4, <4>5 DEF Before, over
    <3>3. QED
      BY <3>1, <3>2
  <2>4. ended \in Seq(ShownRow)
    BY <2>3 DEF Before
  <2>5. RowAt(ended, f.id) = 0
    BY <1>6, <2>3, <2>4, RowPlace
  <2>6. PICK row : row = [id |-> f.id, op |-> f.op, state |-> f.state, current |-> TRUE]
    OBVIOUS
  <2>7. row \in ShownRow
    BY <1>2, <2>6 DEF ShownRow
  <2>8. ShowRow(rows, f) = Append(ended, row)
    BY <1>3, <1>6, <2>1, <2>5, <2>6 DEF ShowRow
  <2>9. Append(ended, row) \in Seq(ShownRow) /\ Grown(ended, row, Append(ended, row))
    BY <2>4, <2>7, GrownAppend
  <2>10. QED
    BY <2>3, <2>6, <2>8, <2>9
<1>7. QED
  BY <1>1, <1>3, <1>5, <1>6

LEMMA IdsPut ==
    ASSUME NEW S, NEW rows \in Seq(S), NEW new, NEW c, NEW x, PutAt(rows, c, x, new), x.id = rows[c].id
    PROVE  Ids(new) = Ids(rows) /\ (NoIdTwice(rows) => NoIdTwice(new))
<1>1. PICK n \in Nat : n = Len(rows)
  BY LenProperties
<1>2. Len(new) = n /\ \A i \in 1..n : new[i].id = rows[i].id
  BY <1>1, PutAt(rows, c, x, new), x.id = rows[c].id DEF PutAt
<1>3. QED
  BY <1>1, <1>2 DEF Ids, NoIdTwice

LEMMA IdsGrown ==
    ASSUME NEW S, NEW rows \in Seq(S), NEW new, NEW x, Grown(rows, x, new)
    PROVE  /\ Ids(new) = Ids(rows) \union {x.id}
           /\ NoIdTwice(rows) /\ x.id \notin Ids(rows) => NoIdTwice(new)
<1>1. PICK n \in Nat : n = Len(rows)
  BY LenProperties
<1>2. Len(new) = n + 1 /\ new[n + 1] = x /\ \A i \in 1..n : new[i] = rows[i]
  BY <1>1, Grown(rows, x, new) DEF Grown
<1>3. \A i \in 1..(n + 1) : i \in 1..n \/ i = n + 1
  OBVIOUS
<1>4. Ids(new) = Ids(rows) \union {x.id}
  <2>1. ASSUME NEW id \in Ids(new) PROVE id \in Ids(rows) \union {x.id}
    BY <1>1, <1>2, <1>3, <2>1 DEF Ids
  <2>2. ASSUME NEW id \in Ids(rows) \union {x.id} PROVE id \in Ids(new)
    <3>1. \A i \in 1..n : i \in 1..(n + 1)
      OBVIOUS
    <3>2. n + 1 \in 1..(n + 1)
      OBVIOUS
    <3>3. QED
      BY <1>1, <1>2, <2>2, <3>1, <3>2 DEF Ids
  <2>3. QED
    BY <2>1, <2>2
<1>5. ASSUME NoIdTwice(rows), x.id \notin Ids(rows), NEW i \in 1..(n + 1), NEW j \in 1..(n + 1),
             new[i].id = new[j].id
      PROVE  i = j
  <2>1. \A k \in 1..n : rows[k].id # x.id
    BY <1>1, <1>5 DEF Ids
  <2>2. QED
    BY <1>1, <1>2, <1>3, <1>5, <2>1 DEF NoIdTwice
<1>6. QED
  BY <1>2, <1>4, <1>5 DEF NoIdTwice

\* Recorded rows keep their form; the rows before a new one have ended.
LEMMA RecordedRows ==
    ASSUME NEW rows \in Seq(Row), NEW f \in ActivityFrames, NEW late,
           RowsRecorded(rows), RowFits(rows, f, late)
    PROVE  /\ RowsRecorded(RecordActivity(rows, f))
           /\ Ids(RecordActivity(rows, f)) \subseteq Ids(rows) \union {f.id}
           /\ Ids(rows) \subseteq Ids(RecordActivity(rows, f))
           /\ EndsWith(RecordActivity(rows, f), f.op)
           /\ Running(RecordActivity(rows, f)) => f.state = "running"
           /\ f.id \in Ids(RecordActivity(rows, f)) =>
                 LET new == RecordActivity(rows, f) IN new[Len(new)].id = f.id
           /\ ~EndsWith(rows, f.op) => \A i \in 1..Len(rows) : rows[i].state # "running"
<1>1. PICK n \in Nat : n = Len(rows) /\ (rows # <<>> => n \in 1..n)
  <2>1. Len(rows) \in Nat /\ (Len(rows) = 0 => rows = <<>>)
    BY LenProperties, EmptySeq
  <2>2. QED
    BY <2>1
<1>2. PICK new \in Seq(Row) : new = RecordActivity(rows, f)
  BY RowsRecorded(rows), RowFits(rows, f, late), RecordsRow
<1>3. CASE EndsWith(rows, f.op)
  <2>1. PICK row : row = [rows[n] EXCEPT !.state = f.state]
    OBVIOUS
  <2>2. PutAt(rows, n, row, new)
    BY <1>1, <1>2, <1>3, <2>1, RowsRecorded(rows), RowFits(rows, f, late), RecordsRow
  <2>3. rows[n] \in Row /\ n \in 1..n
    <3>1. n \in 1..n
      BY <1>1, <1>3 DEF EndsWith
    <3>2. QED
      BY <1>1, <3>1, ElementOfSeq
  <2>4. row.id = rows[n].id /\ row.op = f.op /\ row.state = f.state
    <3>1. rows[n].op = f.op
      BY <1>1, <1>3 DEF EndsWith
    <3>2. QED
      BY <2>1, <2>3, <3>1 DEF Row
  <2>5. Ids(new) = Ids(rows) /\ NoIdTwice(new)
    BY <2>2, <2>4, RowsRecorded(rows), IdsPut DEF RowsRecorded
  <2>6. Len(new) = n /\ new[n] = row /\ \A i \in 1..(n - 1) : new[i] = rows[i]
    BY <1>1, <2>2, <2>3 DEF PutAt
  <2>7. RowsRecorded(new)
    BY <1>1, <2>5, <2>6, RowsRecorded(rows) DEF RowsRecorded
  <2>8. new # <<>>
    BY <2>3, <2>6
  <2>9. f.id \in Ids(new) => row.id = f.id
    BY <1>1, <2>4, <2>5, RowFits(rows, f, late) DEF RowFits
  <2>10. QED
    BY <1>2, <1>3, <2>4, <2>5, <2>6, <2>7, <2>8, <2>9 DEF EndsWith, Running
<1>4. CASE ~EndsWith(rows, f.op)
  <2>1. PICK row : row = [id |-> f.id, op |-> f.op, state |-> f.state]
    OBVIOUS
  <2>2. Grown(rows, row, new) /\ f.id \notin Ids(rows)
    BY <1>2, <1>4, <2>1, RowsRecorded(rows), RowFits(rows, f, late), RecordsRow
  <2>3. Ids(new) = Ids(rows) \union {f.id} /\ NoIdTwice(new)
    BY <2>1, <2>2, RowsRecorded(rows), IdsGrown DEF RowsRecorded
  <2>4. Len(new) = n + 1 /\ new[n + 1] = row /\ \A i \in 1..n : new[i] = rows[i]
    BY <1>1, <2>2 DEF Grown
  <2>5. \A i \in 1..n : rows[i].state # "running"
    <3>1. ~Running(rows)
      BY <1>4, RowFits(rows, f, late) DEF RowFits
    <3>2. n # 0 => rows[n].state # "running"
      BY <1>1, <3>1 DEF Running
    <3>3. \A i \in 1..n : i \in 1..(n - 1) \/ (i = n /\ n # 0)
      OBVIOUS
    <3>4. QED
      BY <1>1, <3>2, <3>3, RowsRecorded(rows) DEF RowsRecorded
  <2>6. RowsRecorded(new)
    <3>1. (n + 1) - 1 = n
      OBVIOUS
    <3>2. QED
      BY <2>3, <2>4, <2>5, <3>1 DEF RowsRecorded
  <2>7. new # <<>>
    BY <2>4
  <2>8. QED
    BY <1>1, <1>2, <1>4, <2>1, <2>3, <2>4, <2>5, <2>6, <2>7 DEF EndsWith, Running
<1>5. QED
  BY <1>3, <1>4

\* The timelines stay in step.
LEMMA RowStep ==
    ASSUME NEW R \in Seq(Row), NEW S \in Seq(ShownRow), NEW f \in ActivityFrames, NEW late,
           InStep(R, S, late), RowFits(R, f, late)
    PROVE  /\ RecordActivity(R, f) \in Seq(Row) /\ ShowRow(S, f) \in Seq(ShownRow)
           /\ InStep(RecordActivity(R, f), ShowRow(S, f), late)
<1>1. PICK n \in Nat, m \in Nat : n = Len(R) /\ (R # <<>> => n \in 1..n) /\ m = Len(S)
  <2>1. Len(R) \in Nat /\ (Len(R) = 0 => R = <<>>) /\ Len(S) \in Nat
    BY LenProperties, EmptySeq
  <2>2. QED
    BY <2>1
<1>2. f.id \in 1..MaxCalls /\ f.op \in Operations /\ f.state \in RowStates
  BY DEF ActivityFrames
<1>3. /\ RowsRecorded(R) /\ NoIdTwice(S) /\ Ids(S) \subseteq Ids(R) /\ LatestStaysCurrent(S)
      /\ R # <<>> => \E c \in 1..m : S[c].current /\ S[c].op = R[n].op
      /\ \A op \in Operations : EndOf(R, op) = EndOf(S, op)
      /\ ~late => SameRows(R, S) /\ \A i \in 1..(m - 1) : ~S[i].current
  BY <1>1, InStep(R, S, late) DEF InStep, LatestStaysCurrent
<1>4. PICK R1 \in Seq(Row) : R1 = RecordActivity(R, f)
  BY <1>3, RowFits(R, f, late), RecordsRow
<1>5. PICK c \in 0..m : c = CurrentRow(S, f.op) /\ (c # 0 => c = LatestRow(S, f.op) /\ S[c].op = f.op /\ S[c].current)
                        /\ (c = 0 <=> \A i \in 1..m : ~(S[i].current /\ S[i].op = f.op))
  BY <1>1, <1>3, CurrentIsLatest
<1>6. PICK S1 : S1 = ShowRow(S, f)
  OBVIOUS
<1>7. RowsRecorded(R1)
  BY <1>3, <1>4, RowFits(R, f, late), RecordedRows
<1>8. EndsWith(R, f.op) => c # 0
  BY <1>1, <1>3, <1>5 DEF EndsWith
<1>9. \A op \in Operations : EndOf(R1, op) = IF op = f.op THEN f.state ELSE EndOf(R, op)
  <2>1. TAKE op \in Operations
  <2>2. CASE EndsWith(R, f.op)
    <3>1. PICK row : row = [R[n] EXCEPT !.state = f.state]
      OBVIOUS
    <3>2. PutAt(R, n, row, R1)
      BY <1>1, <1>3, <1>4, <2>2, <3>1, RowFits(R, f, late), RecordsRow
    <3>3. R[n] \in Row /\ n \in 1..n /\ R[n].op = f.op
      <4>1. n \in 1..n /\ R[n].op = f.op
        BY <1>1, <2>2 DEF EndsWith
      <4>2. QED
        BY <1>1, <4>1, ElementOfSeq
    <3>4. row.op = R[n].op /\ row.state = f.state
      BY <3>1, <3>3 DEF Row
    <3>5. EndOf(R1, op) = IF LatestRow(R, op) = n THEN row.state ELSE EndOf(R, op)
      BY <3>2, <3>4, EndPut
    <3>6. LatestRow(R, op) = n <=> op = f.op
      BY <1>1, <3>3, LatestPlace
    <3>7. QED
      BY <3>4, <3>5, <3>6
  <2>3. CASE ~EndsWith(R, f.op)
    <3>1. PICK row : row = [id |-> f.id, op |-> f.op, state |-> f.state]
      OBVIOUS
    <3>2. Grown(R, row, R1) /\ row.op = f.op /\ row.state = f.state
      BY <1>3, <1>4, <2>3, <3>1, RowFits(R, f, late), RecordsRow
    <3>3. QED
      BY <3>2, EndGrown
  <2>4. QED
    BY <2>2, <2>3
<1>10. R1 # <<>> /\ R1[Len(R1)].op = f.op /\ Ids(R) \subseteq Ids(R1) /\ f.id \in Ids(R) \union {f.id}
  BY <1>3, <1>4, RowFits(R, f, late), RecordedRows DEF EndsWith
\* The screen goes on with a row of the operation.
<1>11. CASE c # 0
  <2>1. PICK row : row = [id |-> S[c].id, op |-> f.op, state |-> f.state, current |-> TRUE]
    OBVIOUS
  <2>2. S1 \in Seq(ShownRow) /\ c \in 1..m /\ PutAt(S, c, row, S1)
    BY <1>1, <1>3, <1>5, <1>6, <1>11, <2>1, ShowsRow
  <2>3. row.id = S[c].id /\ row.op = S[c].op /\ row.op = f.op /\ row.state = f.state /\ row.current
    BY <1>5, <1>11, <2>1
  <2>4. Ids(S1) = Ids(S) /\ NoIdTwice(S1)
    BY <1>3, <2>2, <2>3, IdsPut
  <2>5. Len(S1) = m /\ \A i \in 1..m : S1[i] = IF i = c THEN row ELSE S[i]
    BY <1>1, <2>2 DEF PutAt
  <2>6. \A op : /\ LatestRow(S1, op) = LatestRow(S, op)
                /\ EndOf(S1, op) = IF LatestRow(S, op) = c THEN row.state ELSE EndOf(S, op)
    <3>1. ASSUME NEW op
          PROVE  /\ LatestRow(S1, op) = LatestRow(S, op)
                 /\ EndOf(S1, op) = IF LatestRow(S, op) = c THEN row.state ELSE EndOf(S, op)
      <4>1. PutAt(S, c, row, S1) /\ S1 \in Seq(ShownRow)
        BY <2>2
      <4>2. row.op = S[c].op
        BY <2>3
      <4>3. QED
        BY <4>1, <4>2, EndPut
    <3>2. QED
      BY <3>1
  <2>7. \A op : LatestRow(S, op) = c <=> op = f.op
    <3>1. \A op : LatestRow(S, op) # 0 => S[LatestRow(S, op)].op = op
      BY LatestPlace
    <3>2. QED
      BY <1>5, <1>11, <3>1
  <2>8. \A op \in Operations : EndOf(R1, op) = EndOf(S1, op)
    BY <1>3, <1>9, <2>3, <2>6, <2>7
  <2>9. \A i \in 1..m : S1[i].op = S[i].op /\ (S1[i].current <=> S[i].current)
    BY <1>5, <1>11, <2>3, <2>5
  <2>10. LatestStaysCurrent(S1)
    <3>1. ASSUME NEW i \in 1..m, S1[i].current PROVE S1[LatestRow(S1, S1[i].op)].current
      <4>1. S[i].current /\ S[LatestRow(S, S[i].op)].current
        BY <1>1, <1>3, <2>9, <3>1 DEF LatestStaysCurrent
      <4>2. LatestRow(S, S[i].op) \in 1..m
        <5>1. LatestRow(S, S[i].op) \in 0..m /\ (LatestRow(S, S[i].op) = 0 => \A j \in 1..m : S[j].op # S[i].op)
          BY <1>1, LatestPlace
        <5>2. QED
          BY <5>1
      <4>3. LatestRow(S1, S1[i].op) = LatestRow(S, S[i].op)
        BY <2>6, <2>9
      <4>4. QED
        BY <2>9, <4>1, <4>2, <4>3
    <3>2. QED
      BY <2>5, <3>1 DEF LatestStaysCurrent
  <2>11. ASSUME ~late PROVE SameRows(R1, S1) /\ \A i \in 1..(m - 1) : ~S1[i].current
    <3>1. SameRows(R, S) /\ \A i \in 1..(m - 1) : ~S[i].current
      BY <1>3, <2>11
    <3>2. n = m /\ \A i \in 1..n : R[i].id = S[i].id /\ R[i].op = S[i].op /\ R[i].state = S[i].state
      BY <1>1, <3>1 DEF SameRows
    <3>3. c = n
      BY <1>5, <1>11, <2>2, <3>1, <3>2
    <3>4. EndsWith(R, f.op)
      BY <1>1, <1>5, <1>11, <2>2, <3>2, <3>3 DEF EndsWith
    <3>5. PICK new : new = [R[n] EXCEPT !.state = f.state]
      OBVIOUS
    <3>6. PutAt(R, n, new, R1)
      BY <1>1, <1>3, <1>4, <3>4, <3>5, RowFits(R, f, late), RecordsRow
    <3>7. R[n] \in Row
      BY <1>1, <2>2, <3>2, <3>3, ElementOfSeq
    <3>8. new.id = R[n].id /\ new.op = R[n].op /\ new.state = f.state
      BY <3>5, <3>7 DEF Row
    <3>9. Len(R1) = n /\ \A i \in 1..n : R1[i] = IF i = n THEN new ELSE R[i]
      BY <1>1, <3>6 DEF PutAt
    <3>10. SameRows(R1, S1)
      <4>1. new.id = row.id /\ new.op = row.op /\ new.state = row.state
        BY <2>2, <2>3, <3>2, <3>3, <3>8
      <4>2. \A i \in 1..n : R1[i].id = S1[i].id /\ R1[i].op = S1[i].op /\ R1[i].state = S1[i].state
        BY <2>5, <3>2, <3>3, <3>9, <4>1
      <4>3. QED
        BY <2>5, <3>2, <3>9, <4>2 DEF SameRows
    <3>11. QED
      BY <2>9, <3>1, <3>10
  <2>12. S1[c].current /\ S1[c].op = f.op
    BY <2>2, <2>3, <2>5
  <2>13. InStep(R1, S1, late)
    <3>1. Ids(S1) \subseteq Ids(R1)
      BY <1>3, <1>10, <2>4
    <3>2. \E k \in 1..Len(S1) : S1[k].current /\ S1[k].op = R1[Len(R1)].op
      BY <1>10, <2>2, <2>5, <2>12
    <3>3. QED
      BY <1>7, <2>4, <2>5, <2>8, <2>10, <2>11, <3>1, <3>2 DEF InStep, LatestStaysCurrent
  <2>14. QED
    BY <1>4, <1>6, <2>2, <2>13
\* A row that is new on both sides.
<1>12. CASE c = 0
  <2>1. ~EndsWith(R, f.op) /\ f.id \notin Ids(R) /\ f.id \notin Ids(S)
    BY <1>3, <1>8, <1>12, RowFits(R, f, late), RecordsRow
  <2>2. \A i \in 1..n : R[i].state # "running"
    BY <1>1, <1>3, <2>1, RowFits(R, f, late), RecordedRows
  <2>3. PICK row : row = [id |-> f.id, op |-> f.op, state |-> f.state, current |-> TRUE]
    OBVIOUS
  <2>4. PICK ended : Before(S, f.state, ended) /\ Grown(ended, row, S1) /\ S1 \in Seq(ShownRow)
    BY <1>3, <1>5, <1>6, <1>12, <2>1, <2>3, ShowsRow
  <2>5. row.id = f.id /\ row.op = f.op /\ row.state = f.state /\ row.current
    BY <2>3
  <2>6. /\ ended \in Seq(ShownRow) /\ Len(ended) = m
        /\ \A i \in 1..m : /\ ended[i].id = S[i].id /\ ended[i].op = S[i].op
                           /\ S[i].state # "running" => ended[i].state = S[i].state
                           /\ f.state = "running" => ~ended[i].current
                           /\ f.state # "running" => ended[i] = S[i]
    <3>1. \A i \in 1..m : S[i] \in ShownRow
      BY <1>1, ElementOfSeq
    <3>2. ended \in Seq(ShownRow) /\ Len(ended) = m
      BY <1>1, <2>4 DEF Before
    <3>3. CASE f.state # "running"
      BY <1>1, <2>4, <3>2, <3>3 DEF Before
    <3>4. CASE f.state = "running"
      <4>1. ASSUME NEW i \in 1..m
            PROVE  /\ ended[i].id = S[i].id /\ ended[i].op = S[i].op /\ ~ended[i].current
                   /\ S[i].state # "running" => ended[i].state = S[i].state
        <5>1. ended[i] = [S[i] EXCEPT !.current = FALSE,
                             !.state = IF S[i].state = "running" THEN "completed" ELSE S[i].state]
          BY <1>1, <2>4, <3>4 DEF Before
        <5>2. S[i] \in ShownRow
          BY <3>1
        <5>3. QED
          BY <5>1, <5>2 DEF ShownRow
      <4>2. QED
        BY <3>2, <3>4, <4>1
    <3>5. QED
      BY <3>3, <3>4
  <2>7. Ids(ended) = Ids(S) /\ NoIdTwice(ended)
    <3>1. Len(ended) = m /\ \A i \in 1..m : ended[i].id = S[i].id
      BY <2>6
    <3>2. Ids(ended) = Ids(S)
      BY <1>1, <3>1 DEF Ids
    <3>3. NoIdTwice(ended)
      BY <1>1, <1>3, <3>1 DEF NoIdTwice
    <3>4. QED
      BY <3>2, <3>3
  <2>8. Ids(S1) = Ids(S) \union {f.id} /\ NoIdTwice(S1)
    BY <2>1, <2>4, <2>5, <2>6, <2>7, IdsGrown
  <2>9. Len(S1) = m + 1 /\ S1[m + 1] = row /\ \A i \in 1..m : S1[i] = ended[i]
    BY <2>4, <2>6 DEF Grown
  <2>10. PICK new : new = [id |-> f.id, op |-> f.op, state |-> f.state]
    OBVIOUS
  <2>11. Grown(R, new, R1)
    BY <1>3, <1>4, <2>1, <2>10, RowFits(R, f, late), RecordsRow
  <2>12. Len(R1) = n + 1 /\ R1[n + 1] = new /\ \A i \in 1..n : R1[i] = R[i]
    BY <1>1, <2>11 DEF Grown
  <2>13. f.id \in Ids(R1)
    BY <2>10, <2>11, IdsGrown
  <2>14. \A op : LatestRow(ended, op) = LatestRow(S, op)
    <3>1. DOMAIN ended = 1..m /\ DOMAIN S = 1..m
      BY <1>1, <2>6, LenProperties
    <3>2. \A op : {i \in DOMAIN ended : ended[i].op = op} = {i \in DOMAIN S : S[i].op = op}
      BY <2>6, <3>1
    <3>3. QED
      BY <3>2 DEF LatestRow
  <2>15. ASSUME NEW op \in Operations PROVE EndOf(ended, op) = EndOf(S, op)
    <3>1. PICK k : k = LatestRow(S, op)
      OBVIOUS
    <3>2. k \in 0..m
      BY <1>1, <3>1, LatestPlace
    <3>3. EndOf(R, op) # "running"
      <4>1. LatestRow(R, op) \in 0..n
        BY <1>1, LatestPlace
      <4>2. QED
        BY <2>2, <4>1 DEF EndOf
    <3>4. k # 0 => S[k].state # "running"
      BY <1>3, <3>1, <3>3 DEF EndOf
    <3>5. k # 0 => ended[k].state = S[k].state
      BY <2>6, <3>2, <3>4
    <3>6. QED
      BY <2>14, <3>1, <3>5 DEF EndOf
  <2>16. \A op : /\ LatestRow(S1, op) = IF f.op = op THEN m + 1 ELSE LatestRow(S, op)
                 /\ EndOf(S1, op) = IF f.op = op THEN f.state ELSE EndOf(ended, op)
    BY <2>4, <2>5, <2>6, <2>14, EndGrown
  <2>17. \A op \in Operations : EndOf(R1, op) = EndOf(S1, op)
    BY <1>3, <1>9, <2>15, <2>16
  <2>18. \A i \in 1..(m + 1) : i \in 1..m \/ i = m + 1
    OBVIOUS
  <2>19. LatestStaysCurrent(S1)
    <3>1. ASSUME NEW i \in 1..(m + 1), S1[i].current PROVE S1[LatestRow(S1, S1[i].op)].current
      <4>1. CASE i = m + 1
        BY <2>5, <2>9, <2>16, <4>1
      <4>2. CASE i \in 1..m
        <5>1. ended[i].current /\ f.state # "running" /\ S[i].current /\ S1[i].op = S[i].op /\ S1[i] = S[i]
          BY <2>6, <2>9, <3>1, <4>2
        <5>2. S[i].op # f.op
          BY <1>5, <1>12, <4>2, <5>1
        <5>3. LatestRow(S1, S1[i].op) = LatestRow(S, S[i].op)
          BY <2>16, <5>1, <5>2
        <5>4. LatestRow(S, S[i].op) \in 1..m
          <6>1. LatestRow(S, S[i].op) \in 0..m /\ (LatestRow(S, S[i].op) = 0 => \A j \in 1..m : S[j].op # S[i].op)
            BY <1>1, LatestPlace
          <6>2. QED
            BY <4>2, <6>1
        <5>5. S[LatestRow(S, S[i].op)].current
          BY <1>1, <1>3, <4>2, <5>1 DEF LatestStaysCurrent
        <5>6. QED
          BY <2>6, <2>9, <5>1, <5>3, <5>4, <5>5
      <4>3. QED
        BY <2>18, <3>1, <4>1, <4>2
    <3>2. QED
      BY <2>9, <3>1 DEF LatestStaysCurrent
  <2>20. ASSUME ~late PROVE SameRows(R1, S1) /\ \A i \in 1..m : ~S1[i].current
    <3>1. f.state = "running"
      BY <2>1, <2>20, RowFits(R, f, late) DEF RowFits
    <3>2. n = m /\ \A i \in 1..n : R[i].id = S[i].id /\ R[i].op = S[i].op /\ R[i].state = S[i].state
      BY <1>1, <1>3, <2>20 DEF SameRows
    <3>3. \A i \in 1..n : S1[i].id = R1[i].id /\ S1[i].op = R1[i].op /\ S1[i].state = R1[i].state
      <4>1. ASSUME NEW i \in 1..n
            PROVE  S1[i].id = R1[i].id /\ S1[i].op = R1[i].op /\ S1[i].state = R1[i].state
        <5>1. S1[i] = ended[i] /\ R1[i] = R[i] /\ i \in 1..m
          BY <2>9, <2>12, <3>2
        <5>2. S[i].state = R[i].state /\ S[i].state # "running" /\ S[i].id = R[i].id /\ S[i].op = R[i].op
          BY <2>2, <3>2
        <5>3. ended[i].id = S[i].id /\ ended[i].op = S[i].op /\ ended[i].state = S[i].state
          BY <2>6, <5>1, <5>2
        <5>4. QED
          BY <5>1, <5>2, <5>3
      <4>2. QED
        BY <4>1
    <3>4. SameRows(R1, S1)
      BY <2>5, <2>9, <2>10, <2>12, <2>18, <3>2, <3>3 DEF SameRows
    <3>5. QED
      BY <2>6, <2>9, <3>1, <3>4
  <2>21. InStep(R1, S1, late)
    <3>1. Ids(S1) \subseteq Ids(R1)
      BY <1>3, <1>10, <2>8, <2>13
    <3>2. \E k \in 1..Len(S1) : S1[k].current /\ S1[k].op = R1[Len(R1)].op
      <4>1. m + 1 \in 1..(m + 1)
        OBVIOUS
      <4>2. QED
        BY <1>10, <2>5, <2>9, <4>1
    <3>3. (m + 1) - 1 = m
      OBVIOUS
    <3>4. QED
      BY <1>7, <2>8, <2>9, <2>17, <2>19, <2>20, <3>1, <3>2, <3>3 DEF InStep, LatestStaysCurrent
  <2>22. QED
    BY <1>4, <1>6, <2>4, <2>21
<1>13. QED
  BY <1>11, <1>12

-----------------------------------------------------------------------------
(***************************************************************************)
(* A frame, recorded and shown                                             *)
(***************************************************************************)
LEMMA NoneOfType ==
    ASSUME NEW parts \in Seq(AnyPart), NEW type, PartAt(parts, type) = 0
    PROVE  OfType(parts, type) = <<>>
<1>1. PICK n \in Nat : n = Len(parts)
  BY LenProperties
<1>2. Lists(Only(type), AnyPart, AnyPart)
  BY FlatTypes
<1>3. PICK lists \in Seq(Seq(AnyPart)) : lists = [i \in 1..Len(parts) |-> Only(type)[parts[i]]]
  <2>1. [i \in 1..Len(parts) |-> Only(type)[parts[i]]] \in Seq(Seq(AnyPart))
    BY <1>2, FlatMapped
  <2>2. QED
    BY <2>1
<1>4. Len(lists) = n /\ \A i \in 1..n : lists[i] = Only(type)[parts[i]]
  BY <1>1, <1>3
<1>5. ASSUME NEW i \in 1..n PROVE lists[i] = <<>>
  <2>1. parts[i] \in AnyPart /\ parts[i].type # type
    BY <1>1, PartAt(parts, type) = 0, PartPlace, ElementOfSeq
  <2>2. QED
    BY <1>4, <2>1 DEF Only
<1>6. Joined(lists) = <<>>
  BY <1>4, <1>5, JoinedEmpty
<1>7. QED
  BY <1>3, <1>6, FlatViews DEF FlatOf

\* A picture takes the place of the one that was announced.
LEMMA ShowsImage ==
    ASSUME NEW rowSet, rowSet \subseteq Row \union ShownRow,
           NEW parts \in Seq(AnswerParts(rowSet)), NEW f \in ImageParts,
           \A p \in ImagesOf(parts) : p.id # f.id
    PROVE  /\ ShowImage(parts, f) \in Seq(AnswerParts(rowSet))
           /\ OnlyNew(parts, ShowImage(parts, f), "image")
           /\ ImagesOf(ShowImage(parts, f)) = ImagesOf(parts) \union {q \in {f} : q.status = "complete"}
<1>1. parts \in Seq(AnyPart) /\ AnswerParts(rowSet) \subseteq AnyPart
  BY rowSet \subseteq Row \union ShownRow, PartsWiden
<1>2. f \in AnswerParts(rowSet) /\ f \in AnyPart /\ f.type = "image"
  BY <1>1 DEF AnswerParts, ImageParts
<1>3. PICK n \in Nat : n = Len(parts) /\ DOMAIN parts = 1..n
  BY LenProperties
<1> DEFINE places == {i \in DOMAIN parts : parts[i].type = "image" /\ parts[i].id = f.id}
<1>4. places \subseteq 1..n /\ \A i \in places : parts[i].type = "image" /\ parts[i].id = f.id
  BY <1>3
<1>5. PICK at : at = LastOf(places)
  OBVIOUS
<1>6. ShowImage(parts, f) = IF at = 0 THEN Append(parts, f) ELSE [parts EXCEPT ![at] = f]
  BY <1>5 DEF ShowImage
<1> HIDE DEF places
<1>7. at = 0 \/ at \in places
  BY <1>3, <1>4, <1>5, LastPlace
<1>8. CASE at = 0
  <2>1. ShowImage(parts, f) = Append(parts, f)
    BY <1>6, <1>8
  <2>2. Append(parts, f) \in Seq(AnswerParts(rowSet))
    BY <1>2, AppendProperties
  <2>3. QED
    BY <1>1, <1>2, <2>1, <2>2, PlusPart
<1>9. CASE at # 0
  <2>1. at \in 1..n /\ parts[at].type = "image" /\ parts[at].id = f.id
    BY <1>4, <1>7, <1>9
  <2>2. PICK new : new = [parts EXCEPT ![at] = f]
    OBVIOUS
  <2>3. new \in Seq(AnswerParts(rowSet)) /\ Len(new) = n /\ \A j \in 1..n : new[j] = IF j = at THEN f ELSE parts[j]
    BY <1>2, <1>3, <2>1, <2>2, ExceptSeq
  <2>4. OnlyNew(parts, new, "image") /\ new \in Seq(AnyPart)
    BY <1>1, <1>2, <1>3, <2>1, <2>2, OtherPart
  <2>5. parts[at].status # "complete"
    <3>1. ASSUME parts[at].status = "complete" PROVE FALSE
      <4>1. ImageIn(parts, parts[at])
        BY <1>3, <2>1, <3>1 DEF ImageIn
      <4>2. parts[at] \in ImagesOf(parts)
        BY <1>1, <4>1, ImagesAre
      <4>3. QED
        BY <2>1, <4>2, \A p \in ImagesOf(parts) : p.id # f.id
    <3>2. QED
      BY <3>1
  <2>6. ASSUME NEW q PROVE ImageIn(new, q) <=> ImageIn(parts, q) \/ (q = f /\ q.status = "complete")
    BY <1>2, <1>3, <2>1, <2>3, <2>5 DEF ImageIn
  <2>7. \A q : q \in ImagesOf(new) <=> q \in ImagesOf(parts) \/ (q = f /\ q.status = "complete")
    BY <1>1, <2>4, <2>6, ImagesAre, Zenon
  <2>8. ImagesOf(new) = ImagesOf(parts) \union {q \in {f} : q.status = "complete"}
    BY <2>7
  <2>9. ShowImage(parts, f) = new
    BY <1>6, <1>9, <2>2
  <2>10. QED
    BY <2>3, <2>4, <2>8, <2>9
<1>10. QED
  BY <1>8, <1>9

LEMMA RowsType ==
    ASSUME NEW rowSet, rowSet \subseteq Row \union ShownRow, NEW parts \in Seq(AnswerParts(rowSet))
    PROVE  RowsIn(parts) \in Seq(rowSet)
<1>1. parts \in Seq(AnyPart)
  BY rowSet \subseteq Row \union ShownRow, PartsWiden
<1>2. PICK at : at = PartAt(parts, "reasoning")
  OBVIOUS
<1>3. at = 0 \/ (at \in 1..Len(parts) /\ parts[at].type = "reasoning")
  <2>1. at \in 0..Len(parts) /\ Len(parts) \in Nat /\ (at # 0 => parts[at].type = "reasoning")
    BY <1>1, <1>2, PartPlace, LenProperties
  <2>2. QED
    BY <2>1
<1>4. ASSUME NEW i \in 1..Len(parts), parts[i].type = "reasoning" PROVE parts[i].rows \in Seq(rowSet)
  <2>1. parts[i] \in AnswerParts(rowSet)
    BY ElementOfSeq
  <2>2. parts[i] \in Timelines(rowSet)
    BY <1>4, <2>1 DEF AnswerParts, TextParts, ImageParts, ProductParts, AccessParts
  <2>3. QED
    BY <2>2 DEF Timelines
<1>5. QED
  BY <1>2, <1>3, <1>4, EmptySeq DEF RowsIn

LEMMA FramesAre ==
    ASSUME NEW f \in ContentFrames
    PROVE  /\ f.type \in {"activity", "chunk", "image", "products", "guest_order_access"}
           /\ f.type = "activity" => f \in ActivityFrames
           /\ f.type = "chunk" => f \in ProseFrames
           /\ f.type = "image" => f \in ImageParts
           /\ f.type = "products" => f \in ProductParts
           /\ f.type = "guest_order_access" => f \in AccessParts
BY DEF ContentFrames, ActivityFrames, ProseFrames, ImageParts, ProductParts, AccessParts

LEMMA ScreensAre ==
    ASSUME NEW s \in ScreenSet
    PROVE  /\ s.rows \in Seq(ShownRow) /\ s.parts \in Seq(AnswerParts(ShownRow)) /\ s.parts \in Seq(AnyPart)
           /\ s.grids \in Seq(ProductParts) /\ s.access \in Seq(AccessParts)
           /\ s.saw \in {"on", "stopped", "done", "failed", "cancelled"}
<1>1. Seq(AnswerParts(ShownRow)) \subseteq Seq(AnyPart)
  BY PartsWiden
<1>2. QED
  BY <1>1 DEF ScreenSet

LEMMA FrameStep ==
    ASSUME NEW R \in Seq(AnswerParts(Row)), NEW s \in ScreenSet, NEW f \in ContentFrames, NEW late,
           Sync(R, s, late), Fits(R, f, late)
    PROVE  /\ Record(R, f) \in Seq(AnswerParts(Row)) /\ Show(s, f) \in ScreenSet
           /\ Sync(Record(R, f), Show(s, f), late) /\ Show(s, f).saw = s.saw
<1>1. R \in Seq(AnyPart) /\ AnswerParts(Row) \subseteq AnyPart /\ AnswerParts(ShownRow) \subseteq AnyPart
  BY PartsWiden
<1>2. /\ s.rows \in Seq(ShownRow) /\ s.parts \in Seq(AnswerParts(ShownRow)) /\ s.parts \in Seq(AnyPart)
      /\ s.grids \in Seq(ProductParts) /\ s.access \in Seq(AccessParts)
  BY ScreensAre
<1>3. /\ ProseOf(R) = ProseOf(s.parts) /\ ImagesOf(R) = ImagesOf(s.parts)
      /\ PartAt(s.parts, "products") = 0 /\ PartAt(s.parts, "guest_order_access") = 0
      /\ Len(s.grids) <= 1
      /\ OfType(R, "products") = s.grids /\ OfType(R, "guest_order_access") = s.access
      /\ s.rows = RowsIn(s.parts) /\ InStep(RowsIn(R), s.rows, late)
  BY Sync(R, s, late) DEF Sync
<1>4. CASE f.type = "chunk"
  <2>1. f.piece \in 1..MaxPieces
    BY <1>4, FramesAre DEF ProseFrames
  <2>2. PICK R1 : R1 = AddText(R, f.piece)
    OBVIOUS
  <2>3. R1 \in Seq(AnswerParts(Row)) /\ OnlyNew(R, R1, "text") /\ ProseOf(R1) = Append(ProseOf(R), f.piece)
    BY <2>1, <2>2, AddsText
  <2>4. PICK P1 : P1 = AddText(s.parts, f.piece)
    OBVIOUS
  <2>5. /\ P1 \in Seq(AnswerParts(ShownRow)) /\ OnlyNew(s.parts, P1, "text")
        /\ ProseOf(P1) = Append(ProseOf(s.parts), f.piece)
    BY <1>2, <2>1, <2>4, AddsText
  <2>6. PICK s1 : s1 = [s EXCEPT !.parts = P1]
    OBVIOUS
  <2>7. Record(R, f) = R1 /\ Show(s, f) = s1
    BY <1>4, <2>2, <2>4, <2>6 DEF Record, Show
  <2>8. /\ s1 \in ScreenSet /\ s1.parts = P1 /\ s1.rows = s.rows /\ s1.grids = s.grids
        /\ s1.access = s.access /\ s1.saw = s.saw
    BY <2>5, <2>6 DEF ScreenSet
  <2>9. /\ ImagesOf(R1) = ImagesOf(R) /\ RowsIn(R1) = RowsIn(R)
        /\ OfType(R1, "products") = OfType(R, "products")
        /\ OfType(R1, "guest_order_access") = OfType(R, "guest_order_access")
    BY <2>3 DEF OnlyNew, PartTypes
  <2>10. /\ ImagesOf(P1) = ImagesOf(s.parts) /\ RowsIn(P1) = RowsIn(s.parts)
         /\ PartAt(P1, "products") = 0 /\ PartAt(P1, "guest_order_access") = 0
    BY <1>3, <2>5 DEF OnlyNew, PartTypes
  <2>11. ProseOf(R1) = ProseOf(P1)
    BY <1>3, <2>3, <2>5, Zenon
  <2>12. Sync(R1, s1, late)
    BY <1>3, <2>8, <2>9, <2>10, <2>11, Zenon DEF Sync
  <2>13. QED
    BY <2>3, <2>7, <2>8, <2>12
<1>5. CASE f.type = "activity"
  <2>1. f \in ActivityFrames /\ RowFits(RowsIn(R), f, late)
    BY <1>5, FramesAre, Fits(R, f, late) DEF Fits
  <2>2. RowsIn(R) \in Seq(Row)
    BY RowsType
  <2>3. PICK rows, shown : rows = RecordActivity(RowsIn(R), f) /\ shown = ShowRow(s.rows, f)
    OBVIOUS
  <2>4. rows \in Seq(Row) /\ shown \in Seq(ShownRow) /\ InStep(rows, shown, late)
    BY <1>2, <1>3, <2>1, <2>2, <2>3, RowStep
  <2>5. PICK R1 : R1 = WithRows(R, rows)
    OBVIOUS
  <2>6. R1 \in Seq(AnswerParts(Row)) /\ OnlyNew(R, R1, "reasoning") /\ RowsIn(R1) = rows
    BY <2>4, <2>5, AddsRows
  <2>7. PICK P1 : P1 = WithRows(s.parts, shown)
    OBVIOUS
  <2>8. P1 \in Seq(AnswerParts(ShownRow)) /\ OnlyNew(s.parts, P1, "reasoning") /\ RowsIn(P1) = shown
    BY <1>2, <2>4, <2>7, AddsRows
  <2>9. PICK s1 : s1 = [s EXCEPT !.rows = shown, !.parts = P1]
    OBVIOUS
  <2>10. Record(R, f) = R1 /\ Show(s, f) = s1
    <3>1. RecordActivity(IF PartAt(R, "reasoning") = 0 THEN <<>> ELSE R[PartAt(R, "reasoning")].rows, f) = rows
      BY <2>3 DEF RowsIn
    <3>2. Record(R, f) = R1
      BY <1>5, <2>5, <3>1 DEF Record
    <3>3. Show(s, f) = s1
      BY <1>5, <2>3, <2>7, <2>9 DEF Show, ShowActivity
    <3>4. QED
      BY <3>2, <3>3
  <2>11. /\ s1 \in ScreenSet /\ s1.parts = P1 /\ s1.rows = shown /\ s1.grids = s.grids
         /\ s1.access = s.access /\ s1.saw = s.saw
    BY <2>4, <2>8, <2>9 DEF ScreenSet
  <2>12. /\ ImagesOf(R1) = ImagesOf(R) /\ ProseOf(R1) = ProseOf(R)
         /\ OfType(R1, "products") = OfType(R, "products")
         /\ OfType(R1, "guest_order_access") = OfType(R, "guest_order_access")
    BY <2>6 DEF OnlyNew, PartTypes
  <2>13. /\ ImagesOf(P1) = ImagesOf(s.parts) /\ ProseOf(P1) = ProseOf(s.parts)
         /\ PartAt(P1, "products") = 0 /\ PartAt(P1, "guest_order_access") = 0
    BY <1>3, <2>8 DEF OnlyNew, PartTypes
  <2>14. Sync(R1, s1, late)
    BY <1>3, <2>4, <2>6, <2>8, <2>11, <2>12, <2>13, Zenon DEF Sync
  <2>15. QED
    BY <2>6, <2>10, <2>11, <2>14
<1>6. CASE f.type = "image"
  <2>1. f \in ImageParts /\ \A p \in ImagesOf(R) : p.id # f.id
    BY <1>6, FramesAre, Fits(R, f, late) DEF Fits
  <2>2. f \in AnswerParts(Row) /\ f \in AnyPart
    BY <1>1, <2>1 DEF AnswerParts
  <2>3. PICK P1 : P1 = ShowImage(s.parts, f)
    OBVIOUS
  <2>4. /\ P1 \in Seq(AnswerParts(ShownRow)) /\ OnlyNew(s.parts, P1, "image")
        /\ ImagesOf(P1) = ImagesOf(s.parts) \union {q \in {f} : q.status = "complete"}
    BY <1>2, <1>3, <2>1, <2>3, ShowsImage
  <2>5. PICK R1 : R1 = IF f.status = "complete" THEN Append(R, f) ELSE R
    OBVIOUS
  <2>6. /\ R1 \in Seq(AnswerParts(Row)) /\ ImagesOf(R1) = ImagesOf(R) \union {q \in {f} : q.status = "complete"}
        /\ ProseOf(R1) = ProseOf(R) /\ RowsIn(R1) = RowsIn(R)
        /\ OfType(R1, "products") = OfType(R, "products")
        /\ OfType(R1, "guest_order_access") = OfType(R, "guest_order_access")
    <3>1. CASE f.status = "complete"
      <4>1. R1 = Append(R, f)
        BY <2>5, <3>1
      <4>2. OnlyNew(R, R1, "image") /\ ImagesOf(R1) = ImagesOf(R) \union {q \in {f} : q.status = "complete"}
        BY <1>1, <1>6, <2>2, <4>1, PlusPart
      <4>3. R1 \in Seq(AnswerParts(Row))
        BY <2>2, <4>1, AppendProperties
      <4>4. QED
        BY <4>2, <4>3 DEF OnlyNew, PartTypes
    <3>2. CASE f.status # "complete"
      BY <2>5, <3>2
    <3>3. QED
      BY <3>1, <3>2
  <2>7. PICK s1 : s1 = [s EXCEPT !.parts = P1]
    OBVIOUS
  <2>8. Record(R, f) = R1 /\ Show(s, f) = s1
    BY <1>6, <2>3, <2>5, <2>7 DEF Record, Show
  <2>9. /\ s1 \in ScreenSet /\ s1.parts = P1 /\ s1.rows = s.rows /\ s1.grids = s.grids
        /\ s1.access = s.access /\ s1.saw = s.saw
    BY <2>4, <2>7 DEF ScreenSet
  <2>10. /\ ProseOf(P1) = ProseOf(s.parts) /\ RowsIn(P1) = RowsIn(s.parts)
         /\ PartAt(P1, "products") = 0 /\ PartAt(P1, "guest_order_access") = 0
    BY <1>3, <2>4 DEF OnlyNew, PartTypes
  <2>11. ImagesOf(R1) = ImagesOf(P1)
    BY <1>3, <2>4, <2>6, Zenon
  <2>12. Sync(R1, s1, late)
    BY <1>3, <2>6, <2>9, <2>10, <2>11, Zenon DEF Sync
  <2>13. QED
    BY <2>6, <2>8, <2>9, <2>12
<1>7. CASE f.type = "products"
  <2>1. f \in ProductParts /\ PartAt(R, "products") = 0
    BY <1>7, FramesAre, Fits(R, f, late) DEF Fits
  <2>2. f \in AnswerParts(Row) /\ f \in AnyPart
    BY <1>1, <2>1 DEF AnswerParts
  <2>3. PICK R1 : R1 = Append(R, f)
    OBVIOUS
  <2>4. OnlyNew(R, R1, "products") /\ OfType(R1, "products") = Append(OfType(R, "products"), f)
    BY <1>1, <1>7, <2>2, <2>3, PlusPart
  <2>5. R1 \in Seq(AnswerParts(Row))
    BY <2>2, <2>3, AppendProperties
  <2>6. OfType(R1, "products") = <<f>>
    <3>1. OfType(R, "products") = <<>>
      BY <1>1, <2>1, NoneOfType
    <3>2. Append(<<>>, f) = <<f>>
      OBVIOUS
    <3>3. QED
      BY <2>4, <3>1, <3>2, Zenon
  <2>7. PICK s1 : s1 = [s EXCEPT !.grids = <<f>>]
    OBVIOUS
  <2>8. Record(R, f) = R1 /\ Show(s, f) = s1
    BY <1>7, <2>1, <2>3, <2>7 DEF Record, RecordProducts, Show
  <2>9. /\ s1 \in ScreenSet /\ s1.parts = s.parts /\ s1.rows = s.rows /\ s1.grids = <<f>>
        /\ s1.access = s.access /\ s1.saw = s.saw
    <3>1. <<f>> \in Seq(ProductParts)
      BY <2>1
    <3>2. QED
      BY <2>7, <3>1 DEF ScreenSet
  <2>10. /\ ImagesOf(R1) = ImagesOf(R) /\ ProseOf(R1) = ProseOf(R) /\ RowsIn(R1) = RowsIn(R)
         /\ OfType(R1, "guest_order_access") = OfType(R, "guest_order_access")
    BY <2>4 DEF OnlyNew, PartTypes
  <2>11. Sync(R1, s1, late)
    <3>1. Len(<<f>>) <= 1
      OBVIOUS
    <3>2. QED
      BY <1>3, <2>6, <2>9, <2>10, <3>1, Zenon DEF Sync
  <2>12. QED
    BY <2>5, <2>8, <2>9, <2>11
<1>8. CASE f.type = "guest_order_access"
  <2>1. f \in AccessParts
    BY <1>8, FramesAre
  <2>2. f \in AnswerParts(Row) /\ f \in AnyPart
    BY <1>1, <2>1 DEF AnswerParts
  <2>3. PICK R1 : R1 = Append(R, f)
    OBVIOUS
  <2>4. /\ OnlyNew(R, R1, "guest_order_access")
        /\ OfType(R1, "guest_order_access") = Append(OfType(R, "guest_order_access"), f)
    BY <1>1, <1>8, <2>2, <2>3, PlusPart
  <2>5. R1 \in Seq(AnswerParts(Row))
    BY <2>2, <2>3, AppendProperties
  <2>6. PICK s1 : s1 = [s EXCEPT !.access = Append(s.access, f)]
    OBVIOUS
  <2>7. Record(R, f) = R1 /\ Show(s, f) = s1
    BY <1>8, <2>3, <2>6 DEF Record, Show
  <2>8. /\ s1 \in ScreenSet /\ s1.parts = s.parts /\ s1.rows = s.rows /\ s1.grids = s.grids
        /\ s1.access = Append(s.access, f) /\ s1.saw = s.saw
    <3>1. Append(s.access, f) \in Seq(AccessParts)
      BY <1>2, <2>1, AppendProperties
    <3>2. QED
      BY <2>6, <3>1 DEF ScreenSet
  <2>9. /\ ImagesOf(R1) = ImagesOf(R) /\ ProseOf(R1) = ProseOf(R) /\ RowsIn(R1) = RowsIn(R)
        /\ OfType(R1, "products") = OfType(R, "products")
    BY <2>4 DEF OnlyNew, PartTypes
  <2>10. OfType(R1, "guest_order_access") = s1.access
    BY <1>3, <2>4, <2>8, Zenon
  <2>11. Sync(R1, s1, late)
    BY <1>3, <2>8, <2>9, <2>10, Zenon DEF Sync
  <2>12. QED
    BY <2>5, <2>7, <2>8, <2>11
<1>9. QED
  BY <1>4, <1>5, <1>6, <1>7, <1>8, FramesAre

-----------------------------------------------------------------------------
(***************************************************************************)
(* What a frame adds to the recorded parts                                 *)
(***************************************************************************)
Recording(R, f, new) ==
    /\ new \in Seq(AnswerParts(Row))
    /\ ProseOf(new) = IF f.type = "chunk" THEN Append(ProseOf(R), f.piece) ELSE ProseOf(R)
    /\ ImagesOf(new) = ImagesOf(R) \union {q \in {f} : q.type = "image" /\ q.status = "complete"}
    /\ RowsIn(new) = IF f.type = "activity" THEN RecordActivity(RowsIn(R), f) ELSE RowsIn(R)
    /\ f.type # "products" => (PartAt(new, "products") = 0 <=> PartAt(R, "products") = 0)
    /\ f.type = "products" => OneGrid(new)

LEMMA Records ==
    ASSUME NEW R \in Seq(AnswerParts(Row)), NEW f \in ContentFrames, NEW late,
           Fits(R, f, late), RowsRecorded(RowsIn(R))
    PROVE  Recording(R, f, Record(R, f))
<1>1. R \in Seq(AnyPart) /\ AnswerParts(Row) \subseteq AnyPart
  BY PartsWiden
<1>2. PICK new : new = Record(R, f)
  OBVIOUS
<1>3. CASE f.type = "chunk"
  <2>1. f.piece \in 1..MaxPieces
    BY <1>3, FramesAre DEF ProseFrames
  <2>2. new = AddText(R, f.piece)
    BY <1>2, <1>3 DEF Record
  <2>3. new \in Seq(AnswerParts(Row)) /\ OnlyNew(R, new, "text") /\ ProseOf(new) = Append(ProseOf(R), f.piece)
    BY <2>1, <2>2, AddsText
  <2>4. ImagesOf(new) = ImagesOf(R) /\ RowsIn(new) = RowsIn(R)
        /\ (PartAt(new, "products") = 0 <=> PartAt(R, "products") = 0)
    BY <2>3 DEF OnlyNew, PartTypes
  <2>5. QED
    BY <1>2, <1>3, <2>3, <2>4 DEF Recording
<1>4. CASE f.type = "activity"
  <2>1. f \in ActivityFrames /\ RowFits(RowsIn(R), f, late)
    BY <1>4, FramesAre, Fits(R, f, late) DEF Fits
  <2>2. RowsIn(R) \in Seq(Row)
    BY RowsType
  <2>3. PICK rows \in Seq(Row) : rows = RecordActivity(RowsIn(R), f)
    BY <2>1, <2>2, RowsRecorded(RowsIn(R)), RecordsRow
  <2>4. new = WithRows(R, rows)
    <3>1. RecordActivity(IF PartAt(R, "reasoning") = 0 THEN <<>> ELSE R[PartAt(R, "reasoning")].rows, f) = rows
      BY <2>3 DEF RowsIn
    <3>2. QED
      BY <1>2, <1>4, <3>1 DEF Record
  <2>5. new \in Seq(AnswerParts(Row)) /\ OnlyNew(R, new, "reasoning") /\ RowsIn(new) = rows
    BY <2>4, AddsRows
  <2>6. ImagesOf(new) = ImagesOf(R) /\ ProseOf(new) = ProseOf(R)
        /\ (PartAt(new, "products") = 0 <=> PartAt(R, "products") = 0)
    BY <2>5 DEF OnlyNew, PartTypes
  <2>7. QED
    BY <1>2, <1>4, <2>3, <2>5, <2>6 DEF Recording
<1>5. CASE f.type = "image" /\ f.status # "complete"
  <2>1. new = R
    BY <1>2, <1>5 DEF Record
  <2>2. QED
    BY <1>2, <1>5, <2>1 DEF Recording
<1>6. CASE f.type \in {"products", "guest_order_access"} \/ (f.type = "image" /\ f.status = "complete")
  <2>1. f \in AnswerParts(Row) /\ f \in AnyPart
    BY <1>1, <1>6, FramesAre DEF AnswerParts
  <2>2. f.type = "products" => PartAt(R, "products") = 0
    BY Fits(R, f, late) DEF Fits
  <2>3. new = Append(R, f)
    BY <1>2, <1>6, <2>2 DEF Record, RecordProducts
  <2>4. new \in Seq(AnswerParts(Row))
    BY <2>1, <2>3, AppendProperties
  <2>5. /\ OnlyNew(R, new, f.type)
        /\ f.type = "image" => ImagesOf(new) = ImagesOf(R) \union {q \in {f} : q.status = "complete"}
    BY <1>1, <2>1, <2>3, PlusPart
  <2>6. ProseOf(new) = ProseOf(R) /\ RowsIn(new) = RowsIn(R)
        /\ (f.type # "products" => (PartAt(new, "products") = 0 <=> PartAt(R, "products") = 0))
    BY <1>6, <2>5 DEF OnlyNew, PartTypes
  <2>7. ImagesOf(new) = ImagesOf(R) \union {q \in {f} : q.type = "image" /\ q.status = "complete"}
    <3>1. CASE f.type = "image"
      BY <2>5, <3>1
    <3>2. CASE f.type # "image"
      BY <2>5, <3>2 DEF OnlyNew
    <3>3. QED
      BY <3>1, <3>2
  <2>8. ASSUME f.type = "products" PROVE OneGrid(new)
    <3>1. PICK n \in Nat : n = Len(R)
      BY LenProperties
    <3>2. Len(new) = n + 1 /\ \A i \in 1..n : new[i] = R[i] /\ R[i].type # "products"
      BY <1>1, <2>1, <2>2, <2>3, <2>8, <3>1, PartPlace, AppendProperties
    <3>3. \A i \in 1..(n + 1) : i \in 1..n \/ i = n + 1
      OBVIOUS
    <3>4. QED
      BY <3>2, <3>3 DEF OneGrid
  <2>9. QED
    BY <1>2, <1>6, <2>4, <2>6, <2>7, <2>8 DEF Recording
<1>7. QED
  BY <1>3, <1>4, <1>5, <1>6, FramesAre

-----------------------------------------------------------------------------
(***************************************************************************)
(* The end of an answer                                                    *)
(***************************************************************************)
LEMMA FlatNone ==
    ASSUME NEW P, NEW T, NEW g, Lists(g, P, T), NEW seq \in Seq(P), \A i \in 1..Len(seq) : g[seq[i]] = <<>>
    PROVE  FlatOf(g, seq) = <<>>
<1>1. PICK n \in Nat : n = Len(seq)
  BY LenProperties
<1>2. PICK lists \in Seq(Seq(T)) : lists = [i \in 1..Len(seq) |-> g[seq[i]]]
  <2>1. [i \in 1..Len(seq) |-> g[seq[i]]] \in Seq(Seq(T))
    BY Lists(g, P, T), FlatMapped
  <2>2. QED
    BY <2>1
<1>3. Len(lists) = n /\ \A i \in 1..n : lists[i] = <<>>
  BY <1>1, <1>2, \A i \in 1..Len(seq) : g[seq[i]] = <<>>
<1>4. Joined(lists) = <<>>
  BY <1>3, JoinedEmpty
<1>5. QED
  BY <1>2, <1>4 DEF FlatOf

LEMMA FlatSingles ==
    ASSUME NEW P, NEW g, Lists(g, P, P)
    PROVE  \A seq \in Seq(P) : (\A i \in 1..Len(seq) : g[seq[i]] = <<seq[i]>>) => FlatOf(g, seq) = seq
<1> TAKE seq \in Seq(P)
<1> SUFFICES ASSUME \A i \in 1..Len(seq) : g[seq[i]] = <<seq[i]>> PROVE FlatOf(g, seq) = seq
  OBVIOUS
<1>1. PICK n \in Nat : n = Len(seq)
  BY LenProperties
<1>2. PICK lists \in Seq(Seq(P)) : lists = [i \in 1..Len(seq) |-> g[seq[i]]]
  <2>1. [i \in 1..Len(seq) |-> g[seq[i]]] \in Seq(Seq(P))
    BY Lists(g, P, P), FlatMapped
  <2>2. QED
    BY <2>1
<1>3. Len(lists) = n /\ \A i \in 1..n : lists[i] = <<seq[i]>>
  BY <1>1, <1>2, \A i \in 1..Len(seq) : g[seq[i]] = <<seq[i]>>
<1>4. Singles(lists, P, seq)
  BY <1>1, <1>3 DEF Singles
<1>5. Joined(lists) = seq
  BY <1>4, JoinedSingles
<1>6. QED
  BY <1>2, <1>5 DEF FlatOf

\* Forms after the parts.
LEMMA PlusForms ==
    ASSUME NEW rowSet, rowSet \subseteq Row \union ShownRow,
           NEW parts \in Seq(AnswerParts(rowSet)), NEW forms \in Seq(AccessParts)
    PROVE  /\ parts \o forms \in Seq(AnswerParts(rowSet))
           /\ OnlyNew(parts, parts \o forms, "guest_order_access")
           /\ OfType(parts \o forms, "guest_order_access") = OfType(parts, "guest_order_access") \o forms
<1>1. parts \in Seq(AnyPart) /\ AnswerParts(rowSet) \subseteq AnyPart
  BY rowSet \subseteq Row \union ShownRow, PartsWiden
<1>2. AccessParts \subseteq AnswerParts(rowSet) /\ AccessParts \subseteq AnyPart
  BY <1>1 DEF AnswerParts
<1>3. forms \in Seq(AnswerParts(rowSet)) /\ forms \in Seq(AnyPart)
  BY <1>2, WiderSeq
<1>4. PICK n \in Nat, m \in Nat : n = Len(parts) /\ m = Len(forms)
  BY LenProperties
<1>5. \A i \in 1..m : forms[i] \in AccessParts /\ forms[i] \in AnyPart /\ forms[i].type = "guest_order_access"
  <2>1. \A i \in 1..m : forms[i] \in AccessParts
    BY <1>4, ElementOfSeq
  <2>2. \A p \in AccessParts : p \in AnyPart /\ p.type = "guest_order_access"
    BY <1>2 DEF AccessParts
  <2>3. QED
    BY <2>1, <2>2
<1>6. PICK new \in Seq(AnswerParts(rowSet)) : new = parts \o forms
  <2>1. parts \o forms \in Seq(AnswerParts(rowSet))
    BY <1>3, Concats
  <2>2. QED
    BY <2>1, Zenon
<1>7. new \in Seq(AnyPart)
  BY rowSet \subseteq Row \union ShownRow, PartsWiden
<1>8. /\ Len(new) = n + m
      /\ \A i \in 1..(n + m) : new[i] = IF i <= n THEN parts[i] ELSE forms[i - n]
  BY <1>3, <1>4, <1>6, Concats
<1>9. \A i \in 1..(n + m) : IF i <= n THEN i \in 1..n ELSE i - n \in 1..m
  OBVIOUS
<1>10. \A g, T : Lists(g, AnyPart, T) => FlatOf(g, new) = FlatOf(g, parts) \o FlatOf(g, forms)
  <2>1. ASSUME NEW g, NEW T, Lists(g, AnyPart, T)
        PROVE  FlatOf(g, new) = FlatOf(g, parts) \o FlatOf(g, forms)
    <3>1. \A a, b \in Seq(AnyPart) : FlatOf(g, a \o b) = FlatOf(g, a) \o FlatOf(g, b)
      BY <2>1, FlatConcat
    <3>2. QED
      BY <1>1, <1>3, <1>6, <3>1, Zenon
  <2>2. QED
    BY <2>1
<1>11. \A S : \A x \in Seq(S) : x \o <<>> = x
  BY ConcatEmptySeq
<1>12. ProseOf(new) = ProseOf(parts)
  <2>1. Lists(Pieces, AnyPart, 1..MaxPieces)
    BY FlatTypes
  <2>2. \A i \in 1..Len(forms) : Pieces[forms[i]] = <<>>
    BY <1>4, <1>5 DEF Pieces
  <2>3. FlatOf(Pieces, forms) = <<>>
    BY <1>3, <2>1, <2>2, FlatNone
  <2>4. FlatOf(Pieces, parts) \in Seq(1..MaxPieces)
    BY <1>1, <2>1, FlatMapped
  <2>5. FlatOf(Pieces, new) = FlatOf(Pieces, parts)
    BY <1>10, <1>11, <2>1, <2>3, <2>4, Zenon
  <2>6. QED
    BY <1>1, <1>7, <2>5, FlatViews
<1>13. ASSUME NEW type, type # "guest_order_access" PROVE OfType(new, type) = OfType(parts, type)
  <2>1. Lists(Only(type), AnyPart, AnyPart)
    BY FlatTypes
  <2>2. \A i \in 1..Len(forms) : Only(type)[forms[i]] = <<>>
    BY <1>4, <1>5, <1>13 DEF Only
  <2>3. FlatOf(Only(type), forms) = <<>>
    BY <1>3, <2>1, <2>2, FlatNone
  <2>4. FlatOf(Only(type), parts) \in Seq(AnyPart)
    BY <1>1, <2>1, FlatMapped
  <2>5. FlatOf(Only(type), new) = FlatOf(Only(type), parts)
    BY <1>10, <1>11, <2>1, <2>3, <2>4, Zenon
  <2>6. QED
    BY <1>1, <1>7, <2>5, FlatViews
<1>14. OfType(new, "guest_order_access") = OfType(parts, "guest_order_access") \o forms
  <2> DEFINE g == Only("guest_order_access")
  <2>1. Lists(g, AnyPart, AnyPart)
    BY FlatTypes
  <2>2. \A i \in 1..Len(forms) : g[forms[i]] = <<forms[i]>>
    BY <1>4, <1>5 DEF Only
  <2> HIDE DEF g
  <2>3. FlatOf(g, forms) = forms
    BY <1>3, <2>1, <2>2, FlatSingles, Zenon
  <2>4. FlatOf(g, new) = FlatOf(g, parts) \o forms
    BY <1>10, <2>1, <2>3, Zenon
  <2>5. QED
    BY <1>1, <1>7, <2>4, FlatViews DEF g
<1>15. ImagesOf(new) = ImagesOf(parts)
  <2>1. ASSUME NEW q PROVE ImageIn(new, q) <=> ImageIn(parts, q)
    <3>1. ASSUME NEW i \in 1..(n + m), q = new[i], q.type = "image" PROVE i \in 1..n /\ q = parts[i]
      BY <1>5, <1>8, <1>9, <3>1
    <3>2. ASSUME NEW i \in 1..n PROVE i \in 1..(n + m) /\ new[i] = parts[i]
      BY <1>8
    <3>3. QED
      BY <1>4, <1>8, <3>1, <3>2 DEF ImageIn
  <2>2. \A q : q \in ImagesOf(new) <=> q \in ImagesOf(parts)
    BY <1>1, <1>7, <2>1, ImagesAre, Zenon
  <2>3. QED
    BY <2>2
<1>16. \A type : type # "guest_order_access" => PartAt(new, type) = PartAt(parts, type)
  <2>1. ASSUME NEW type, type # "guest_order_access" PROVE PartAt(new, type) = PartAt(parts, type)
    <3>1. DOMAIN new = 1..(n + m) /\ DOMAIN parts = 1..n
      BY <1>4, <1>8, LenProperties
    <3>2. ASSUME NEW i \in 1..(n + m), new[i].type = type PROVE i \in 1..n /\ parts[i].type = type
      BY <1>5, <1>8, <1>9, <2>1, <3>2
    <3>3. ASSUME NEW i \in 1..n PROVE i \in 1..(n + m) /\ new[i] = parts[i]
      BY <1>8
    <3>4. {i \in DOMAIN new : new[i].type = type} = {i \in DOMAIN parts : parts[i].type = type}
      BY <3>1, <3>2, <3>3
    <3>5. QED
      BY <3>4 DEF PartAt
  <2>2. QED
    BY <2>1
<1>17. RowsIn(new) = RowsIn(parts)
  <2>1. PartAt(new, "reasoning") = PartAt(parts, "reasoning") /\ PartAt(parts, "reasoning") \in 0..n
    BY <1>1, <1>4, <1>16, PartPlace
  <2>2. PartAt(parts, "reasoning") # 0 => new[PartAt(parts, "reasoning")] = parts[PartAt(parts, "reasoning")]
    BY <1>8, <2>1
  <2>3. QED
    BY <2>1, <2>2 DEF RowsIn
<1>18. OnlyNew(parts, new, "guest_order_access")
  BY <1>12, <1>13, <1>15, <1>16, <1>17 DEF OnlyNew
<1>19. QED
  BY <1>6, <1>14, <1>18

\* An answer that is done shows what was held back.
LEMMA ShowsDone ==
    ASSUME NEW R \in Seq(AnswerParts(Row)), NEW s \in ScreenSet, NEW late, Sync(R, s, late)
    PROVE  /\ ShowDone(s) \in ScreenSet /\ ShowDone(s).saw = "done"
           /\ Finished(R, ShowDone(s), late)
<1>1. /\ s.rows \in Seq(ShownRow) /\ s.parts \in Seq(AnswerParts(ShownRow)) /\ s.parts \in Seq(AnyPart)
      /\ s.grids \in Seq(ProductParts) /\ s.access \in Seq(AccessParts)
      /\ AnswerParts(ShownRow) \subseteq AnyPart
  BY ScreensAre, PartsWiden
<1>2. /\ ProseOf(R) = ProseOf(s.parts) /\ ImagesOf(R) = ImagesOf(s.parts)
      /\ PartAt(s.parts, "products") = 0 /\ PartAt(s.parts, "guest_order_access") = 0
      /\ OfType(R, "products") = s.grids /\ OfType(R, "guest_order_access") = s.access
      /\ Len(s.grids) <= 1 /\ s.rows = RowsIn(s.parts) /\ InStep(RowsIn(R), s.rows, late)
  BY Sync(R, s, late) DEF Sync
<1>3. PICK s1 : s1 = FlushReasoning(s)
  OBVIOUS
<1>4. /\ s1 \in ScreenSet /\ s1.grids = s.grids /\ s1.access = s.access
      /\ ProseOf(s1.parts) = ProseOf(s.parts) /\ ImagesOf(s1.parts) = ImagesOf(s.parts)
      /\ RowsIn(s1.parts) = s.rows
      /\ PartAt(s1.parts, "products") = 0 /\ PartAt(s1.parts, "guest_order_access") = 0
  <2>1. CASE s.rows = <<>>
    BY <1>2, <1>3, <2>1 DEF FlushReasoning
  <2>2. CASE s.rows # <<>>
    <3>1. PICK parts : parts = WithRows(s.parts, s.rows)
      OBVIOUS
    <3>2. /\ parts \in Seq(AnswerParts(ShownRow)) /\ OnlyNew(s.parts, parts, "reasoning")
          /\ RowsIn(parts) = s.rows
      BY <1>1, <3>1, AddsRows
    <3>3. s1 = [s EXCEPT !.parts = parts, !.rows = <<>>]
      BY <1>3, <2>2, <3>1 DEF FlushReasoning
    <3>4. <<>> \in Seq(ShownRow)
      OBVIOUS
    <3>5. s1 \in ScreenSet /\ s1.grids = s.grids /\ s1.access = s.access /\ s1.parts = parts
      BY <3>2, <3>3, <3>4 DEF ScreenSet
    <3>6. QED
      BY <1>2, <3>2, <3>5 DEF OnlyNew, PartTypes
  <2>3. QED
    BY <2>1, <2>2
<1>5. s1.parts \in Seq(AnswerParts(ShownRow)) /\ s1.parts \in Seq(AnyPart)
  BY <1>4, ScreensAre
<1>6. PICK s2 : s2 = FlushProducts(s1)
  OBVIOUS
<1>7. /\ s2 \in ScreenSet /\ s2.access = s.access
      /\ ProseOf(s2.parts) = ProseOf(s.parts) /\ ImagesOf(s2.parts) = ImagesOf(s.parts)
      /\ RowsIn(s2.parts) = s.rows /\ OfType(s2.parts, "products") = s.grids
      /\ PartAt(s2.parts, "guest_order_access") = 0
  <2>1. OfType(s1.parts, "products") = <<>>
    BY <1>4, <1>5, NoneOfType
  <2>2. CASE s.grids = <<>>
    BY <1>4, <1>6, <2>1, <2>2 DEF FlushProducts
  <2>3. CASE s.grids # <<>>
    <3>1. PICK p : p = s.grids[1]
      OBVIOUS
    <3>2. Len(s.grids) = 1 /\ p \in ProductParts /\ s.grids = <<p>>
      <4>1. PICK n \in Nat : n = Len(s.grids) /\ (n = 0 => s.grids = <<>>)
        BY <1>1, LenProperties, EmptySeq
      <4>2. Len(s.grids) = 1
        <5>1. n <= 1 /\ n # 0
          BY <1>2, <2>3, <4>1
        <5>2. n = 1
          BY <5>1
        <5>3. QED
          BY <4>1, <5>2
      <4>3. p \in ProductParts
        BY <1>1, <3>1, <4>2, ElementOfSeq
      <4>4. s.grids = <<p>>
        BY <1>1, <3>1, <4>2, <4>3, EqualSeqs
      <4>5. QED
        BY <4>2, <4>3, <4>4
    <3>3. Last(s1.grids) = p
      BY <1>4, <3>1, <3>2 DEF Last
    <3>4. p \in AnswerParts(ShownRow) /\ p \in AnyPart /\ p.type = "products"
      BY <1>1, <3>2 DEF AnswerParts, ProductParts
    <3>5. PICK parts : parts = Append(s1.parts, p)
      OBVIOUS
    <3>6. RecordProducts(s1.parts, p) = parts
      BY <1>4, <3>5 DEF RecordProducts
    <3>7. parts \in Seq(AnswerParts(ShownRow))
      BY <1>5, <3>4, <3>5, AppendProperties
    <3>8. /\ OnlyNew(s1.parts, parts, "products")
          /\ OfType(parts, "products") = Append(OfType(s1.parts, "products"), p)
      BY <1>5, <3>4, <3>5, PlusPart
    <3>9. OfType(parts, "products") = s.grids
      <4>1. Append(<<>>, p) = <<p>>
        OBVIOUS
      <4>2. QED
        BY <2>1, <3>2, <3>8, <4>1, Zenon
    <3>10. s2 = [s1 EXCEPT !.grids = <<>>, !.parts = parts]
      BY <1>4, <1>6, <2>3, <3>3, <3>6 DEF FlushProducts
    <3>11. <<>> \in Seq(ProductParts)
      OBVIOUS
    <3>12. s2 \in ScreenSet /\ s2.access = s1.access /\ s2.parts = parts
      BY <1>4, <3>7, <3>10, <3>11 DEF ScreenSet
    <3>13. QED
      BY <1>4, <3>8, <3>9, <3>12 DEF OnlyNew, PartTypes
  <2>4. QED
    BY <2>2, <2>3
<1>8. s2.parts \in Seq(AnswerParts(ShownRow)) /\ s2.parts \in Seq(AnyPart)
  BY <1>7, ScreensAre
<1>9. PICK parts : parts = s2.parts \o s.access
  OBVIOUS
<1>10. /\ parts \in Seq(AnswerParts(ShownRow)) /\ OnlyNew(s2.parts, parts, "guest_order_access")
       /\ OfType(parts, "guest_order_access") = s.access
  <2>1. /\ parts \in Seq(AnswerParts(ShownRow)) /\ OnlyNew(s2.parts, parts, "guest_order_access")
        /\ OfType(parts, "guest_order_access") = OfType(s2.parts, "guest_order_access") \o s.access
    BY <1>1, <1>8, <1>9, PlusForms
  <2>2. OfType(s2.parts, "guest_order_access") = <<>>
    BY <1>7, <1>8, NoneOfType
  <2>3. <<>> \o s.access = s.access
    BY <1>1, ConcatEmptySeq
  <2>4. QED
    BY <2>1, <2>2, <2>3, Zenon
<1>11. PICK s3 : s3 = ShowDone(s)
  OBVIOUS
<1>12. s3 \in ScreenSet /\ s3.parts = parts /\ s3.saw = "done"
  <2>1. s3 = [s2 EXCEPT !.access = <<>>, !.parts = parts, !.saw = "done"]
    BY <1>3, <1>6, <1>7, <1>9, <1>11 DEF ShowDone, FlushAccess, ScreenSet
  <2>2. <<>> \in Seq(AccessParts)
    OBVIOUS
  <2>3. QED
    BY <1>7, <1>10, <2>1, <2>2 DEF ScreenSet
<1>13. /\ ProseOf(parts) = ProseOf(R) /\ ImagesOf(parts) = ImagesOf(R) /\ RowsIn(parts) = s.rows
       /\ OfType(parts, "products") = OfType(R, "products")
       /\ OfType(parts, "guest_order_access") = OfType(R, "guest_order_access")
  BY <1>2, <1>7, <1>10 DEF OnlyNew, PartTypes
<1>14. Finished(R, s3, late)
  BY <1>2, <1>12, <1>13 DEF Finished, InStep
<1>15. QED
  BY <1>11, <1>12, <1>14

\* Every other end leaves the parts that are shown.
LEMMA ShowsEnd ==
    ASSUME NEW s \in ScreenSet, NEW how \in {"stopped", "failed", "cancelled"}
    PROVE  ShowEnd(s, how) \in ScreenSet /\ ShowEnd(s, how).saw = how /\ ShowEnd(s, how).parts = s.parts
<1>1. PICK s1 : s1 = ShowEnd(s, how)
  OBVIOUS
<1>2. <<>> \in Seq(ShownRow) /\ <<>> \in Seq(ProductParts) /\ <<>> \in Seq(AccessParts)
  OBVIOUS
<1>3. s1 = [s EXCEPT !.grids = <<>>, !.access = <<>>, !.saw = how,
                     !.rows = IF how = "cancelled" THEN <<>> ELSE s.rows]
  BY <1>1 DEF ShowEnd
<1>4. s1 \in ScreenSet /\ s1.saw = how /\ s1.parts = s.parts
  BY <1>2, <1>3 DEF ScreenSet
<1>5. QED
  BY <1>1, <1>4

LEMMA FailedIsFinished ==
    ASSUME NEW R \in Seq(AnswerParts(Row)), NEW s \in ScreenSet, NEW late, Sync(R, s, late),
           PartAt(R, "products") = 0
    PROVE  Finished(R, ShowEnd(s, "failed"), late)
<1>1. R \in Seq(AnyPart) /\ s.parts \in Seq(AnyPart)
  BY ScreensAre, PartsWiden
<1>2. PICK s1 : s1 = ShowEnd(s, "failed") /\ s1.saw = "failed" /\ s1.parts = s.parts
  BY ShowsEnd
<1>3. /\ ProseOf(R) = ProseOf(s.parts) /\ ImagesOf(R) = ImagesOf(s.parts)
      /\ PartAt(s.parts, "products") = 0
      /\ s.rows = RowsIn(s.parts) /\ InStep(RowsIn(R), s.rows, late)
  BY Sync(R, s, late) DEF Sync
<1>4. OfType(R, "products") = <<>> /\ OfType(s.parts, "products") = <<>>
  BY <1>1, <1>3, PartAt(R, "products") = 0, NoneOfType
<1>5. Finished(R, s1, late)
  BY <1>2, <1>3, <1>4 DEF Finished, InStep
<1>6. QED
  BY <1>2, <1>5

LEMMA RowStatesPresent ==
    ASSUME NEW rows \in Seq(Row \union ShownRow), NEW op
    PROVE  EndOf(rows, op) # "absent" <=> \E i \in 1..Len(rows) : rows[i].op = op
<1>1. PICK n, m : n \in Nat /\ n = Len(rows) /\ m = LatestRow(rows, op)
  BY LenProperties
<1>2. /\ m \in 0..n /\ (m = 0 <=> \A i \in 1..n : rows[i].op # op) /\ (m # 0 => rows[m].op = op)
  BY <1>1, LatestPlace
<1>3. ASSUME m # 0 PROVE rows[m].state # "absent"
  <2>1. m \in 1..n
    BY <1>2, <1>3
  <2>2. rows[m] \in Row \union ShownRow
    BY <1>1, <2>1, ElementOfSeq
  <2>3. \A row \in Row \union ShownRow : row.state # "absent"
    BY DEF Row, ShownRow, RowStates
  <2>4. QED
    BY <2>2, <2>3
<1>4. EndOf(rows, op) = IF m = 0 THEN "absent" ELSE rows[m].state
  BY <1>1 DEF EndOf
<1>5. QED
  BY <1>1, <1>2, <1>3, <1>4

\* Of what is in step nothing is lost.
LEMMA SyncBegun ==
    ASSUME NEW R \in Seq(AnswerParts(Row)), NEW s \in ScreenSet, NEW late, Sync(R, s, late)
    PROVE  Begun(R, s)
<1>1. R \in Seq(AnyPart) /\ s.parts \in Seq(AnyPart) /\ s.rows \in Seq(ShownRow) /\ RowsIn(R) \in Seq(Row)
  BY ScreensAre, PartsWiden, RowsType
<1>2. /\ ProseOf(R) = ProseOf(s.parts) /\ ImagesOf(R) = ImagesOf(s.parts)
      /\ s.rows = RowsIn(s.parts)
      /\ \A op \in Operations : EndOf(RowsIn(R), op) = EndOf(s.rows, op)
  BY Sync(R, s, late) DEF Sync, InStep
<1>3. Begins(ProseOf(s.parts), ProseOf(R))
  <2>1. Len(ProseOf(R)) \in Nat
    BY <1>1, FlatViews, LenProperties
  <2>2. QED
    BY <1>2, <2>1 DEF Begins
<1>4. ASSUME NEW i \in 1..Len(s.rows)
      PROVE  \E j \in 1..Len(RowsIn(R)) : s.rows[i].op = RowsIn(R)[j].op
  <2>1. s.rows[i] \in ShownRow
    BY <1>1, ElementOfSeq
  <2>2. PICK op \in Operations : op = s.rows[i].op
    BY <2>1 DEF ShownRow
  <2>3. s.rows \in Seq(Row \union ShownRow) /\ RowsIn(R) \in Seq(Row \union ShownRow)
    <3>1. ShownRow \subseteq Row \union ShownRow /\ Row \subseteq Row \union ShownRow
      OBVIOUS
    <3>2. QED
      BY <1>1, <3>1, WiderSeq
  <2>4. EndOf(s.rows, op) # "absent"
    BY <2>2, <2>3, RowStatesPresent
  <2>5. EndOf(RowsIn(R), op) # "absent"
    BY <1>2, <2>4
  <2>6. QED
    BY <2>2, <2>3, <2>5, RowStatesPresent
<1>5. QED
  BY <1>2, <1>3, <1>4 DEF Begun

\* What was begun stays so while more is recorded.
LEMMA BegunGrows ==
    ASSUME NEW R \in Seq(AnswerParts(Row)), NEW s \in ScreenSet, NEW f \in ContentFrames, NEW late,
           Fits(R, f, late), RowsRecorded(RowsIn(R)), Begun(R, s)
    PROVE  Begun(Record(R, f), s)
<1>1. PICK new : new = Record(R, f) /\ Recording(R, f, new)
  BY Fits(R, f, late), RowsRecorded(RowsIn(R)), Records
<1>2. R \in Seq(AnyPart) /\ s.parts \in Seq(AnyPart) /\ RowsIn(R) \in Seq(Row)
  BY ScreensAre, PartsWiden, RowsType
<1>3. PICK a, b \in Seq(1..MaxPieces) : a = ProseOf(s.parts) /\ b = ProseOf(R)
  BY <1>2, FlatViews
<1>4. PICK n \in Nat, m \in Nat : n = Len(a) /\ m = Len(b)
  BY LenProperties
<1>5. n <= m /\ \A i \in 1..n : a[i] = b[i]
  BY <1>3, <1>4, Begun(R, s) DEF Begun, Begins
<1>6. Begins(a, ProseOf(new))
  <2>1. CASE f.type = "chunk"
    <3>1. ProseOf(new) = Append(b, f.piece) /\ f.piece \in 1..MaxPieces
      BY <1>1, <1>3, <2>1, FramesAre DEF Recording, ProseFrames
    <3>2. Len(Append(b, f.piece)) = m + 1 /\ \A i \in 1..m : Append(b, f.piece)[i] = b[i]
      BY <1>4, <3>1, AppendProperties
    <3>3. \A i \in 1..n : i \in 1..m
      BY <1>5
    <3>4. QED
      BY <1>4, <1>5, <3>1, <3>2, <3>3 DEF Begins
  <2>2. CASE f.type # "chunk"
    <3>1. ProseOf(new) = b
      BY <1>1, <1>3, <2>2 DEF Recording
    <3>2. QED
      BY <1>4, <1>5, <3>1 DEF Begins
  <2>3. QED
    BY <2>1, <2>2
<1>7. ImagesOf(s.parts) \subseteq ImagesOf(new)
  BY <1>1, Begun(R, s) DEF Recording, Begun
<1>8. ASSUME NEW j \in 1..Len(RowsIn(R))
      PROVE  \E k \in 1..Len(RowsIn(new)) : RowsIn(new)[k].op = RowsIn(R)[j].op
  <2>1. CASE f.type # "activity"
    BY <1>1, <2>1 DEF Recording
  <2>2. CASE f.type = "activity"
    <3>1. f \in ActivityFrames /\ RowFits(RowsIn(R), f, late)
      BY <2>2, FramesAre, Fits(R, f, late) DEF Fits
    <3>0. PICK rows \in Seq(Row) : rows = RowsIn(R)
      BY <1>2
    <3>2. PICK after : after = RecordActivity(rows, f) /\ RowsIn(new) = after
      BY <1>1, <2>2, <3>0 DEF Recording
    <3>3. PICK p \in Nat : p = Len(rows)
      BY LenProperties
    <3>4. CASE EndsWith(rows, f.op)
      <4>1. p \in 1..p /\ PutAt(rows, p, [rows[p] EXCEPT !.state = f.state], after)
        BY <3>0, <3>1, <3>2, <3>3, <3>4, RowsRecorded(RowsIn(R)), RecordsRow
      <4>2. rows[p] \in Row
        BY <3>3, <4>1, ElementOfSeq
      <4>3. [rows[p] EXCEPT !.state = f.state].op = rows[p].op
        BY <4>2 DEF Row
      <4>4. Len(after) = p /\ after[j].op = rows[j].op
        BY <3>0, <3>2, <3>3, <4>1, <4>3 DEF PutAt
      <4>5. QED
        BY <3>0, <3>2, <3>3, <4>4
    <3>5. CASE ~EndsWith(rows, f.op)
      <4>1. Grown(rows, [id |-> f.id, op |-> f.op, state |-> f.state], after)
        BY <3>0, <3>1, <3>2, <3>5, RowsRecorded(RowsIn(R)), RecordsRow
      <4>2. Len(after) = p + 1 /\ after[j] = rows[j] /\ j \in 1..(p + 1)
        BY <3>0, <3>2, <3>3, <4>1 DEF Grown
      <4>3. QED
        BY <3>0, <3>2, <4>2
    <3>6. QED
      BY <3>4, <3>5
  <2>3. QED
    BY <2>1, <2>2
<1>9. \A i \in 1..Len(RowsIn(s.parts)) : \E k \in 1..Len(RowsIn(new)) : RowsIn(s.parts)[i].op = RowsIn(new)[k].op
  <2>1. \A i \in 1..Len(RowsIn(s.parts)) : \E j \in 1..Len(RowsIn(R)) : RowsIn(s.parts)[i].op = RowsIn(R)[j].op
    BY Begun(R, s) DEF Begun
  <2>2. QED
    BY <1>8, <2>1
<1>10. QED
  BY <1>1, <1>3, <1>6, <1>7, <1>9 DEF Begun

-----------------------------------------------------------------------------
(***************************************************************************)
(* Frames that are on their way                                            *)
(***************************************************************************)
\* What is recorded after each frame.
ChainOf(rs, A, fs, B, late) ==
    /\ rs \in [0..Len(fs) -> Seq(AnswerParts(Row))] /\ rs[0] = A /\ rs[Len(fs)] = B
    /\ \A k \in 1..Len(fs) : rs[k] = Record(rs[k - 1], fs[k]) /\ Fits(rs[k - 1], fs[k], late)
Chain(A, fs, B, late) == \E rs : ChainOf(rs, A, fs, B, late)

After(rs, A, fs, n) ==
    /\ n \in Nat /\ n = Len(fs) /\ rs = [k \in 0..n |-> rs[k]] /\ rs[0] = A
    /\ \A k \in 1..n : rs[k] = Record(rs[k - 1], fs[k])
LEMMA RecordedIs ==
    ASSUME NEW A, NEW fs, NEW n, NEW rs, After(rs, A, fs, n)
    PROVE  Recorded(A, fs) = rs[n]
<1> USE DEF After
<1> DEFINE Makes(f) == f = [k \in 0..n |-> IF k = 0 THEN A ELSE Record(f[k - 1], fs[k])]
           after == CHOOSE f : Makes(f)
<1>1. Makes(rs)
  <2>1. \A k \in 0..n : k = 0 \/ k \in 1..n
    OBVIOUS
  <2>2. \A k \in 0..n : rs[k] = IF k = 0 THEN A ELSE Record(rs[k - 1], fs[k])
    BY <2>1, After(rs, A, fs, n)
  <2>3. QED
    BY <2>2, After(rs, A, fs, n)
<1>2. Makes(after)
  <2> HIDE DEF Makes
  <2> QED BY <1>1
<1>3. Recorded(A, fs) = after[n]
  BY After(rs, A, fs, n) DEF Recorded
<1> HIDE DEF after
<1>4. PICK t : t = after
  OBVIOUS
<1>5. t = [k \in 0..n |-> IF k = 0 THEN A ELSE Record(t[k - 1], fs[k])]
  BY <1>2, <1>4
<1> HIDE DEF Makes
<1>6. t[0] = A
  BY <1>5
<1>7. ASSUME NEW k \in 1..n PROVE t[k] = Record(t[k - 1], fs[k])
  <2>1. k \in 0..n /\ k # 0
    OBVIOUS
  <2>2. QED
    BY <1>5, <2>1
<1> DEFINE D == {k \in 0..n : t[k] = rs[k]}
<1>8. 0 \in D
  BY <1>6, After(rs, A, fs, n)
<1>9. ASSUME NEW k \in 1..n, k - 1 \in D PROVE k \in D
  <2>1. k \in 0..n /\ t[k - 1] = rs[k - 1]
    BY <1>9
  <2>2. t[k] = Record(t[k - 1], fs[k]) /\ rs[k] = Record(rs[k - 1], fs[k])
    BY <1>7, After(rs, A, fs, n)
  <2>3. t[k] = rs[k]
    BY <2>1, <2>2, Zenon
  <2>4. QED
    BY <2>1, <2>3
<1> HIDE DEF D
<1>10. \A k \in 0..n : k \in D
  BY <1>8, <1>9, UpTo
<1>11. t[n] = rs[n]
  <2>1. n \in D
    BY <1>10
  <2>2. QED
    BY <2>1 DEF D
<1>12. QED
  BY <1>3, <1>4, <1>11

LEMMA ChainEmpty ==
    ASSUME NEW A \in Seq(AnswerParts(Row)), NEW late
    PROVE  Chain(A, <<>>, A, late) /\ \A B : Chain(A, <<>>, B, late) => B = A
<1>1. Len(<<>>) = 0 /\ 1..0 = {} /\ 0..0 = {0}
  OBVIOUS
<1>2. PICK rs : rs = [k \in 0..0 |-> A]
  OBVIOUS
<1>3. ChainOf(rs, A, <<>>, A, late)
  BY <1>1, <1>2 DEF ChainOf
<1>4. QED
  BY <1>1, <1>3 DEF Chain, ChainOf

\* The first frame is received.
LEMMA ChainTail ==
    ASSUME NEW A \in Seq(AnswerParts(Row)), NEW fs \in Seq(ContentFrames), fs # <<>>,
           NEW B, NEW late, Chain(A, fs, B, late)
    PROVE  /\ Head(fs) \in ContentFrames /\ Tail(fs) \in Seq(ContentFrames)
           /\ Fits(A, Head(fs), late)
           /\ Chain(Record(A, Head(fs)), Tail(fs), B, late)
<1>1. PICK n \in Nat \ {0} : n = Len(fs)
  <2>1. Len(fs) \in Nat /\ (Len(fs) = 0 => fs = <<>>)
    BY LenProperties, EmptySeq
  <2>2. QED
    BY <2>1, fs # <<>>
<1>2. PICK gs \in Seq(ContentFrames) :
         gs = Tail(fs) /\ Len(gs) = n - 1 /\ \A k \in 1..(n - 1) : gs[k] = fs[k + 1]
  <2>1. Tail(fs) \in Seq(ContentFrames) /\ Len(Tail(fs)) = n - 1 /\ \A k \in 1..(n - 1) : Tail(fs)[k] = fs[k + 1]
    BY <1>1, fs # <<>>, HeadTailProperties
  <2>2. QED
    BY <2>1
<1>3. Head(fs) = fs[1] /\ fs[1] \in ContentFrames
  BY <1>1, fs # <<>>, HeadTailProperties, ElementOfSeq
<1>4. PICK rs : ChainOf(rs, A, fs, B, late)
  BY Chain(A, fs, B, late) DEF Chain
<1>5. /\ rs \in [0..n -> Seq(AnswerParts(Row))] /\ rs[0] = A /\ rs[n] = B
      /\ \A k \in 1..n : rs[k] = Record(rs[k - 1], fs[k]) /\ Fits(rs[k - 1], fs[k], late)
  BY <1>1, <1>4 DEF ChainOf
<1>6. rs[1] = Record(A, fs[1]) /\ Fits(A, fs[1], late)
  <2>1. 1 \in 1..n /\ 1 - 1 = 0
    OBVIOUS
  <2>2. QED
    BY <1>5, <2>1
<1>7. PICK ts : ts = [k \in 0..(n - 1) |-> rs[k + 1]]
  OBVIOUS
<1>8. ts \in [0..(n - 1) -> Seq(AnswerParts(Row))] /\ ts[0] = rs[1] /\ ts[n - 1] = B
  <2>1. \A k \in 0..(n - 1) : k + 1 \in 0..n
    OBVIOUS
  <2>2. 0 \in 0..(n - 1) /\ 0 + 1 = 1 /\ n - 1 \in 0..(n - 1) /\ (n - 1) + 1 = n
    OBVIOUS
  <2>3. \A k \in 0..(n - 1) : ts[k] = rs[k + 1]
    BY <1>7
  <2>4. ts \in [0..(n - 1) -> Seq(AnswerParts(Row))]
    BY <1>5, <1>7, <2>1
  <2>5. QED
    BY <1>5, <2>2, <2>3, <2>4
<1>9. ASSUME NEW k \in 1..(n - 1)
      PROVE  ts[k] = Record(ts[k - 1], gs[k]) /\ Fits(ts[k - 1], gs[k], late)
  <2>1. k \in 0..(n - 1) /\ k - 1 \in 0..(n - 1) /\ (k - 1) + 1 = k /\ k + 1 \in 1..n /\ (k + 1) - 1 = k
    OBVIOUS
  <2>2. ts[k] = rs[k + 1] /\ ts[k - 1] = rs[k] /\ gs[k] = fs[k + 1]
    <3>1. \A i \in 0..(n - 1) : ts[i] = rs[i + 1]
      BY <1>7
    <3>2. QED
      BY <1>2, <2>1, <3>1
  <2>3. rs[k + 1] = Record(rs[k], fs[k + 1]) /\ Fits(rs[k], fs[k + 1], late)
    BY <1>5, <2>1
  <2>4. QED
    BY <2>2, <2>3, Zenon
<1>10. ChainOf(ts, rs[1], gs, B, late)
  BY <1>2, <1>8, <1>9 DEF ChainOf
<1>11. QED
  BY <1>2, <1>3, <1>6, <1>10 DEF Chain

\* One more frame is sent.
LEMMA ChainAppend ==
    ASSUME NEW A, NEW fs \in Seq(ContentFrames), NEW B, NEW f \in ContentFrames, NEW late,
           Chain(A, fs, B, late), Fits(B, f, late), Record(B, f) \in Seq(AnswerParts(Row))
    PROVE  Chain(A, Append(fs, f), Record(B, f), late)
<1>1. PICK n \in Nat : n = Len(fs)
  BY LenProperties
<1>2. PICK gs \in Seq(ContentFrames) : gs = Append(fs, f) /\ Len(gs) = n + 1 /\ gs[n + 1] = f
                                       /\ \A k \in 1..n : gs[k] = fs[k]
  <2>1. Append(fs, f) \in Seq(ContentFrames) /\ Len(Append(fs, f)) = n + 1 /\ Append(fs, f)[n + 1] = f
        /\ \A k \in 1..n : Append(fs, f)[k] = fs[k]
    BY <1>1, AppendProperties
  <2>2. QED
    BY <2>1
<1>3. PICK rs : ChainOf(rs, A, fs, B, late)
  BY Chain(A, fs, B, late) DEF Chain
<1>4. /\ rs \in [0..n -> Seq(AnswerParts(Row))] /\ rs[0] = A /\ rs[n] = B
      /\ \A k \in 1..n : rs[k] = Record(rs[k - 1], fs[k]) /\ Fits(rs[k - 1], fs[k], late)
  BY <1>1, <1>3 DEF ChainOf
<1>5. PICK new \in Seq(AnswerParts(Row)) : new = Record(B, f)
  BY Record(B, f) \in Seq(AnswerParts(Row))
<1>6. PICK ts : ts = [k \in 0..(n + 1) |-> IF k = n + 1 THEN new ELSE rs[k]]
  OBVIOUS
<1>7. /\ ts \in [0..(n + 1) -> Seq(AnswerParts(Row))]
      /\ ts[n + 1] = new /\ \A k \in 0..n : ts[k] = rs[k]
  <2>1. \A k \in 0..(n + 1) : k = n + 1 \/ k \in 0..n
    OBVIOUS
  <2>2. \A k \in 0..n : k \in 0..(n + 1) /\ k # n + 1
    OBVIOUS
  <2>3. ts \in [0..(n + 1) -> Seq(AnswerParts(Row))]
    BY <1>4, <1>6, <2>1
  <2>4. QED
    BY <1>6, <2>2, <2>3
<1>8. ASSUME NEW k \in 1..(n + 1)
      PROVE  ts[k] = Record(ts[k - 1], gs[k]) /\ Fits(ts[k - 1], gs[k], late)
  <2>1. CASE k = n + 1
    <3>1. k - 1 = n /\ n \in 0..n
      BY <2>1
    <3>2. ts[k] = new /\ ts[k - 1] = B /\ gs[k] = f
      BY <1>2, <1>4, <1>7, <2>1, <3>1
    <3>3. QED
      BY <1>5, <3>2, Fits(B, f, late), Zenon
  <2>2. CASE k # n + 1
    <3>1. k \in 1..n /\ k \in 0..n /\ k - 1 \in 0..n
      BY <2>2
    <3>2. ts[k] = rs[k] /\ ts[k - 1] = rs[k - 1] /\ gs[k] = fs[k]
      BY <1>2, <1>7, <3>1
    <3>3. rs[k] = Record(rs[k - 1], fs[k]) /\ Fits(rs[k - 1], fs[k], late)
      BY <1>4, <3>1
    <3>4. QED
      BY <3>2, <3>3, Zenon
  <2>3. QED
    BY <2>1, <2>2
<1>9. ts[0] = A
  BY <1>4, <1>7
<1>10. ChainOf(ts, A, gs, new, late)
  BY <1>2, <1>7, <1>8, <1>9 DEF ChainOf
<1>11. QED
  BY <1>2, <1>5, <1>10 DEF Chain

\* It is what Send records; the end of an answer adds nothing.
LEMMA ChainRecorded ==
    ASSUME NEW A, NEW fs \in Seq(ContentFrames), NEW B, NEW late, Chain(A, fs, B, late)
    PROVE  /\ Recorded(A, fs) = B
           /\ \A how \in {"done", "failed", "cancelled"} : Recorded(A, Append(fs, [type |-> how])) = B
<1>1. PICK n \in Nat : n = Len(fs)
  BY LenProperties
<1>2. PICK rs : ChainOf(rs, A, fs, B, late)
  BY Chain(A, fs, B, late) DEF Chain
<1>3. /\ rs \in [0..n -> Seq(AnswerParts(Row))] /\ rs[0] = A /\ rs[n] = B
      /\ \A k \in 1..n : rs[k] = Record(rs[k - 1], fs[k])
  BY <1>1, <1>2 DEF ChainOf
<1>4. Recorded(A, fs) = B
  <2>1. rs = [k \in 0..n |-> rs[k]]
    BY <1>3
  <2>2. QED
    <3>1. After(rs, A, fs, n)
      BY <1>1, <1>3, <2>1 DEF After
    <3>2. QED
      BY <1>3, <3>1, RecordedIs
<1>5. ASSUME NEW how \in {"done", "failed", "cancelled"} PROVE Recorded(A, Append(fs, [type |-> how])) = B
  <2>1. PICK end : end = [type |-> how]
    OBVIOUS
  <2>2. PICK gs : gs = Append(fs, end)
    OBVIOUS
  <2>3. Len(gs) = n + 1 /\ gs[n + 1] = end /\ \A k \in 1..n : gs[k] = fs[k]
    <3>1. fs \in Seq(ContentFrames \union {end})
      BY WiderSeq
    <3>2. QED
      BY <1>1, <2>2, <3>1, AppendProperties
  <2>4. Record(B, end) = B
    BY <2>1 DEF Record
  <2>5. PICK ts : ts = [k \in 0..(n + 1) |-> IF k = n + 1 THEN B ELSE rs[k]]
    OBVIOUS
  <2>6. ts[n + 1] = B /\ \A k \in 0..n : ts[k] = rs[k]
    <3>1. \A k \in 0..n : k \in 0..(n + 1) /\ k # n + 1
      OBVIOUS
    <3>2. QED
      BY <2>5, <3>1
  <2>7. ASSUME NEW k \in 1..(n + 1) PROVE ts[k] = Record(ts[k - 1], gs[k])
    <3>1. CASE k = n + 1
      <4>1. k - 1 = n /\ n \in 0..n
        BY <3>1
      <4>2. ts[k] = B /\ ts[k - 1] = B /\ gs[k] = end
        BY <1>3, <2>3, <2>6, <3>1, <4>1
      <4>3. QED
        BY <2>4, <4>2, Zenon
    <3>2. CASE k # n + 1
      <4>1. k \in 1..n /\ k \in 0..n /\ k - 1 \in 0..n
        BY <3>2
      <4>2. ts[k] = rs[k] /\ ts[k - 1] = rs[k - 1] /\ gs[k] = fs[k]
        BY <2>3, <2>6, <4>1
      <4>3. rs[k] = Record(rs[k - 1], fs[k])
        BY <1>3, <4>1
      <4>4. QED
        BY <4>2, <4>3, Zenon
    <3>3. QED
      BY <3>1, <3>2
  <2>8. ts = [k \in 0..(n + 1) |-> ts[k]] /\ ts[0] = A
    BY <1>3, <2>5, <2>6
  <2>9. Recorded(A, gs) = ts[n + 1]
    <3>1. n + 1 \in Nat
      OBVIOUS
    <3>2. After(ts, A, gs, n + 1)
      BY <2>3, <2>7, <2>8, <3>1 DEF After
    <3>3. QED
      BY <3>2, RecordedIs
  <2>10. QED
    BY <2>1, <2>2, <2>6, <2>9
<1>6. QED
  BY <1>4, <1>5

\* What a screen shows stays the beginning of it.
LEMMA ChainBegun ==
    ASSUME NEW A \in Seq(AnswerParts(Row)), NEW fs \in Seq(ContentFrames), NEW B, NEW late,
           Chain(A, fs, B, late), RowsRecorded(RowsIn(A)), NEW s \in ScreenSet, Begun(A, s)
    PROVE  Begun(B, s)
<1>1. PICK n \in Nat : n = Len(fs)
  BY LenProperties
<1>2. PICK rs : ChainOf(rs, A, fs, B, late)
  BY Chain(A, fs, B, late) DEF Chain
<1>3. /\ rs \in [0..n -> Seq(AnswerParts(Row))] /\ rs[0] = A /\ rs[n] = B
      /\ \A k \in 1..n : rs[k] = Record(rs[k - 1], fs[k]) /\ Fits(rs[k - 1], fs[k], late)
  BY <1>1, <1>2 DEF ChainOf
<1> DEFINE S == {X \in Seq(AnswerParts(Row)) : RowsRecorded(RowsIn(X)) /\ Begun(X, s)}
<1>4. rs[0] \in S
  BY <1>3, RowsRecorded(RowsIn(A)), Begun(A, s)
<1>5. ASSUME NEW k \in 1..n, rs[k - 1] \in S PROVE rs[k] \in S
  <2>1. PICK X \in Seq(AnswerParts(Row)) : X = rs[k - 1] /\ RowsRecorded(RowsIn(X)) /\ Begun(X, s)
    BY <1>5
  <2>2. PICK f \in ContentFrames : f = fs[k]
    BY <1>1, ElementOfSeq
  <2>3. rs[k] = Record(X, f) /\ Fits(X, f, late)
    BY <1>3, <2>1, <2>2
  <2>4. Begun(Record(X, f), s) /\ Recording(X, f, Record(X, f))
    BY <2>1, <2>3, BegunGrows, Records
  <2>5. RowsRecorded(RowsIn(Record(X, f)))
    <3>1. CASE f.type = "activity"
      <4>1. f \in ActivityFrames /\ RowFits(RowsIn(X), f, late)
        BY <2>3, <3>1, FramesAre DEF Fits
      <4>2. RowsIn(X) \in Seq(Row) /\ RowsIn(Record(X, f)) = RecordActivity(RowsIn(X), f)
        BY <2>4, <3>1, RowsType DEF Recording
      <4>3. QED
        BY <2>1, <4>1, <4>2, RecordedRows
    <3>2. CASE f.type # "activity"
      BY <2>1, <2>4, <3>2 DEF Recording
    <3>3. QED
      BY <3>1, <3>2
  <2>6. QED
    BY <2>3, <2>4, <2>5 DEF Recording
<1> HIDE DEF S
<1>6. rs[n] \in S
  BY <1>4, <1>5, StaysIn
<1>7. QED
  BY <1>3, <1>6 DEF S

-----------------------------------------------------------------------------
(***************************************************************************)
(* What the gateway sends in one step                                      *)
(***************************************************************************)
IdsUpTo(B, n) == Ids(RowsIn(B)) \subseteq 1..n /\ \A p \in ImagesOf(B) : p.id \in 1..n
Sent(A, fs, B, late, n) ==
    /\ fs \in Seq(ContentFrames) /\ B \in Seq(AnswerParts(Row))
    /\ RowsRecorded(RowsIn(B)) /\ IdsUpTo(B, n)
    /\ Chain(A, fs, B, late)

LEMMA SentNone ==
    ASSUME NEW A \in Seq(AnswerParts(Row)), NEW late, NEW n, RowsRecorded(RowsIn(A)), IdsUpTo(A, n)
    PROVE  Sent(A, <<>>, A, late, n)
<1>1. <<>> \in Seq(ContentFrames)
  OBVIOUS
<1>2. QED
  BY <1>1, RowsRecorded(RowsIn(A)), IdsUpTo(A, n), ChainEmpty DEF Sent

LEMMA SentWider ==
    ASSUME NEW A, NEW fs, NEW B, NEW late, NEW n \in Nat, NEW m \in Nat, n <= m, Sent(A, fs, B, late, n)
    PROVE  Sent(A, fs, B, late, m)
<1>1. 1..n \subseteq 1..m
  BY n <= m
<1>2. IdsUpTo(B, m)
  BY <1>1, Sent(A, fs, B, late, n) DEF Sent, IdsUpTo
<1>3. QED
  BY <1>2, Sent(A, fs, B, late, n) DEF Sent

LEMMA SentMore ==
    ASSUME NEW A, NEW fs, NEW B, NEW late, NEW n, Sent(A, fs, B, late, n),
           NEW f \in ContentFrames, Fits(B, f, late),
           f.type \in {"activity", "image"} => f.id \in 1..n
    PROVE  /\ Sent(A, Append(fs, f), Record(B, f), late, n)
           /\ Append(fs, f) = fs \o <<f>>
           /\ Recording(B, f, Record(B, f))
<1>1. /\ fs \in Seq(ContentFrames) /\ B \in Seq(AnswerParts(Row))
      /\ RowsRecorded(RowsIn(B)) /\ IdsUpTo(B, n)
      /\ Chain(A, fs, B, late)
  BY Sent(A, fs, B, late, n) DEF Sent
<1>2. PICK new : new = Record(B, f) /\ Recording(B, f, new)
  BY <1>1, Fits(B, f, late), Records
<1>3. new \in Seq(AnswerParts(Row))
  BY <1>2 DEF Recording
<1>4. Chain(A, Append(fs, f), new, late)
  BY <1>1, <1>2, <1>3, Fits(B, f, late), ChainAppend
<1>6. RowsRecorded(RowsIn(new)) /\ Ids(RowsIn(new)) \subseteq 1..n
  <2>1. CASE f.type = "activity"
    <3>1. f \in ActivityFrames /\ RowFits(RowsIn(B), f, late) /\ f.id \in 1..n
      BY <2>1, FramesAre, Fits(B, f, late), f.type \in {"activity", "image"} => f.id \in 1..n DEF Fits
    <3>2. RowsIn(B) \in Seq(Row)
      BY <1>1, RowsType
    <3>3. RowsIn(new) = RecordActivity(RowsIn(B), f)
      BY <1>2, <2>1 DEF Recording
    <3>4. RowsRecorded(RowsIn(new)) /\ Ids(RowsIn(new)) \subseteq Ids(RowsIn(B)) \union {f.id}
      BY <1>1, <3>1, <3>2, <3>3, RecordedRows
    <3>5. QED
      BY <1>1, <3>1, <3>4 DEF IdsUpTo
  <2>2. CASE f.type # "activity"
    BY <1>1, <1>2, <2>2 DEF Recording, IdsUpTo
  <2>3. QED
    BY <2>1, <2>2
<1>7. \A p \in ImagesOf(new) : p.id \in 1..n
  <2>1. ImagesOf(new) = ImagesOf(B) \union {q \in {f} : q.type = "image" /\ q.status = "complete"}
    BY <1>2 DEF Recording
  <2>2. \A p \in ImagesOf(B) : p.id \in 1..n
    BY <1>1 DEF IdsUpTo
  <2>3. QED
    BY <2>1, <2>2, f.type \in {"activity", "image"} => f.id \in 1..n
<1>8. Append(fs, f) \in Seq(ContentFrames) /\ Append(fs, f) = fs \o <<f>>
  BY <1>1, AppendProperties, AppendIsConcat
<1>9. Sent(A, Append(fs, f), new, late, n)
  BY <1>3, <1>4, <1>6, <1>7, <1>8 DEF Sent, IdsUpTo
<1>10. QED
  BY <1>2, <1>8, <1>9

\* What Send makes of it.
LEMMA SendRecords ==
    ASSUME NEW A, NEW fs, NEW B, NEW late, NEW n, Sent(A, fs, B, late, n)
    PROVE  /\ Recorded(A, fs) = B /\ fs \in Seq(ContentFrames \union EndFrames)
           /\ \A how \in {"done", "failed", "cancelled"} :
                 /\ Recorded(A, fs \o <<[type |-> how]>>) = B
                 /\ fs \o <<[type |-> how]>> = Append(fs, [type |-> how])
                 /\ Append(fs, [type |-> how]) \in Seq(ContentFrames \union EndFrames)
<1>1. fs \in Seq(ContentFrames) /\ Chain(A, fs, B, late)
  BY Sent(A, fs, B, late, n) DEF Sent
<1>2. fs \in Seq(ContentFrames \union EndFrames)
  BY <1>1, WiderSeq
<1>3. ASSUME NEW how \in {"done", "failed", "cancelled"}
      PROVE  /\ fs \o <<[type |-> how]>> = Append(fs, [type |-> how])
             /\ Append(fs, [type |-> how]) \in Seq(ContentFrames \union EndFrames)
  <2>1. PICK end \in ContentFrames \union EndFrames : end = [type |-> how]
    BY DEF EndFrames
  <2>2. fs \o <<end>> = Append(fs, end) /\ Append(fs, end) \in Seq(ContentFrames \union EndFrames)
    BY <1>2, AppendIsConcat, AppendProperties
  <2>3. QED
    BY <2>1, <2>2
<1>4. QED
  BY <1>1, <1>2, <1>3, ChainRecorded

\* A row of the operation that goes on stays the last one.
LastIs(rows, id, op) == id \in Ids(rows) => rows[Len(rows)].id = id /\ rows[Len(rows)].op = op
LEMMA LastStays ==
    ASSUME NEW rows \in Seq(Row), NEW f \in ActivityFrames, NEW late, NEW id,
           RowsRecorded(rows), RowFits(rows, f, late), LastIs(rows, id, f.op)
    PROVE  LastIs(RecordActivity(rows, f), id, f.op)
<1>1. PICK n \in Nat : n = Len(rows) /\ (rows # <<>> => n \in 1..n)
  <2>1. Len(rows) \in Nat /\ (Len(rows) = 0 => rows = <<>>)
    BY LenProperties, EmptySeq
  <2>2. QED
    BY <2>1
<1>2. PICK new \in Seq(Row) : new = RecordActivity(rows, f)
  BY RowsRecorded(rows), RowFits(rows, f, late), RecordsRow
<1>3. CASE EndsWith(rows, f.op)
  <2>1. n \in 1..n /\ rows[n].op = f.op
    BY <1>1, <1>3 DEF EndsWith
  <2>2. PICK row : row = [rows[n] EXCEPT !.state = f.state]
    OBVIOUS
  <2>3. PutAt(rows, n, row, new)
    BY <1>1, <1>2, <1>3, <2>2, RowsRecorded(rows), RowFits(rows, f, late), RecordsRow
  <2>4. row.id = rows[n].id /\ row.op = rows[n].op
    <3>1. rows[n] \in Row
      BY <1>1, <2>1, ElementOfSeq
    <3>2. QED
      BY <2>2, <3>1 DEF Row
  <2>5. Ids(new) = Ids(rows) /\ Len(new) = n /\ new[n] = row
    <3>1. Ids(new) = Ids(rows)
      BY <2>3, <2>4, IdsPut
    <3>2. QED
      BY <1>1, <2>1, <2>3, <3>1 DEF PutAt
  <2>6. QED
    BY <1>1, <1>2, <2>1, <2>4, <2>5, LastIs(rows, id, f.op) DEF LastIs
<1>4. CASE ~EndsWith(rows, f.op)
  <2>1. id \notin Ids(rows)
    <3>1. id \in Ids(rows) => rows # <<>>
      BY <1>1 DEF Ids
    <3>2. QED
      BY <1>4, <3>1, LastIs(rows, id, f.op) DEF LastIs, EndsWith
  <2>2. PICK row : row = [id |-> f.id, op |-> f.op, state |-> f.state]
    OBVIOUS
  <2>3. Grown(rows, row, new)
    BY <1>2, <1>4, <2>2, RowsRecorded(rows), RowFits(rows, f, late), RecordsRow
  <2>4. Ids(new) = Ids(rows) \union {f.id} /\ Len(new) = n + 1 /\ new[n + 1] = row
    <3>1. Ids(new) = Ids(rows) \union {row.id}
      BY <2>3, IdsGrown
    <3>2. QED
      BY <1>1, <2>2, <2>3, <3>1 DEF Grown
  <2>5. QED
    BY <1>2, <2>1, <2>2, <2>4 DEF LastIs
<1>5. QED
  BY <1>3, <1>4
-----------------------------------------------------------------------------
(***************************************************************************)
(* The invariant                                                           *)
(***************************************************************************)
\* The screen is as far as the frames that are still on their way leave it.
ScreenInStep ==
    /\ screen.saw = "on" =>
         \E base \in Seq(AnswerParts(Row)), fs \in Seq(ContentFrames) :
            /\ Sync(base, screen, lateLabel) /\ Chain(base, fs, recorded, lateLabel)
            /\ wire = IF answerTurn = "on" THEN fs ELSE Append(fs, [type |-> answerTurn])
    /\ screen.saw \in {"done", "failed"} =>
         wire = <<>> /\ answerTurn = screen.saw /\ Finished(recorded, screen, lateLabel)
    /\ screen.saw \in {"stopped", "cancelled"} => Begun(recorded, screen)
TranscriptInv ==
    /\ TranscriptTypes /\ WellRecorded /\ SavedOnceEnded /\ ScreenInStep
    /\ answerTurn = "on" => GatewayInStep(RowsIn(recorded))

LEMMA SyncLate ==
    ASSUME NEW R, NEW s, NEW late \in BOOLEAN, NEW later \in BOOLEAN, late => later, Sync(R, s, late)
    PROVE  Sync(R, s, later)
BY late => later, Sync(R, s, late) DEF Sync, InStep

\* The screen does not change when the gateway sends.
LEMMA SendKeepsStep ==
    ASSUME TranscriptTypes, WellRecorded, ScreenInStep, wire = <<>>, answerTurn = "on",
           NEW fs, NEW n, Sent(recorded, fs, recorded', lateLabel', n),
           wire' = IF answerTurn' = "on" THEN fs ELSE Append(fs, [type |-> answerTurn']),
           screen' = screen, lateLabel' \in BOOLEAN, lateLabel => lateLabel'
    PROVE  ScreenInStep'
<1>1. /\ fs \in Seq(ContentFrames) /\ Chain(recorded, fs, recorded', lateLabel')
  BY Sent(recorded, fs, recorded', lateLabel', n) DEF Sent
<1>2. recorded \in Seq(AnswerParts(Row)) /\ screen \in ScreenSet /\ lateLabel \in BOOLEAN
  BY TranscriptTypes DEF TranscriptTypes
<1>3. ASSUME screen.saw = "on" PROVE Sync(recorded, screen, lateLabel')
  <2>1. PICK base \in Seq(AnswerParts(Row)), gs \in Seq(ContentFrames) :
           Sync(base, screen, lateLabel) /\ Chain(base, gs, recorded, lateLabel) /\ wire = gs
    BY <1>3, ScreenInStep, answerTurn = "on" DEF ScreenInStep
  <2>2. recorded = base
    <3>1. Chain(base, <<>>, recorded, lateLabel)
      BY <2>1, wire = <<>>
    <3>2. QED
      BY <3>1, ChainEmpty
  <2>3. QED
    BY <1>2, <2>1, <2>2, lateLabel' \in BOOLEAN, lateLabel => lateLabel', SyncLate
<1>4. screen.saw \notin {"done", "failed"}
  BY ScreenInStep, answerTurn = "on" DEF ScreenInStep
<1>5. screen.saw \in {"stopped", "cancelled"} => Begun(recorded', screen)
  <2>1. RowsRecorded(RowsIn(recorded))
    BY WellRecorded DEF WellRecorded
  <2>2. QED
    BY <1>1, <1>2, <2>1, ScreenInStep, ChainBegun DEF ScreenInStep
<1>6. screen.saw = "on" =>
         \E base \in Seq(AnswerParts(Row)), gs \in Seq(ContentFrames) :
            /\ Sync(base, screen, lateLabel') /\ Chain(base, gs, recorded', lateLabel')
            /\ wire' = IF answerTurn' = "on" THEN gs ELSE Append(gs, [type |-> answerTurn'])
  BY <1>1, <1>2, <1>3, wire' = IF answerTurn' = "on" THEN fs ELSE Append(fs, [type |-> answerTurn'])
<1>7. QED
  BY <1>4, <1>5, <1>6, screen' = screen DEF ScreenInStep

-----------------------------------------------------------------------------
(***************************************************************************)
(* Each step keeps it                                                      *)
(***************************************************************************)
LEMMA NothingRecorded ==
    /\ \A type : PartAt(<<>>, type) = 0 /\ OfType(<<>>, type) = <<>>
    /\ RowsIn(<<>>) = <<>> /\ ImagesOf(<<>>) = {} /\ Ids(<<>>) = {} /\ RowsRecorded(<<>>)
<1>1. <<>> \in Seq(AnyPart) /\ Len(<<>>) = 0 /\ 1..0 = {}
  OBVIOUS
<1>2. \A type : PartAt(<<>>, type) = 0
  BY <1>1, PartPlace
<1>3. \A type : OfType(<<>>, type) = <<>>
  BY <1>1, <1>2, NoneOfType
<1>4. ImagesOf(<<>>) = {}
  <2>1. \A p : ~ImageIn(<<>>, p)
    BY <1>1 DEF ImageIn
  <2>2. QED
    BY <1>1, <2>1, ImagesAre
<1>5. QED
  BY <1>1, <1>2, <1>3, <1>4 DEF RowsIn, Ids, RowsRecorded, NoIdTwice

LEMMA TranscriptStarts ==
    ASSUME TranscriptInit
    PROVE  TranscriptInv
<1>1. /\ calls = 0 /\ lateLabel = FALSE /\ call = NoCallYet /\ held = NoActivity
      /\ pieces = 0 /\ answerTurn = "on"
      /\ recorded = <<>> /\ stored = NotSaved /\ wire = <<>> /\ screen = BlankScreen
  BY TranscriptInit DEF TranscriptInit
<1>2. /\ screen.rows = <<>> /\ screen.parts = <<>> /\ screen.grids = <<>> /\ screen.access = <<>>
      /\ screen.saw = "on"
  BY <1>1 DEF BlankScreen
<1>3. \A S : <<>> \in Seq(S)
  OBVIOUS
<1>4. screen \in ScreenSet
  BY <1>1, <1>3 DEF BlankScreen, ScreenSet
<1>5. TranscriptTypes
  <2>1. calls \in 0..MaxCalls /\ pieces \in 0..MaxPieces
    BY <1>1, TranscriptAssumption
  <2>2. call \in CallSet /\ held \in HeldSet
    BY <1>1 DEF CallSet, HeldSet
  <2>3. recorded \in Seq(AnswerParts(Row)) /\ wire \in Seq(ContentFrames \union EndFrames)
    BY <1>1, <1>3
  <2>4. lateLabel \in BOOLEAN /\ answerTurn \in {"on", "done", "failed", "cancelled"}
    BY <1>1
  <2>5. QED
    BY <1>4, <2>1, <2>2, <2>3, <2>4 DEF TranscriptTypes
<1>6. WellRecorded
  BY <1>1, NothingRecorded DEF WellRecorded, OneGrid
<1>7. InStep(<<>>, <<>>, FALSE)
  <2>1. Len(<<>>) = 0 /\ 1..0 = {} /\ 1..(0 - 1) = {}
    OBVIOUS
  <2>2. QED
    BY <2>1, NothingRecorded DEF InStep, NoIdTwice, SameRows
<1>8. Sync(recorded, screen, lateLabel)
  <2>1. Len(<<>>) <= 1
    OBVIOUS
  <2>2. QED
    BY <1>1, <1>2, <1>7, <2>1, NothingRecorded, Zenon DEF Sync
<1>9. ScreenInStep
  <2>1. recorded \in Seq(AnswerParts(Row)) /\ wire \in Seq(ContentFrames)
    BY <1>1, <1>3
  <2>2. Chain(recorded, wire, recorded, lateLabel)
    BY <1>1, <2>1, ChainEmpty
  <2>3. QED
    BY <1>1, <1>2, <1>8, <2>1, <2>2 DEF ScreenInStep
<1>10. GatewayInStep(RowsIn(recorded))
  BY <1>1, NothingRecorded DEF GatewayInStep, CallInStep, HeldInStep, Running
<1>11. QED
  BY <1>1, <1>5, <1>6, <1>9, <1>10 DEF TranscriptInv, SavedOnceEnded

\* The frame at the head of the wire is the next of the chain, or the last of the answer.
LEMMA DeliverStep ==
    ASSUME TranscriptInv, Deliver
    PROVE  TranscriptInv'
<1>1. /\ TranscriptTypes /\ WellRecorded /\ SavedOnceEnded /\ ScreenInStep
      /\ answerTurn = "on" => GatewayInStep(RowsIn(recorded))
  BY TranscriptInv DEF TranscriptInv
<1>2. /\ wire # <<>> /\ wire' = Tail(wire)
      /\ screen' = IF screen.saw = "on" THEN Show(screen, Head(wire)) ELSE screen
      /\ UNCHANGED <<calls, lateLabel, call, held, pieces, answerTurn, recorded, stored>>
  BY Deliver DEF Deliver
<1>3. /\ recorded \in Seq(AnswerParts(Row)) /\ wire \in Seq(ContentFrames \union EndFrames)
      /\ screen \in ScreenSet /\ lateLabel \in BOOLEAN
      /\ answerTurn \in {"on", "done", "failed", "cancelled"}
  BY <1>1 DEF TranscriptTypes
<1>4. wire' \in Seq(ContentFrames \union EndFrames)
  BY <1>2, <1>3, HeadTailProperties
<1>5. screen' \in ScreenSet /\ ScreenInStep'
  <2>1. CASE screen.saw # "on"
    <3>1. screen.saw \in {"stopped", "done", "failed", "cancelled"}
      BY <1>3, <2>1 DEF ScreenSet
    <3>2. screen.saw \in {"stopped", "cancelled"}
      BY <1>1, <1>2, <3>1 DEF ScreenInStep
    <3>3. Begun(recorded, screen) /\ screen' = screen /\ recorded' = recorded
      BY <1>1, <1>2, <2>1, <3>2 DEF ScreenInStep
    <3>4. QED
      BY <1>3, <2>1, <3>2, <3>3 DEF ScreenInStep
  <2>2. CASE screen.saw = "on"
    <3>1. PICK base \in Seq(AnswerParts(Row)), fs \in Seq(ContentFrames) :
            /\ Sync(base, screen, lateLabel) /\ Chain(base, fs, recorded, lateLabel)
            /\ wire = IF answerTurn = "on" THEN fs ELSE Append(fs, [type |-> answerTurn])
      BY <1>1, <2>2 DEF ScreenInStep
    <3>2. screen' = Show(screen, Head(wire))
      BY <1>2, <2>2
    <3>3. CASE fs # <<>>
      <4>1. PICK f \in ContentFrames, gs \in Seq(ContentFrames) : f = Head(fs) /\ gs = Tail(fs)
        BY <3>1, <3>3, ChainTail
      <4>2. Fits(base, f, lateLabel) /\ Chain(Record(base, f), gs, recorded, lateLabel)
        BY <3>1, <3>3, <4>1, ChainTail
      <4>3. /\ Record(base, f) \in Seq(AnswerParts(Row)) /\ Show(screen, f) \in ScreenSet
            /\ Sync(Record(base, f), Show(screen, f), lateLabel) /\ Show(screen, f).saw = screen.saw
        BY <1>3, <3>1, <4>2, FrameStep
      <4>4. /\ Head(wire) = f
            /\ wire' = IF answerTurn = "on" THEN gs ELSE Append(gs, [type |-> answerTurn])
        <5>1. CASE answerTurn = "on"
          BY <1>2, <3>1, <4>1, <5>1
        <5>2. CASE answerTurn # "on"
          <6>1. PICK end \in EndFrames : end = [type |-> answerTurn]
            BY <1>3, <5>2 DEF EndFrames
          <6>2. wire = Append(fs, end)
            BY <3>1, <5>2, <6>1
          <6>3. fs \in Seq(ContentFrames \union EndFrames) /\ gs \in Seq(ContentFrames \union EndFrames)
            BY WiderSeq
          <6>4. Head(Append(fs, end)) = Head(fs) /\ Tail(Append(fs, end)) = Append(Tail(fs), end)
            BY <3>3, <6>3, HeadTailAppend
          <6>5. QED
            BY <1>2, <4>1, <5>2, <6>1, <6>2, <6>4
        <5>3. QED
          BY <5>1, <5>2
      <4>5. screen' = Show(screen, f)
        BY <3>2, <4>4
      <4>6. PICK next \in Seq(AnswerParts(Row)) : next = Record(base, f)
        BY <4>3
      <4>7. /\ Sync(next, screen', lateLabel') /\ Chain(next, gs, recorded', lateLabel')
            /\ wire' = IF answerTurn' = "on" THEN gs ELSE Append(gs, [type |-> answerTurn'])
        BY <1>2, <4>2, <4>3, <4>4, <4>5, <4>6
      <4>8. screen'.saw = "on" /\ screen' \in ScreenSet
        BY <2>2, <4>3, <4>5
      <4>9. QED
        BY <4>7, <4>8 DEF ScreenInStep
    <3>4. CASE fs = <<>>
      <4>1. answerTurn # "on"
        BY <1>2, <3>1, <3>4
      <4>2. PICK end : end = [type |-> answerTurn]
        OBVIOUS
      <4>3. wire = <<end>> /\ Head(wire) = end /\ Tail(wire) = <<>>
        <5>1. wire = Append(<<>>, end)
          BY <3>1, <3>4, <4>1, <4>2
        <5>2. Append(<<>>, end) = <<end>> /\ Head(<<end>>) = end /\ Tail(<<end>>) = <<>>
          OBVIOUS
        <5>3. QED
          BY <5>1, <5>2
      <4>4. recorded = base
        <5>1. Chain(base, <<>>, recorded, lateLabel)
          BY <3>1, <3>4
        <5>2. QED
          BY <5>1, ChainEmpty
      <4>5. Sync(recorded, screen, lateLabel) /\ screen' = Show(screen, end) /\ wire' = <<>>
        BY <1>2, <3>1, <3>2, <4>3, <4>4
      <4>6. CASE answerTurn = "done"
        <5>1. Show(screen, end) = ShowDone(screen)
          BY <4>2, <4>6 DEF Show
        <5>2. screen' \in ScreenSet /\ screen'.saw = "done" /\ Finished(recorded, screen', lateLabel)
          BY <1>3, <4>5, <5>1, ShowsDone
        <5>3. QED
          BY <1>2, <4>5, <4>6, <5>2 DEF ScreenInStep
      <4>7. CASE answerTurn = "failed"
        <5>1. screen' = ShowEnd(screen, "failed")
          BY <4>2, <4>5, <4>7 DEF Show
        <5>2. screen' \in ScreenSet /\ screen'.saw = "failed"
          BY <1>3, <5>1, ShowsEnd
        <5>3. PartAt(recorded, "products") = 0
          BY <1>1, <4>7 DEF WellRecorded
        <5>4. Finished(recorded, screen', lateLabel)
          BY <1>3, <4>5, <5>1, <5>3, FailedIsFinished
        <5>5. QED
          BY <1>2, <4>5, <4>7, <5>2, <5>4 DEF ScreenInStep
      <4>8. CASE answerTurn = "cancelled"
        <5>1. screen' = ShowEnd(screen, "cancelled")
          BY <4>2, <4>5, <4>8 DEF Show
        <5>2. screen' \in ScreenSet /\ screen'.saw = "cancelled" /\ screen'.parts = screen.parts
          BY <1>3, <5>1, ShowsEnd
        <5>3. Begun(recorded, screen)
          BY <1>3, <4>5, SyncBegun
        <5>4. Begun(recorded', screen')
          BY <1>2, <5>2, <5>3 DEF Begun
        <5>5. QED
          BY <5>2, <5>4 DEF ScreenInStep
      <4>9. QED
        BY <1>3, <4>1, <4>6, <4>7, <4>8
    <3>5. QED
      BY <3>3, <3>4
  <2>3. QED
    BY <2>1, <2>2
<1>6. TranscriptTypes' /\ WellRecorded' /\ SavedOnceEnded'
  BY <1>1, <1>2, <1>4, <1>5 DEF TranscriptTypes, WellRecorded, SavedOnceEnded
<1>7. answerTurn' = "on" => GatewayInStep(RowsIn(recorded))'
  BY <1>1, <1>2 DEF GatewayInStep, CallInStep, HeldInStep
<1>8. QED
  BY <1>5, <1>6, <1>7 DEF TranscriptInv

LEMMA StopStep ==
    ASSUME TranscriptInv, StopResponse
    PROVE  TranscriptInv'
<1>1. /\ TranscriptTypes /\ WellRecorded /\ SavedOnceEnded /\ ScreenInStep
      /\ answerTurn = "on" => GatewayInStep(RowsIn(recorded))
  BY TranscriptInv DEF TranscriptInv
<1>2. /\ screen.saw = "on" /\ screen' = ShowEnd(screen, "stopped")
      /\ UNCHANGED <<calls, lateLabel, call, held, pieces, answerTurn, recorded, stored, wire>>
  BY StopResponse DEF StopResponse
<1>3. recorded \in Seq(AnswerParts(Row)) /\ screen \in ScreenSet
  BY <1>1 DEF TranscriptTypes
<1>4. screen' \in ScreenSet /\ screen'.saw = "stopped" /\ screen'.parts = screen.parts
  BY <1>2, <1>3, ShowsEnd
<1>5. PICK base \in Seq(AnswerParts(Row)), fs \in Seq(ContentFrames) :
         /\ Sync(base, screen, lateLabel) /\ Chain(base, fs, recorded, lateLabel)
  BY <1>1, <1>2 DEF ScreenInStep
<1>6. Begun(base, screen)
  BY <1>3, <1>5, SyncBegun
<1>7. Begun(recorded, screen)
  <2>1. RowsRecorded(RowsIn(base))
    BY <1>5 DEF Sync, InStep
  <2>2. QED
    BY <1>3, <1>5, <1>6, <2>1, ChainBegun
<1>8. ScreenInStep'
  BY <1>2, <1>4, <1>7 DEF ScreenInStep, Begun
<1>9. TranscriptTypes' /\ WellRecorded' /\ SavedOnceEnded'
  BY <1>1, <1>2, <1>4 DEF TranscriptTypes, WellRecorded, SavedOnceEnded
<1>10. answerTurn' = "on" => GatewayInStep(RowsIn(recorded))'
  BY <1>1, <1>2 DEF GatewayInStep, CallInStep, HeldInStep
<1>11. QED
  BY <1>8, <1>9, <1>10 DEF TranscriptInv

\* A cancelled answer is saved as it is.
LEMMA CancelStep ==
    ASSUME TranscriptInv, CancelTurn
    PROVE  TranscriptInv'
<1>1. /\ TranscriptTypes /\ WellRecorded /\ SavedOnceEnded /\ ScreenInStep
  BY TranscriptInv DEF TranscriptInv
<1>2. /\ answerTurn = "on" /\ wire = <<>> /\ answerTurn' = "cancelled"
      /\ stored' = StoragePayload(recorded) /\ wire' = <<[type |-> "cancelled"]>>
      /\ UNCHANGED <<calls, lateLabel, call, held, pieces, recorded, screen>>
  BY CancelTurn DEF CancelTurn
<1>3. /\ recorded \in Seq(AnswerParts(Row)) /\ lateLabel \in BOOLEAN
      /\ RowsRecorded(RowsIn(recorded)) /\ IdsUpTo(recorded, calls)
  BY <1>1 DEF TranscriptTypes, WellRecorded, IdsUpTo
<1>4. Sent(recorded, <<>>, recorded', lateLabel', calls)
  BY <1>2, <1>3, SentNone
<1>5. /\ wire' = Append(<<>>, [type |-> "cancelled"])
      /\ wire' \in Seq(ContentFrames \union EndFrames)
  <2>1. [type |-> "cancelled"] \in EndFrames
    BY DEF EndFrames
  <2>2. QED
    BY <1>2, <2>1
<1>6. ScreenInStep'
  BY <1>1, <1>2, <1>3, <1>4, <1>5, SendKeepsStep
<1>7. TranscriptTypes' /\ WellRecorded' /\ SavedOnceEnded'
  BY <1>1, <1>2, <1>5 DEF TranscriptTypes, WellRecorded, SavedOnceEnded
<1>8. QED
  BY <1>2, <1>6, <1>7 DEF TranscriptInv

\* A piece of prose.
LEMMA ProseStep ==
    ASSUME TranscriptInv, WriteProse
    PROVE  TranscriptInv'
<1>1. /\ TranscriptTypes /\ WellRecorded /\ SavedOnceEnded /\ ScreenInStep
      /\ answerTurn = "on" => GatewayInStep(RowsIn(recorded))
  BY TranscriptInv DEF TranscriptInv
<1> DEFINE f == ProseFrame(pieces + 1)
<1>2. /\ answerTurn = "on" /\ pieces < MaxPieces /\ pieces' = pieces + 1
      /\ wire = <<>> /\ wire' = <<f>> /\ recorded' = Recorded(recorded, <<f>>)
      /\ UNCHANGED <<calls, lateLabel, call, held, answerTurn, stored, screen>>
  BY WriteProse DEF WriteProse, Send
<1>3. /\ recorded \in Seq(AnswerParts(Row)) /\ lateLabel \in BOOLEAN /\ pieces \in 0..MaxPieces
      /\ RowsRecorded(RowsIn(recorded)) /\ IdsUpTo(recorded, calls)
  BY <1>1 DEF TranscriptTypes, WellRecorded, IdsUpTo
<1>4. f \in ContentFrames /\ f.type = "chunk"
  <2>1. pieces + 1 \in 1..MaxPieces
    BY <1>2, <1>3, TranscriptAssumption
  <2>2. QED
    BY <2>1 DEF ProseFrame, ContentFrames, ProseFrames
<1> HIDE DEF f
<1>5. Fits(recorded, f, lateLabel)
  BY <1>4 DEF Fits
<1>6. PICK B : B = Record(recorded, f)
  OBVIOUS
<1>7. Sent(recorded, <<f>>, B, lateLabel, calls) /\ Recording(recorded, f, B)
  <2>1. Sent(recorded, <<>>, recorded, lateLabel, calls)
    BY <1>3, SentNone
  <2>2. Append(<<>>, f) = <<f>>
    OBVIOUS
  <2>3. QED
    BY <1>4, <1>5, <1>6, <2>1, <2>2, SentMore
<1>8. recorded' = B /\ wire' \in Seq(ContentFrames \union EndFrames)
  BY <1>2, <1>7, SendRecords
<1>9. ScreenInStep'
  BY <1>1, <1>2, <1>3, <1>7, <1>8, SendKeepsStep
<1>10. /\ B \in Seq(AnswerParts(Row)) /\ RowsIn(B) = RowsIn(recorded) /\ ImagesOf(B) = ImagesOf(recorded)
       /\ PartAt(B, "products") = 0
  BY <1>1, <1>2, <1>4, <1>7 DEF Recording, WellRecorded
<1>11. OneGrid(B)
  BY <1>10, PartPlace, PartsWiden DEF OneGrid
<1>12. pieces' \in 0..MaxPieces
  BY <1>2, <1>3, TranscriptAssumption
<1>13. TranscriptTypes' /\ WellRecorded' /\ SavedOnceEnded'
  <2>1. TranscriptTypes'
    BY <1>1, <1>2, <1>8, <1>10, <1>12 DEF TranscriptTypes
  <2>2. WellRecorded'
    BY <1>1, <1>2, <1>8, <1>10, <1>11 DEF WellRecorded
  <2>3. SavedOnceEnded'
    BY <1>1, <1>2 DEF SavedOnceEnded
  <2>4. QED
    BY <2>1, <2>2, <2>3
<1>14. GatewayInStep(RowsIn(recorded))'
  BY <1>1, <1>2, <1>8, <1>10 DEF GatewayInStep, CallInStep, HeldInStep
<1>15. QED
  BY <1>9, <1>13, <1>14 DEF TranscriptInv

\* One more row, and what is known of it.
RowSent(B, f, new) ==
    /\ new \in Seq(AnswerParts(Row)) /\ ImagesOf(new) = ImagesOf(B)
    /\ PartAt(new, "products") = 0 <=> PartAt(B, "products") = 0
    /\ EndsWith(RowsIn(new), f.op) /\ (Running(RowsIn(new)) => f.state = "running")
    /\ LastIs(RowsIn(new), f.id, f.op)
    /\ \A id : LastIs(RowsIn(B), id, f.op) => LastIs(RowsIn(new), id, f.op)

LEMMA SentRow ==
    ASSUME NEW A, NEW fs, NEW B, NEW late, NEW n, Sent(A, fs, B, late, n),
           NEW f \in ActivityFrames, RowFits(RowsIn(B), f, late), f.id \in 1..n
    PROVE  \E new : Sent(A, fs \o <<f>>, new, late, n) /\ RowSent(B, f, new)
<1>1. f \in ContentFrames /\ f.type = "activity"
  BY DEF ContentFrames, ActivityFrames
<1>2. Fits(B, f, late)
  BY <1>1, RowFits(RowsIn(B), f, late) DEF Fits
<1>3. PICK new : new = Record(B, f)
  OBVIOUS
<1>4. Sent(A, fs \o <<f>>, new, late, n) /\ Recording(B, f, new)
  BY <1>1, <1>2, <1>3, Sent(A, fs, B, late, n), f.id \in 1..n, SentMore
<1>5. B \in Seq(AnswerParts(Row)) /\ RowsRecorded(RowsIn(B))
  BY Sent(A, fs, B, late, n) DEF Sent
<1>6. PICK rows \in Seq(Row) : rows = RowsIn(B)
  BY <1>5, RowsType
<1>0. PICK after : after = RecordActivity(rows, f)
  OBVIOUS
<1>7. RowsIn(new) = after
  BY <1>0, <1>1, <1>4, <1>6 DEF Recording
<1>8. RowFits(rows, f, late) /\ RowsRecorded(rows)
  BY <1>5, <1>6, RowFits(RowsIn(B), f, late)
<1>9. /\ EndsWith(after, f.op) /\ (Running(after) => f.state = "running")
      /\ f.id \in Ids(after) => after[Len(after)].id = f.id
  BY <1>0, <1>6, <1>8, RecordedRows
<1>10. LastIs(after, f.id, f.op)
  BY <1>9 DEF LastIs, EndsWith
<1>11. \A id : LastIs(rows, id, f.op) => LastIs(after, id, f.op)
  BY <1>0, <1>6, <1>8, LastStays
<1>12. /\ new \in Seq(AnswerParts(Row)) /\ ImagesOf(new) = ImagesOf(B)
       /\ PartAt(new, "products") = 0 <=> PartAt(B, "products") = 0
  <2>1. {q \in {f} : q.type = "image" /\ q.status = "complete"} = {}
    BY <1>1
  <2>2. QED
    BY <1>1, <1>4, <2>1 DEF Recording
<1>13. RowSent(B, f, new)
  BY <1>0, <1>6, <1>7, <1>9, <1>10, <1>11, <1>12 DEF RowSent
<1>14. QED
  BY <1>4, <1>13

\* A frame that is none of the timeline.
IdFits(f, n) == f.type = "image" => f.id \in 1..n
LEMMA SentOther ==
    ASSUME NEW A, NEW fs, NEW B, NEW late, NEW n, Sent(A, fs, B, late, n),
           NEW f \in ContentFrames, f.type # "activity", Fits(B, f, late),
           IdFits(f, n)
    PROVE  \E new : /\ Sent(A, fs \o <<f>>, new, late, n) /\ Recording(B, f, new)
                    /\ new \in Seq(AnswerParts(Row)) /\ RowsIn(new) = RowsIn(B)
<1>1. PICK new : new = Record(B, f)
  OBVIOUS
<1>2. f.type \in {"activity", "image"} => f.id \in 1..n
  BY f.type # "activity", IdFits(f, n) DEF IdFits
<1>3. Sent(A, fs \o <<f>>, new, late, n) /\ Recording(B, f, new)
  BY <1>1, <1>2, Fits(B, f, late), Sent(A, fs, B, late, n), SentMore
<1>4. new \in Seq(AnswerParts(Row)) /\ RowsIn(new) = RowsIn(B)
  BY <1>3, f.type # "activity" DEF Recording
<1>5. QED
  BY <1>3, <1>4

LEMMA NoGrid ==
    ASSUME NEW B \in Seq(AnswerParts(Row)), PartAt(B, "products") = 0
    PROVE  OneGrid(B)
BY PartAt(B, "products") = 0, PartPlace, PartsWiden DEF OneGrid

\* The parts of the gateway's own state.
LEMMA GatewayFacts ==
    ASSUME TranscriptInv, answerTurn = "on"
    PROVE  /\ TranscriptTypes /\ WellRecorded /\ SavedOnceEnded /\ ScreenInStep
           /\ GatewayInStep(RowsIn(recorded))
           /\ recorded \in Seq(AnswerParts(Row)) /\ RowsIn(recorded) \in Seq(Row)
           /\ RowsRecorded(RowsIn(recorded)) /\ IdsUpTo(recorded, calls)
           /\ PartAt(recorded, "products") = 0 /\ calls \in Nat /\ calls <= MaxCalls
           /\ \A late : Sent(recorded, <<>>, recorded, late, calls)
<1>1. /\ TranscriptTypes /\ WellRecorded /\ SavedOnceEnded /\ ScreenInStep
      /\ GatewayInStep(RowsIn(recorded))
  BY TranscriptInv, answerTurn = "on" DEF TranscriptInv
<1>2. /\ recorded \in Seq(AnswerParts(Row)) /\ calls \in 0..MaxCalls
      /\ RowsRecorded(RowsIn(recorded)) /\ IdsUpTo(recorded, calls)
      /\ PartAt(recorded, "products") = 0
  BY <1>1, answerTurn = "on" DEF TranscriptTypes, WellRecorded, IdsUpTo
<1>3. RowsIn(recorded) \in Seq(Row)
  BY <1>2, RowsType
<1>4. calls \in Nat /\ calls <= MaxCalls
  BY <1>2, TranscriptAssumption
<1>5. QED
  BY <1>1, <1>2, <1>3, <1>4, SentNone

\* What was held back is sent.
LEMMA HeldSent ==
    ASSUME TranscriptInv, answerTurn = "on", call = NoCallYet, held # NoActivity,
           NEW late \in BOOLEAN, lateLabel => late
    PROVE  \E B \in Seq(AnswerParts(Row)) :
              /\ Sent(recorded, <<held>>, B, late, calls)
              /\ PartAt(B, "products") = 0 /\ ~Running(RowsIn(B))
<1>1. /\ TranscriptTypes /\ GatewayInStep(RowsIn(recorded))
      /\ recorded \in Seq(AnswerParts(Row)) /\ PartAt(recorded, "products") = 0
      /\ Sent(recorded, <<>>, recorded, late, calls)
  BY TranscriptInv, answerTurn = "on", GatewayFacts
<1>2. PICK f : f = held
  OBVIOUS
<1>3. f \in ActivityFrames /\ f.state # "running"
  <2>1. held \in HeldSet
    BY <1>1 DEF TranscriptTypes
  <2>2. QED
    BY <1>2, <2>1, held # NoActivity DEF HeldSet, ActivityFrames, RowStates
<1>4. /\ HeldInStep(RowsIn(recorded))
      /\ Running(RowsIn(recorded)) => EndsWith(RowsIn(recorded), f.op)
  BY <1>1, <1>2, call = NoCallYet DEF GatewayInStep
<1>5. f.id \in 1..calls /\ RowFits(RowsIn(recorded), f, late)
  BY <1>2, <1>4, held # NoActivity, lateLabel => late DEF HeldInStep, RowFits
<1>6. PICK B : Sent(recorded, <<>> \o <<f>>, B, late, calls) /\ RowSent(recorded, f, B)
  BY <1>1, <1>3, <1>5, SentRow
<1>7. <<>> \o <<f>> = <<f>>
  OBVIOUS
<1>8. Sent(recorded, <<held>>, B, late, calls)
  BY <1>2, <1>6, <1>7
<1>9. B \in Seq(AnswerParts(Row)) /\ PartAt(B, "products") = 0 /\ ~Running(RowsIn(B))
  BY <1>1, <1>3, <1>6 DEF RowSent
<1>10. QED
  BY <1>8, <1>9

\* A step of the turn that sends frames.
LEMMA GatewaySends ==
    ASSUME TranscriptInv, answerTurn = "on",
           NEW fs, NEW B, Sent(recorded, fs, B, lateLabel', calls'), Send(fs),
           PartAt(B, "products") = 0, lateLabel' \in BOOLEAN, lateLabel => lateLabel',
           calls' \in 0..MaxCalls, call' \in CallSet, held' \in HeldSet, pieces' = pieces,
           answerTurn' = answerTurn, stored' = stored, screen' = screen,
           recorded' = B => GatewayInStep(RowsIn(recorded))'
    PROVE  TranscriptInv'
<1>1. TranscriptTypes /\ WellRecorded /\ SavedOnceEnded /\ ScreenInStep
  BY TranscriptInv, answerTurn = "on", GatewayFacts
<1>2. wire = <<>> /\ wire' = fs /\ recorded' = Recorded(recorded, fs)
  BY Send(fs) DEF Send
<1>3. recorded' = B /\ fs \in Seq(ContentFrames \union EndFrames)
  BY <1>2, Sent(recorded, fs, B, lateLabel', calls'), SendRecords
<1>4. B \in Seq(AnswerParts(Row)) /\ RowsRecorded(RowsIn(B)) /\ IdsUpTo(B, calls')
  BY Sent(recorded, fs, B, lateLabel', calls') DEF Sent
<1>5. ScreenInStep'
  <2>1. Sent(recorded, fs, recorded', lateLabel', calls')
    BY <1>3, Sent(recorded, fs, B, lateLabel', calls')
  <2>2. wire' = IF answerTurn' = "on" THEN fs ELSE Append(fs, [type |-> answerTurn'])
    BY <1>2, answerTurn = "on", answerTurn' = answerTurn
  <2>3. QED
    BY <1>1, <1>2, <2>1, <2>2, answerTurn = "on", screen' = screen, lateLabel' \in BOOLEAN,
       lateLabel => lateLabel', SendKeepsStep
<1>6. TranscriptTypes'
  BY <1>1, <1>2, <1>3, <1>4, lateLabel' \in BOOLEAN, calls' \in 0..MaxCalls, call' \in CallSet,
     held' \in HeldSet, pieces' = pieces, answerTurn' = answerTurn, screen' = screen DEF TranscriptTypes
<1>7. WellRecorded'
  <2>1. OneGrid(B)
    BY <1>4, PartAt(B, "products") = 0, NoGrid
  <2>2. QED
    BY <1>3, <1>4, <2>1, PartAt(B, "products") = 0 DEF WellRecorded, IdsUpTo
<1>8. SavedOnceEnded'
  BY <1>1, answerTurn = "on", answerTurn' = answerTurn, stored' = stored DEF SavedOnceEnded
<1>9. GatewayInStep(RowsIn(recorded))'
  BY <1>3, recorded' = B => GatewayInStep(RowsIn(recorded))'
<1>10. QED
  BY <1>5, <1>6, <1>7, <1>8, <1>9 DEF TranscriptInv

\* What is sent before a call of the operation.
LEMMA Released ==
    ASSUME TranscriptInv, answerTurn = "on", call = NoCallYet, NEW op,
           NEW late \in BOOLEAN, lateLabel => late
    PROVE  \E B \in Seq(AnswerParts(Row)) :
              /\ Sent(recorded, Release(op), B, late, calls) /\ PartAt(B, "products") = 0
              /\ Release(op) # <<>> \/ held = NoActivity => ~Running(RowsIn(B))
              /\ Release(op) = <<>> /\ held # NoActivity =>
                    /\ B = recorded /\ held.op = op
                    /\ Running(RowsIn(B)) => EndsWith(RowsIn(B), op)
<1>1. /\ GatewayInStep(RowsIn(recorded)) /\ recorded \in Seq(AnswerParts(Row))
      /\ PartAt(recorded, "products") = 0 /\ Sent(recorded, <<>>, recorded, late, calls)
  BY TranscriptInv, answerTurn = "on", GatewayFacts
<1>2. Running(RowsIn(recorded)) => held # NoActivity /\ EndsWith(RowsIn(recorded), held.op)
  BY <1>1, call = NoCallYet DEF GatewayInStep
<1>3. CASE held = NoActivity
  <2>1. Release(op) = <<>>
    BY <1>3 DEF Release
  <2>2. QED
    BY <1>1, <1>2, <1>3, <2>1
<1>4. CASE held # NoActivity /\ held.op = op
  <2>1. Release(op) = <<>>
    BY <1>4 DEF Release
  <2>2. QED
    BY <1>1, <1>2, <1>4, <2>1
<1>5. CASE held # NoActivity /\ held.op # op
  <2>1. Release(op) = <<held>> /\ <<held>> # <<>>
    BY <1>5 DEF Release
  <2>2. PICK B \in Seq(AnswerParts(Row)) :
          /\ Sent(recorded, <<held>>, B, late, calls)
          /\ PartAt(B, "products") = 0 /\ ~Running(RowsIn(B))
    BY <1>5, TranscriptInv, answerTurn = "on", call = NoCallYet, late \in BOOLEAN, lateLabel => late, HeldSent
  <2>3. QED
    BY <2>1, <2>2
<1>6. QED
  BY <1>3, <1>4, <1>5

\* The announcement of a call.
Announced(B, id, op, labels, new) ==
    /\ new \in Seq(AnswerParts(Row)) /\ PartAt(new, "products") = 0 /\ ImagesOf(new) = ImagesOf(B)
    /\ labels = "always" => EndsWith(RowsIn(new), op) /\ LastIs(RowsIn(new), id, op)
                            /\ \A i : LastIs(RowsIn(B), i, op) => LastIs(RowsIn(new), i, op)
    /\ labels # "always" => new = B
LEMMA Announces ==
    ASSUME NEW A, NEW fs, NEW B, NEW late, NEW n \in 1..MaxCalls, Sent(A, fs, B, late, n),
           PartAt(B, "products") = 0,
           NEW op \in Operations, NEW labels, n \notin Ids(RowsIn(B)),
           Running(RowsIn(B)) => EndsWith(RowsIn(B), op)
    PROVE  \E new : /\ Announced(B, n, op, labels, new)
                    /\ Sent(A, fs \o (IF labels = "always" THEN <<ActivityFrame(n, op, "running")>>
                                      ELSE <<>>), new, late, n)
<1>1. B \in Seq(AnswerParts(Row)) /\ fs \in Seq(ContentFrames)
  BY Sent(A, fs, B, late, n) DEF Sent
<1>2. CASE labels = "always"
  <2>1. PICK f : f = ActivityFrame(n, op, "running")
    OBVIOUS
  <2>2. f \in ActivityFrames /\ f.id = n /\ f.op = op /\ f.state = "running"
    BY <2>1 DEF ActivityFrame, ActivityFrames, RowStates
  <2>3. RowFits(RowsIn(B), f, late)
    BY <2>2, n \notin Ids(RowsIn(B)), Running(RowsIn(B)) => EndsWith(RowsIn(B), op) DEF RowFits
  <2>4. f.id \in 1..n
    BY <2>2, TranscriptAssumption
  <2>5. PICK new : Sent(A, fs \o <<f>>, new, late, n) /\ RowSent(B, f, new)
    BY <2>2, <2>3, <2>4, Sent(A, fs, B, late, n), SentRow
  <2>6. Announced(B, n, op, labels, new)
    BY <1>2, <2>2, <2>5, PartAt(B, "products") = 0 DEF RowSent, Announced
  <2>7. QED
    BY <1>2, <2>1, <2>5, <2>6
<1>3. CASE labels # "always"
  <2>1. fs \o <<>> = fs
    BY <1>1, ConcatEmptySeq
  <2>2. Announced(B, n, op, labels, B)
    BY <1>1, <1>3, PartAt(B, "products") = 0 DEF Announced
  <2>3. QED
    BY <1>3, <2>1, <2>2, Sent(A, fs, B, late, n)
<1>4. QED
  BY <1>2, <1>3

\* A call is announced.
LEMMA StartCallStep ==
    ASSUME TranscriptInv, NEW op \in Operations, NEW kind \in Kinds,
           NEW labels \in {"always", "at_end", "never"}, StartCall(op, kind, labels)
    PROVE  TranscriptInv'
<1> DEFINE run == IF labels = "always" THEN <<ActivityFrame(calls + 1, op, "running")>> ELSE <<>>
           picture == IF kind = "image" THEN <<Image(calls + 1, "generating")>> ELSE <<>>
           kept == IF Release(op) = <<>> THEN held ELSE NoActivity
<1>1. /\ answerTurn = "on" /\ call = NoCallYet /\ calls < MaxCalls
      /\ calls' = calls + 1 /\ lateLabel' = (lateLabel \/ labels = "at_end")
      /\ call' = [id |-> calls + 1, op |-> op, kind |-> kind, labels |-> labels]
      /\ held' = kept
      /\ Send(Release(op) \o run \o picture)
      /\ pieces' = pieces /\ answerTurn' = answerTurn /\ stored' = stored /\ screen' = screen
  BY StartCall(op, kind, labels) DEF StartCall
<1>2. /\ TranscriptTypes /\ GatewayInStep(RowsIn(recorded)) /\ calls \in Nat
      /\ recorded \in Seq(AnswerParts(Row)) /\ IdsUpTo(recorded, calls)
  BY <1>1, TranscriptInv, GatewayFacts
<1>3. lateLabel \in BOOLEAN /\ held \in HeldSet
  BY <1>2 DEF TranscriptTypes
<1>4. PICK late \in BOOLEAN, n \in 1..MaxCalls :
         late = lateLabel' /\ n = calls + 1 /\ (lateLabel => late) /\ (labels = "at_end" => late)
  <2>1. calls + 1 \in 1..MaxCalls
    BY <1>1, <1>2, TranscriptAssumption
  <2>2. QED
    BY <1>1, <1>3, <2>1
<1>5. PICK B \in Seq(AnswerParts(Row)) :
         /\ Sent(recorded, Release(op), B, late, calls) /\ PartAt(B, "products") = 0
         /\ Release(op) # <<>> \/ held = NoActivity => ~Running(RowsIn(B))
         /\ Release(op) = <<>> /\ held # NoActivity =>
               /\ B = recorded /\ held.op = op
               /\ Running(RowsIn(B)) => EndsWith(RowsIn(B), op)
  BY <1>1, <1>4, TranscriptInv, Released
<1>6. /\ Running(RowsIn(B)) => kept # NoActivity /\ EndsWith(RowsIn(B), op)
      /\ kept # NoActivity => kept = held /\ held.op = op /\ B = recorded
  BY <1>5
<1>7. Sent(recorded, Release(op), B, late, n) /\ n \in Nat
  <2>1. n \in Nat /\ calls <= n
    BY <1>2, <1>4
  <2>2. QED
    BY <1>2, <1>5, <2>1, SentWider
<1>8. n \notin Ids(RowsIn(B)) /\ \A p \in ImagesOf(B) : p.id # n
  <2>1. IdsUpTo(B, calls)
    BY <1>5 DEF Sent
  <2>2. n \notin 1..calls
    BY <1>2, <1>4
  <2>3. QED
    BY <2>1, <2>2 DEF IdsUpTo
<1>9. PICK C : Announced(B, n, op, labels, C) /\ Sent(recorded, Release(op) \o run, C, late, n)
  BY <1>4, <1>5, <1>6, <1>7, <1>8, Announces
<1> HIDE DEF run, kept
<1>10. /\ C \in Seq(AnswerParts(Row)) /\ PartAt(C, "products") = 0 /\ ImagesOf(C) = ImagesOf(B)
       /\ Release(op) \o run \in Seq(ContentFrames)
  BY <1>9 DEF Announced, Sent
<1>11. PICK D : /\ Sent(recorded, Release(op) \o run \o picture, D, late, n)
                /\ D \in Seq(AnswerParts(Row)) /\ RowsIn(D) = RowsIn(C)
                /\ ImagesOf(D) = ImagesOf(C) /\ PartAt(D, "products") = 0
  <2>1. CASE kind = "image"
    <3>1. PICK f : f = Image(n, "generating")
      OBVIOUS
    <3>2. f \in ContentFrames /\ f.type = "image" /\ f.id = n /\ f.status # "complete"
      BY <3>1 DEF Image, ContentFrames, ImageParts
    <3>3. Fits(C, f, late)
      BY <1>8, <1>10, <3>2 DEF Fits
    <3>4. IdFits(f, n) /\ f.type # "activity"
      BY <1>7, <3>2, <1>4 DEF IdFits
    <3>5. PICK new : /\ Sent(recorded, (Release(op) \o run) \o <<f>>, new, late, n) /\ Recording(C, f, new)
                     /\ new \in Seq(AnswerParts(Row)) /\ RowsIn(new) = RowsIn(C)
      BY <1>9, <3>2, <3>3, <3>4, SentOther
    <3>6. {q \in {f} : q.type = "image" /\ q.status = "complete"} = {}
      BY <3>2
    <3>7. ImagesOf(new) = ImagesOf(C) /\ PartAt(new, "products") = 0
      BY <1>10, <3>2, <3>5, <3>6 DEF Recording
    <3>8. picture = <<f>>
      BY <1>4, <2>1, <3>1
    <3>9. QED
      BY <3>5, <3>7, <3>8
  <2>2. CASE kind # "image"
    <3>1. (Release(op) \o run) \o <<>> = Release(op) \o run
      BY <1>10, ConcatEmptySeq
    <3>2. QED
      BY <1>9, <1>10, <2>2, <3>1
  <2>3. QED
    BY <2>1, <2>2
<1> HIDE DEF picture
<1>12. /\ call' \in CallSet /\ held' \in HeldSet /\ calls' \in 0..MaxCalls
       /\ call' # NoCallYet
  <2>1. call' = [id |-> n, op |-> op, kind |-> kind, labels |-> labels]
    BY <1>1, <1>4
  <2>2. call' \in CallSet
    BY <2>1 DEF CallSet
  <2>3. held' \in HeldSet
    BY <1>1, <1>3 DEF kept, HeldSet
  <2>4. calls' = n /\ n \in 0..MaxCalls
    BY <1>1, <1>4, TranscriptAssumption
  <2>5. call' # NoCallYet
    <3>1. n # 0
      BY <1>4, TranscriptAssumption
    <3>2. NoCallYet.id = 0 /\ call'.id = n
      BY <2>1 DEF NoCallYet
    <3>3. QED
      BY <3>1, <3>2
  <2>6. QED
    BY <2>2, <2>3, <2>4, <2>5
<1>13. ASSUME recorded' = D PROVE GatewayInStep(RowsIn(recorded))'
  <2>1. PICK rows : rows = RowsIn(D)
    OBVIOUS
  <2>2. /\ labels = "always" => EndsWith(rows, op) /\ LastIs(rows, n, op)
        /\ labels # "always" => rows = RowsIn(B)
    BY <1>9, <1>11, <2>1 DEF Announced
  <2>3. /\ call'.id = n /\ call'.op = op /\ call'.labels = labels /\ calls' = n
    BY <1>1, <1>4
  <2>4. CallInStep(rows)'
    <3>1. labels = "always" => EndsWith(rows, op) /\ (n \in Ids(rows) => rows[Len(rows)].id = n)
      BY <2>2 DEF LastIs
    <3>2. labels # "always" => n \notin Ids(rows)
      BY <1>8, <2>2
    <3>3. labels = "at_end" => lateLabel'
      BY <1>4
    <3>4. held' # NoActivity => held'.op = op
      BY <1>1, <1>6
    <3>5. \A p \in ImagesOf(recorded') : p.id # n
      BY <1>8, <1>10, <1>11, <1>13
    <3>6. QED
      BY <2>3, <3>1, <3>2, <3>3, <3>4, <3>5 DEF CallInStep
  <2>5. HeldInStep(rows)'
    <3>1. ASSUME held' # NoActivity
          PROVE  /\ held'.id \in 1..n /\ LastIs(rows, held'.id, held'.op)
                 /\ ~late => EndsWith(rows, held'.op)
      <4>1. held' = held /\ held # NoActivity /\ held.op = op /\ B = recorded
        BY <1>1, <1>6, <3>1
      <4>2. /\ held.id \in 1..calls /\ LastIs(RowsIn(B), held.id, op)
            /\ ~lateLabel => EndsWith(RowsIn(B), op)
        BY <1>2, <4>1 DEF GatewayInStep, HeldInStep, LastIs
      <4>3. held.id \in 1..n
        BY <1>2, <1>4, <4>2
      <4>4. LastIs(rows, held.id, op)
        <5>1. CASE labels = "always"
          BY <1>9, <1>11, <2>1, <4>2, <5>1 DEF Announced
        <5>2. CASE labels # "always"
          BY <2>2, <4>2, <5>2
        <5>3. QED
          BY <5>1, <5>2
      <4>5. ~late => EndsWith(rows, op)
        BY <1>4, <2>2, <4>2
      <4>6. QED
        BY <4>1, <4>3, <4>4, <4>5
    <3>2. calls' = n /\ late = lateLabel'
      BY <1>1, <1>4
    <3>3. QED
      BY <3>1, <3>2 DEF HeldInStep, LastIs
  <2>6. ASSUME Running(rows)
        PROVE  \/ call' # NoCallYet /\ call'.labels = "always"
               \/ held' # NoActivity /\ EndsWith(rows, held'.op)
    <3>1. CASE labels = "always"
      BY <1>12, <2>3, <3>1
    <3>2. CASE labels # "always"
      <4>1. rows = RowsIn(B)
        BY <2>2, <3>2
      <4>2. kept # NoActivity /\ EndsWith(rows, op) /\ kept.op = op
        BY <1>6, <2>6, <4>1
      <4>3. QED
        BY <1>1, <4>2
    <3>3. QED
      BY <3>1, <3>2
  <2>7. (RowsIn(recorded))' = rows
    BY <1>13, <2>1
  <2>8. QED
    BY <2>4, <2>5, <2>6, <2>7 DEF GatewayInStep, CallInStep, HeldInStep
<1>14. Sent(recorded, Release(op) \o run \o picture, D, lateLabel', calls')
  BY <1>1, <1>4, <1>11
<1>15. QED
  BY <1>1, <1>4, <1>11, <1>12, <1>13, <1>14, TranscriptInv, GatewaySends

\* A call has its result.
LEMMA FinishCallStep ==
    ASSUME TranscriptInv, NEW ok \in BOOLEAN, NEW deferred \in BOOLEAN, FinishCall(ok, deferred)
    PROVE  TranscriptInv'
<1> DEFINE told == ActivityFrame(call.id, call.op, IF ok THEN "completed" ELSE "failed")
           holds == call.labels # "never" /\ (ok \/ deferred)
           last == IF call.labels # "never" /\ ~holds THEN <<told>> ELSE <<>>
<1>1. /\ call # NoCallYet /\ answerTurn = "on"
      /\ held' = IF holds THEN told ELSE held
      /\ Send(ResultFrames(ok) \o last) /\ call' = NoCallYet
      /\ calls' = calls /\ lateLabel' = lateLabel /\ pieces' = pieces
      /\ answerTurn' = answerTurn /\ stored' = stored /\ screen' = screen
  BY FinishCall(ok, deferred) DEF FinishCall
<1>2. /\ TranscriptTypes /\ GatewayInStep(RowsIn(recorded)) /\ calls \in Nat /\ calls <= MaxCalls
      /\ recorded \in Seq(AnswerParts(Row)) /\ PartAt(recorded, "products") = 0
      /\ Sent(recorded, <<>>, recorded, lateLabel, calls)
  BY <1>1, TranscriptInv, GatewayFacts
<1>3. /\ lateLabel \in BOOLEAN /\ held \in HeldSet /\ calls \in 0..MaxCalls
      /\ call \in [id : 1..MaxCalls, op : Operations, kind : Kinds, labels : {"always", "at_end", "never"}]
  BY <1>1, <1>2 DEF TranscriptTypes, CallSet
<1>4. PICK R : R = RowsIn(recorded)
  OBVIOUS
<1>5. /\ call.id = calls /\ calls \in 1..calls
      /\ call.labels = "always" => EndsWith(R, call.op) /\ (call.id \in Ids(R) => R[Len(R)].id = call.id)
      /\ call.labels # "always" => call.id \notin Ids(R)
      /\ call.labels = "at_end" => lateLabel
      /\ held # NoActivity => held.op = call.op
      /\ \A p \in ImagesOf(recorded) : p.id # call.id
  <2>1. /\ call.id = calls
        /\ call.labels = "always" => EndsWith(R, call.op) /\ (call.id \in Ids(R) => R[Len(R)].id = call.id)
        /\ call.labels # "always" => call.id \notin Ids(R)
        /\ call.labels = "at_end" => lateLabel
        /\ held # NoActivity => held.op = call.op
        /\ \A p \in ImagesOf(recorded) : p.id # call.id
    BY <1>1, <1>2, <1>4 DEF GatewayInStep, CallInStep
  <2>2. calls \in 1..calls
    BY <1>2, <1>3, <2>1, TranscriptAssumption
  <2>3. QED
    BY <2>1, <2>2
<1>6. Running(R) => EndsWith(R, call.op)
  BY <1>1, <1>2, <1>4, <1>5 DEF GatewayInStep
<1>7. PICK f : f = told
  OBVIOUS
<1>8. /\ f \in ActivityFrames /\ f.id = call.id /\ f.op = call.op /\ f.state # "running"
      /\ f \in HeldSet /\ f # NoActivity
  <2>1. f.state \in {"completed", "failed"} /\ f.id = call.id /\ f.op = call.op /\ f.type = "activity"
    BY <1>7 DEF ActivityFrame
  <2>2. f \in [type : {"activity"}, id : 1..MaxCalls, op : Operations, state : {"completed", "failed"}]
    BY <1>3, <1>7 DEF ActivityFrame
  <2>3. f \in ActivityFrames /\ f \in HeldSet
    BY <2>2 DEF ActivityFrames, HeldSet, RowStates
  <2>4. f # NoActivity
    BY <2>1 DEF NoActivity
  <2>5. QED
    BY <2>1, <2>3, <2>4
<1>9. call.labels # "never" => RowFits(R, f, lateLabel)
  <2>1. f.id \in Ids(R) => R[Len(R)].id = f.id /\ R[Len(R)].op = f.op
    BY <1>5, <1>8 DEF EndsWith
  <2>2. ASSUME call.labels # "never", ~lateLabel PROVE EndsWith(R, f.op)
    <3>1. call.labels = "always"
      BY <1>3, <1>5, <2>2
    <3>2. QED
      BY <1>5, <1>8, <3>1
  <2>3. QED
    BY <1>6, <1>8, <2>1, <2>2 DEF RowFits
<1>10. PICK B : /\ Sent(recorded, ResultFrames(ok), B, lateLabel, calls)
                /\ B \in Seq(AnswerParts(Row)) /\ RowsIn(B) = R /\ PartAt(B, "products") = 0
  <2>0. PICK none, late, parts, n : /\ none = <<>> /\ late = lateLabel /\ parts = recorded /\ n = calls
                                    /\ Sent(parts, none, parts, late, n)
    BY <1>2
  <2>6. Sent(parts, none, parts, late, n)
    BY <2>0
  <2>1. ASSUME NEW g \in ContentFrames, g.type \in {"image", "guest_order_access"},
               g.id = call.id, ResultFrames(ok) = <<g>>
        PROVE  \E new : /\ Sent(recorded, ResultFrames(ok), new, lateLabel, calls)
                        /\ new \in Seq(AnswerParts(Row)) /\ RowsIn(new) = R /\ PartAt(new, "products") = 0
    <3>1. /\ Fits(parts, g, late) /\ g.type # "activity"
          /\ IdFits(g, n)
      BY <2>0, <1>5, <2>1 DEF Fits, IdFits
    <3>2. PICK new : /\ Sent(parts, none \o <<g>>, new, late, n) /\ Recording(parts, g, new)
                     /\ new \in Seq(AnswerParts(Row)) /\ RowsIn(new) = RowsIn(parts)
      BY <2>1, <2>6, <3>1, SentOther
    <3>3. none \o <<g>> = <<g>>
      BY <2>0
    <3>4. PartAt(new, "products") = 0
      BY <1>2, <2>0, <2>1, <3>2 DEF Recording
    <3>5. QED
      BY <1>4, <2>0, <2>1, <3>2, <3>3, <3>4
  <2>2. CASE call.kind = "image"
    <3>1. PICK g : g = Image(call.id, IF ok THEN "complete" ELSE "error")
      OBVIOUS
    <3>2. g \in ContentFrames /\ g.type = "image" /\ g.id = call.id
      BY <1>3, <3>1 DEF Image, ContentFrames, ImageParts
    <3>3. ResultFrames(ok) = <<g>>
      BY <2>2, <3>1 DEF ResultFrames
    <3>4. QED
      BY <2>1, <3>2, <3>3
  <2>3. CASE call.kind # "image" /\ call.kind = "access" /\ ok
    <3>1. PICK g : g = Access(call.id)
      OBVIOUS
    <3>2. g \in ContentFrames /\ g.type = "guest_order_access"
      BY <1>3, <3>1 DEF Access, ContentFrames, AccessParts
    <3>3. ResultFrames(ok) = <<g>>
      BY <2>3, <3>1 DEF ResultFrames
    <3>4. /\ Fits(parts, g, late) /\ g.type # "activity"
          /\ IdFits(g, n)
      BY <2>0, <3>2 DEF Fits, IdFits
    <3>5. PICK new : /\ Sent(parts, none \o <<g>>, new, late, n) /\ Recording(parts, g, new)
                     /\ new \in Seq(AnswerParts(Row)) /\ RowsIn(new) = RowsIn(parts)
      BY <2>6, <3>2, <3>4, SentOther
    <3>6. none \o <<g>> = <<g>>
      BY <2>0
    <3>7. PartAt(new, "products") = 0
      BY <1>2, <2>0, <3>2, <3>5 DEF Recording
    <3>8. QED
      BY <1>4, <2>0, <3>3, <3>5, <3>6, <3>7
  <2>4. CASE call.kind # "image" /\ ~(call.kind = "access" /\ ok)
    <3>1. ResultFrames(ok) = <<>>
      BY <2>4 DEF ResultFrames
    <3>2. QED
      BY <1>2, <1>4, <3>1
  <2>5. QED
    BY <2>2, <2>3, <2>4
<1> HIDE DEF told
<1>11. PICK r : r = ResultFrames(ok) /\ r \in Seq(ContentFrames) /\ r \o <<>> = r
  BY <1>10, ConcatEmptySeq DEF Sent
<1>12. CASE holds
  <2>1. Send(r) /\ held' = f
    <3>1. Send(r \o <<>>)
      BY <1>1, <1>11, <1>12
    <3>2. QED
      BY <1>1, <1>7, <1>11, <1>12, <3>1
  <2>2. ASSUME recorded' = B PROVE GatewayInStep(RowsIn(recorded))'
    <3>1. (RowsIn(recorded))' = R
      BY <1>10, <2>2
    <3>2. CallInStep(R)'
      BY <1>1 DEF CallInStep
    <3>3. HeldInStep(R)'
      <4>1. f.id \in 1..calls
        BY <1>5, <1>8
      <4>2. f.id \in Ids(R) => R[Len(R)].id = f.id /\ R[Len(R)].op = f.op
        BY <1>9, <1>12 DEF RowFits
      <4>3. ~lateLabel => EndsWith(R, f.op)
        BY <1>8, <1>9, <1>12 DEF RowFits
      <4>4. QED
        BY <1>1, <2>1, <4>1, <4>2, <4>3 DEF HeldInStep
    <3>4. Running(R) => held' # NoActivity /\ EndsWith(R, held'.op)
      BY <1>6, <1>8, <2>1
    <3>5. QED
      BY <3>1, <3>2, <3>3, <3>4 DEF GatewayInStep, CallInStep, HeldInStep
  <2>3. Sent(recorded, r, B, lateLabel', calls') /\ held' \in HeldSet /\ call' \in CallSet
    BY <1>1, <1>8, <1>10, <1>11, <2>1 DEF CallSet
  <2>4. QED
    BY <1>1, <1>3, <1>10, <2>1, <2>2, <2>3, TranscriptInv, GatewaySends
<1>13. CASE ~holds /\ call.labels # "never"
  <2>1. Send(r \o <<f>>) /\ held' = held
    BY <1>1, <1>7, <1>11, <1>13
  <2>2. RowFits(RowsIn(B), f, lateLabel) /\ f.id \in 1..calls
    BY <1>5, <1>8, <1>9, <1>10, <1>13
  <2>3. PICK C : Sent(recorded, r \o <<f>>, C, lateLabel, calls) /\ RowSent(B, f, C)
    BY <1>8, <1>10, <1>11, <2>2, SentRow
  <2>4. PartAt(C, "products") = 0
    BY <1>10, <2>3 DEF RowSent
  <2>5. ASSUME recorded' = C PROVE GatewayInStep(RowsIn(recorded))'
    <3>1. PICK rows : rows = RowsIn(C)
      OBVIOUS
    <3>2. (RowsIn(recorded))' = rows
      BY <2>5, <3>1
    <3>3. CallInStep(rows)'
      BY <1>1 DEF CallInStep
    <3>4. HeldInStep(rows)'
      <4>1. ASSUME held # NoActivity
            PROVE  held.id \in 1..calls /\ LastIs(rows, held.id, held.op) /\ EndsWith(rows, held.op)
        <5>1. held.id \in 1..calls /\ LastIs(R, held.id, held.op) /\ held.op = f.op
          BY <1>2, <1>4, <1>5, <1>8, <4>1 DEF GatewayInStep, HeldInStep, LastIs
        <5>2. QED
          BY <1>10, <2>3, <3>1, <5>1 DEF RowSent
      <4>2. QED
        BY <1>1, <2>1, <4>1 DEF HeldInStep, LastIs
    <3>5. ~Running(rows)
      BY <1>8, <2>3, <3>1 DEF RowSent
    <3>6. QED
      BY <3>2, <3>3, <3>4, <3>5 DEF GatewayInStep, CallInStep, HeldInStep
  <2>6. Sent(recorded, r \o <<f>>, C, lateLabel', calls') /\ held' \in HeldSet /\ call' \in CallSet
    BY <1>1, <1>3, <2>1, <2>3 DEF CallSet
  <2>7. QED
    BY <1>1, <1>3, <2>1, <2>4, <2>5, <2>6, TranscriptInv, GatewaySends
<1>14. CASE call.labels = "never"
  <2>1. Send(r) /\ held' = held
    <3>1. Send(r \o <<>>)
      BY <1>1, <1>11, <1>14
    <3>2. QED
      BY <1>1, <1>11, <1>14, <3>1
  <2>2. ASSUME recorded' = B PROVE GatewayInStep(RowsIn(recorded))'
    <3>1. (RowsIn(recorded))' = R
      BY <1>10, <2>2
    <3>2. CallInStep(R)'
      BY <1>1 DEF CallInStep
    <3>3. HeldInStep(R)'
      BY <1>1, <1>2, <1>4, <2>1 DEF GatewayInStep, HeldInStep
    <3>4. Running(R) => held' # NoActivity /\ EndsWith(R, held'.op)
      BY <1>2, <1>4, <1>14, <2>1 DEF GatewayInStep
    <3>5. QED
      BY <3>1, <3>2, <3>3, <3>4 DEF GatewayInStep, CallInStep, HeldInStep
  <2>3. Sent(recorded, r, B, lateLabel', calls') /\ held' \in HeldSet /\ call' \in CallSet
    BY <1>1, <1>3, <1>10, <1>11, <2>1 DEF CallSet
  <2>4. QED
    BY <1>1, <1>3, <1>10, <2>1, <2>2, <2>3, TranscriptInv, GatewaySends
<1>15. QED
  BY <1>12, <1>13, <1>14

\* The answer ends: what was held back, the cards, the end.
LEMMA EndStep ==
    ASSUME TranscriptInv, NEW how \in {"done", "failed"}, NEW cards \in BOOLEAN, cards => how = "done",
           EndTurn((IF cards THEN <<Products(calls)>> ELSE <<>>) \o <<[type |-> how]>>, how)
    PROVE  TranscriptInv'
<1> DEFINE first == IF held = NoActivity THEN <<>> ELSE <<held>>
           grid == IF cards THEN <<Products(calls)>> ELSE <<>>
<1>1. /\ answerTurn = "on" /\ call = NoCallYet /\ answerTurn' = how /\ held' = NoActivity
      /\ Send(first \o (grid \o <<[type |-> how]>>)) /\ stored' = StoragePayload(recorded')
      /\ UNCHANGED <<calls, lateLabel, call, pieces, screen>>
  BY EndTurn((IF cards THEN <<Products(calls)>> ELSE <<>>) \o <<[type |-> how]>>, how) DEF EndTurn
<1>2. /\ TranscriptTypes /\ WellRecorded /\ ScreenInStep /\ GatewayInStep(RowsIn(recorded))
      /\ calls \in Nat /\ calls <= MaxCalls
      /\ recorded \in Seq(AnswerParts(Row)) /\ PartAt(recorded, "products") = 0
      /\ Sent(recorded, <<>>, recorded, lateLabel, calls) /\ lateLabel \in BOOLEAN
  <2>1. /\ TranscriptTypes /\ WellRecorded /\ ScreenInStep /\ GatewayInStep(RowsIn(recorded))
        /\ calls \in Nat /\ calls <= MaxCalls
        /\ recorded \in Seq(AnswerParts(Row)) /\ PartAt(recorded, "products") = 0
        /\ Sent(recorded, <<>>, recorded, lateLabel, calls)
    BY <1>1, TranscriptInv, GatewayFacts
  <2>2. lateLabel \in BOOLEAN
    BY <2>1 DEF TranscriptTypes
  <2>3. QED
    BY <2>1, <2>2
<1>3. PICK B \in Seq(AnswerParts(Row)) :
         Sent(recorded, first, B, lateLabel, calls) /\ PartAt(B, "products") = 0
  <2>1. CASE held = NoActivity
    BY <1>2, <2>1
  <2>2. CASE held # NoActivity
    <3>1. PICK new \in Seq(AnswerParts(Row)) :
             /\ Sent(recorded, <<held>>, new, lateLabel, calls) /\ PartAt(new, "products") = 0
      BY <1>1, <1>2, <2>2, TranscriptInv, HeldSent
    <3>2. QED
      BY <2>2, <3>1
  <2>3. QED
    BY <2>1, <2>2
<1> HIDE DEF first
<1>4. PICK C : /\ Sent(recorded, first \o grid, C, lateLabel, calls)
               /\ C \in Seq(AnswerParts(Row)) /\ OneGrid(C)
               /\ how # "done" => PartAt(C, "products") = 0
  <2>1. CASE cards
    <3>1. PICK f : f = Products(calls)
      OBVIOUS
    <3>2. f \in ContentFrames /\ f.type = "products"
      <4>1. calls \in 0..MaxCalls
        BY <1>2, TranscriptAssumption
      <4>2. QED
        BY <3>1, <4>1 DEF Products, ContentFrames, ProductParts
    <3>3. Fits(B, f, lateLabel) /\ f.type # "activity" /\ IdFits(f, calls)
      BY <1>3, <3>2 DEF Fits, IdFits
    <3>4. PICK new : /\ Sent(recorded, first \o <<f>>, new, lateLabel, calls) /\ Recording(B, f, new)
                     /\ new \in Seq(AnswerParts(Row)) /\ RowsIn(new) = RowsIn(B)
      BY <1>3, <3>2, <3>3, SentOther
    <3>5. OneGrid(new)
      BY <3>2, <3>4 DEF Recording
    <3>6. grid = <<f>>
      BY <2>1, <3>1
    <3>7. QED
      BY <2>1, <3>4, <3>5, <3>6, cards => how = "done"
  <2>2. CASE ~cards
    <3>1. first \in Seq(ContentFrames)
      BY <1>3 DEF Sent
    <3>2. first \o <<>> = first
      BY <3>1, ConcatEmptySeq
    <3>3. grid = <<>>
      BY <2>2
    <3>4. OneGrid(B)
      BY <1>3, NoGrid
    <3>5. QED
      BY <1>3, <3>2, <3>3, <3>4
  <2>3. QED
    BY <2>1, <2>2
<1>5. PICK end : end = [type |-> how] /\ end \in EndFrames
  BY DEF EndFrames
<1>6. first \o (grid \o <<end>>) = (first \o grid) \o <<end>>
  <2>1. first \in Seq(ContentFrames \union EndFrames)
    <3>1. first \in Seq(ContentFrames)
      BY <1>3 DEF Sent
    <3>2. QED
      BY <3>1, WiderSeq
  <2>2. grid \in Seq(ContentFrames \union EndFrames)
    <3>1. calls \in 0..MaxCalls
      BY <1>2, TranscriptAssumption
    <3>2. Products(calls) \in ContentFrames \union EndFrames
      BY <3>1 DEF Products, ContentFrames, ProductParts
    <3>3. <<Products(calls)>> \in Seq(ContentFrames \union EndFrames)
      BY <3>2
    <3>4. <<>> \in Seq(ContentFrames \union EndFrames)
      OBVIOUS
    <3>5. QED
      BY <3>3, <3>4
  <2>3. <<end>> \in Seq(ContentFrames \union EndFrames)
    BY <1>5
  <2>4. QED
    BY <2>1, <2>2, <2>3, ConcatAssociative
<1> HIDE DEF grid
<1>7. PICK fs : fs = first \o grid
  OBVIOUS
<1>8. /\ Recorded(recorded, fs \o <<[type |-> how]>>) = C
      /\ fs \o <<[type |-> how]>> = Append(fs, [type |-> how])
      /\ Append(fs, [type |-> how]) \in Seq(ContentFrames \union EndFrames)
  BY <1>4, <1>7, SendRecords
<1>9. /\ wire = <<>> /\ wire' = Append(fs, [type |-> how]) /\ recorded' = C
      /\ wire' \in Seq(ContentFrames \union EndFrames)
  <2>1. Send(fs \o <<[type |-> how]>>)
    BY <1>1, <1>5, <1>6, <1>7
  <2>2. QED
    BY <1>8, <2>1 DEF Send
<1>10. Sent(recorded, fs, recorded', lateLabel', calls)
  BY <1>1, <1>4, <1>7, <1>9
<1>11. ScreenInStep'
  <2>1. wire' = IF answerTurn' = "on" THEN fs ELSE Append(fs, [type |-> answerTurn'])
    BY <1>1, <1>9
  <2>2. lateLabel' \in BOOLEAN /\ (lateLabel => lateLabel') /\ screen' = screen
    BY <1>1, <1>2
  <2>3. QED
    BY <1>1, <1>2, <1>9, <1>10, <2>1, <2>2, SendKeepsStep
<1>12. TranscriptTypes'
  <2>1. held' \in HeldSet /\ answerTurn' \in {"on", "done", "failed", "cancelled"}
    BY <1>1 DEF HeldSet
  <2>2. QED
    BY <1>1, <1>2, <1>4, <1>9, <2>1 DEF TranscriptTypes
<1>13. WellRecorded'
  <2>1. RowsRecorded(RowsIn(C)) /\ IdsUpTo(C, calls)
    BY <1>4 DEF Sent
  <2>2. QED
    BY <1>1, <1>4, <1>9, <2>1 DEF WellRecorded, IdsUpTo
<1>14. SavedOnceEnded'
  BY <1>1 DEF SavedOnceEnded
<1>15. QED
  BY <1>1, <1>11, <1>12, <1>13, <1>14 DEF TranscriptInv

LEMMA FinishTurnStep ==
    ASSUME TranscriptInv, NEW cards \in BOOLEAN, FinishTurn(cards)
    PROVE  TranscriptInv'
<1>1. EndTurn((IF cards THEN <<Products(calls)>> ELSE <<>>) \o <<[type |-> "done"]>>, "done")
  BY FinishTurn(cards) DEF FinishTurn
<1>2. QED
  BY <1>1, TranscriptInv, EndStep

LEMMA FailTurnStep ==
    ASSUME TranscriptInv, FailTurn
    PROVE  TranscriptInv'
<1>1. <<>> \o <<[type |-> "failed"]>> = <<[type |-> "failed"]>>
  OBVIOUS
<1>2. EndTurn((IF FALSE THEN <<Products(calls)>> ELSE <<>>) \o <<[type |-> "failed"]>>, "failed")
  BY <1>1, FailTurn DEF FailTurn
<1>3. FALSE \in BOOLEAN /\ "failed" \in {"done", "failed"} /\ (FALSE => "failed" = "done")
  OBVIOUS
<1>4. QED
  BY <1>2, <1>3, TranscriptInv, EndStep

LEMMA StandsStill ==
    ASSUME TranscriptInv, UNCHANGED transcriptVars
    PROVE  TranscriptInv'
<1>1. UNCHANGED <<calls, lateLabel, call, held, pieces, answerTurn, recorded, stored, wire, screen>>
  BY UNCHANGED transcriptVars DEF transcriptVars
<1>2. /\ TranscriptTypes /\ WellRecorded /\ SavedOnceEnded /\ ScreenInStep
      /\ answerTurn = "on" => GatewayInStep(RowsIn(recorded))
  BY TranscriptInv DEF TranscriptInv
<1>3. TranscriptTypes' /\ WellRecorded' /\ SavedOnceEnded'
  BY <1>1, <1>2 DEF TranscriptTypes, WellRecorded, SavedOnceEnded
<1>4. ScreenInStep'
  BY <1>1, <1>2 DEF ScreenInStep
<1>5. answerTurn' = "on" => GatewayInStep(RowsIn(recorded))'
  BY <1>1, <1>2 DEF GatewayInStep, CallInStep, HeldInStep
<1>6. QED
  BY <1>3, <1>4, <1>5 DEF TranscriptInv

\* The gateway's record and the shopper's screen stay in step: every frame the gateway
\* sends finds a timeline it fits, and the screen is as far as the frames still on their
\* way leave it.
THEOREM TranscriptInvHolds == TranscriptSpec => []TranscriptInv
<1>1. TranscriptInit => TranscriptInv
  BY TranscriptStarts
<1>2. TranscriptInv /\ [TranscriptNext]_transcriptVars => TranscriptInv'
  <2>1. SUFFICES ASSUME TranscriptInv, [TranscriptNext]_transcriptVars PROVE TranscriptInv'
    OBVIOUS
  <2>2. CASE Deliver
    BY <2>1, <2>2, DeliverStep
  <2>3. CASE StopResponse
    BY <2>1, <2>3, StopStep
  <2>4. CASE WriteProse
    BY <2>1, <2>4, ProseStep
  <2>5. CASE FailTurn
    BY <2>1, <2>5, FailTurnStep
  <2>6. CASE CancelTurn
    BY <2>1, <2>6, CancelStep
  <2>7. ASSUME NEW op \in Operations, NEW kind \in Kinds, NEW labels \in {"always", "at_end", "never"},
               StartCall(op, kind, labels)
        PROVE  TranscriptInv'
    BY <2>1, <2>7, StartCallStep
  <2>8. ASSUME NEW ok \in BOOLEAN, NEW deferred \in BOOLEAN, FinishCall(ok, deferred)
        PROVE  TranscriptInv'
    BY <2>1, <2>8, FinishCallStep
  <2>9. ASSUME NEW cards \in BOOLEAN, FinishTurn(cards)
        PROVE  TranscriptInv'
    BY <2>1, <2>9, FinishTurnStep
  <2>10. CASE UNCHANGED transcriptVars
    BY <2>1, <2>10, StandsStill
  <2>11. QED
    BY <2>1, <2>2, <2>3, <2>4, <2>5, <2>6, <2>7, <2>8, <2>9, <2>10 DEF TranscriptNext
<1>3. QED
  BY <1>1, <1>2, PTL DEF TranscriptSpec

-----------------------------------------------------------------------------
(***************************************************************************)
(* What is stored                                                          *)
(***************************************************************************)
\* A filter that takes every member leaves the list as it is.
LEMMA AllMembers ==
    ASSUME NEW S, NEW seq \in Seq(S), NEW places, 1..Len(seq) \subseteq places
    PROVE  MembersAt(seq, places) = seq
<1>1. PICK n \in Nat : n = Len(seq)
  BY LenProperties
<1>2. PICK t : Filtered(t, S, seq, places) /\ MembersAt(seq, places) = t[n]
  BY <1>1, Filters
<1>3. /\ t \in [0..n -> Seq(S)] /\ t[0] = <<>>
      /\ \A i \in 1..n : t[i] = Append(t[i - 1], seq[i])
  BY <1>1, <1>2, 1..Len(seq) \subseteq places DEF Filtered
<1> DEFINE D == {i \in 0..n : Len(t[i]) = i /\ \A j \in 1..i : t[i][j] = seq[j]}
<1>4. 0 \in D
  BY <1>3
<1>5. ASSUME NEW i \in 1..n, i - 1 \in D PROVE i \in D
  <2>1. i - 1 \in 0..n /\ i \in 0..n /\ i \in 1..Len(seq)
    BY <1>1
  <2>2. t[i - 1] \in Seq(S) /\ seq[i] \in S
    BY <1>3, <2>1, ElementOfSeq
  <2>3. PICK x \in Seq(S), a \in S : x = t[i - 1] /\ a = seq[i] /\ t[i] = Append(x, a)
    BY <1>3, <2>2
  <2>4. Len(x) = i - 1 /\ \A j \in 1..(i - 1) : x[j] = seq[j]
    BY <1>5, <2>3
  <2>5. Len(Append(x, a)) = (i - 1) + 1 /\ Append(x, a)[(i - 1) + 1] = a
        /\ \A j \in 1..(i - 1) : Append(x, a)[j] = x[j]
    BY <2>4, AppendProperties
  <2>6. (i - 1) + 1 = i /\ \A j \in 1..i : j = i \/ j \in 1..(i - 1)
    OBVIOUS
  <2>7. Len(t[i]) = i /\ \A j \in 1..i : t[i][j] = seq[j]
    BY <2>3, <2>4, <2>5, <2>6
  <2>8. QED
    BY <2>1, <2>7
<1> HIDE DEF D
<1>6. n \in D
  <2>1. \A i \in 0..n : i \in D
    BY <1>4, <1>5, UpTo
  <2>2. QED
    BY <2>1
<1>7. Len(t[n]) = n /\ (\A j \in 1..n : t[n][j] = seq[j]) /\ t[n] \in Seq(S)
  BY <1>3, <1>6 DEF D
<1>8. PICK x \in Seq(S) : x = t[n]
  BY <1>7
<1>9. x = seq
  BY <1>1, <1>7, <1>8, EqualSeqs
<1>10. QED
  BY <1>2, <1>8, <1>9

Cut(seq, n, new) ==
    /\ Len(new) = IF n < Len(seq) THEN n ELSE Len(seq)
    /\ \A i \in 1..Len(new) : new[i] = seq[i]
LEMMA SliceCuts ==
    ASSUME NEW S, NEW seq \in Seq(S), NEW n \in Nat
    PROVE  Slice(seq, n) \in Seq(S) /\ Cut(seq, n, Slice(seq, n))
<1>1. PICK l \in Nat, m \in Nat : l = Len(seq) /\ m = IF n < l THEN n ELSE l
  BY LenProperties
<1>2. Slice(seq, n) = SubSeq(seq, 1, m) /\ m <= l
  BY <1>1 DEF Slice
<1>3. Len(SubSeq(seq, 1, m)) = m /\ \A i \in 1..m : SubSeq(seq, 1, m)[i] = seq[i]
  BY <1>1, <1>2
<1>4. QED
  BY <1>1, <1>2, <1>3, SliceOf DEF Cut

LEMMA CutsSame ==
    ASSUME NEW S, NEW seq \in Seq(S), NEW n \in Nat
    PROVE  /\ Len(seq) <= n => Slice(seq, n) = seq
           /\ Slice(Slice(seq, n), n) = Slice(seq, n)
<1>1. ASSUME NEW x \in Seq(S), Len(x) <= n PROVE Slice(x, n) = x
  <2>1. PICK new \in Seq(S), l \in Nat : new = Slice(x, n) /\ l = Len(x) /\ Cut(x, n, new)
    BY SliceCuts, LenProperties
  <2>2. Len(new) = l /\ \A i \in 1..l : new[i] = x[i]
    BY <1>1, <2>1 DEF Cut
  <2>3. QED
    BY <2>1, <2>2, EqualSeqs
<1>2. PICK new \in Seq(S), l \in Nat : new = Slice(seq, n) /\ l = Len(seq) /\ Cut(seq, n, new)
  BY SliceCuts, LenProperties
<1>3. Len(new) <= n
  BY <1>2 DEF Cut
<1>4. QED
  BY <1>1, <1>2, <1>3

\* Of rows that differ none but those after the first is left out.
LEMMA DistinctAlready ==
    ASSUME NEW rows \in Seq(Row)
    PROVE  /\ DistinctRows(rows) \in Seq(Row)
           /\ NoIdTwice(rows) => DistinctRows(rows) = Slice(rows, StoredRows)
                                 /\ NoIdTwice(Slice(rows, StoredRows))
<1>1. PICK k \in Nat, first \in Seq(Row), m \in Nat :
         k = StoredRows /\ first = Slice(rows, k) /\ Cut(rows, k, first) /\ m = Len(first)
  BY TranscriptAssumption, SliceCuts, LenProperties
<1>2. PICK l \in Nat : l = Len(rows)
  BY LenProperties
<1>3. m <= l /\ \A i \in 1..m : first[i] = rows[i]
  BY <1>1, <1>2 DEF Cut
<1>4. PICK places : places = {i \in 1..m : \A j \in 1..(i - 1) : first[j].id # first[i].id}
  OBVIOUS
<1>5. DistinctRows(rows) = MembersAt(first, places)
  <2>1. DOMAIN first = 1..m
    BY <1>1, LenProperties
  <2>2. QED
    BY <1>1, <1>4, <2>1 DEF DistinctRows
<1>6. DistinctRows(rows) \in Seq(Row)
  BY <1>5, MembersOf
<1>7. ASSUME NoIdTwice(rows) PROVE NoIdTwice(first) /\ MembersAt(first, places) = first
  <2>1. ASSUME NEW i \in 1..m, NEW j \in 1..m, first[i].id = first[j].id PROVE i = j
    <3>1. i \in 1..l /\ j \in 1..l
      BY <1>3
    <3>2. QED
      BY <1>2, <1>3, <1>7, <2>1, <3>1 DEF NoIdTwice
  <2>2. ASSUME NEW i \in 1..m PROVE i \in places
    <3>1. \A j \in 1..(i - 1) : j \in 1..m /\ j # i
      OBVIOUS
    <3>2. QED
      BY <1>4, <2>1, <3>1
  <2>3. MembersAt(first, places) = first
    BY <1>1, <2>2, AllMembers
  <2>4. QED
    BY <1>1, <2>1, <2>3 DEF NoIdTwice
<1>8. QED
  BY <1>1, <1>5, <1>6, <1>7

\* Parts are stored one by one: the timeline is cut, the rest is as it was.
LEMMA Stores ==
    ASSUME NEW parts \in Seq(AnswerParts(Row)), NoIdTwice(RowsIn(parts)), OneGrid(parts)
    PROVE  /\ StoragePayload(parts) \in Seq(AnswerParts(Row))
           /\ OnlyNew(parts, StoragePayload(parts), "reasoning")
           /\ RowsIn(StoragePayload(parts)) = Slice(RowsIn(parts), StoredRows)
           /\ NoIdTwice(RowsIn(StoragePayload(parts))) /\ OneGrid(StoragePayload(parts))
<1>1. PICK n \in Nat : n = Len(parts) /\ DOMAIN parts = 1..n /\ parts \in [1..n -> AnswerParts(Row)]
  BY LenProperties
<1>2. parts \in Seq(AnyPart) /\ AnswerParts(Row) \subseteq AnyPart
  BY PartsWiden
<1>3. ASSUME NEW p \in AnswerParts(Row)
      PROVE  /\ StoragePart(p) \in AnswerParts(Row) /\ StoragePart(p).type = p.type
             /\ p.type # "reasoning" => StoragePart(p) = p
             /\ p.type = "reasoning" => StoragePart(p).rows = DistinctRows(p.rows)
  <2>1. CASE p.type # "reasoning"
    BY <2>1 DEF StoragePart
  <2>2. CASE p.type = "reasoning"
    <3>1. p \in Timelines(Row)
      BY <2>2 DEF AnswerParts, TextParts, ImageParts, ProductParts, AccessParts
    <3>2. p.rows \in Seq(Row)
      BY <3>1 DEF Timelines
    <3>3. DistinctRows(p.rows) \in Seq(Row)
      BY <3>2, DistinctAlready
    <3>4. StoragePart(p) = Reasoning(DistinctRows(p.rows))
      BY <2>2 DEF StoragePart
    <3>5. QED
      BY <2>2, <3>3, <3>4 DEF Reasoning, AnswerParts, Timelines
  <2>3. QED
    BY <2>1, <2>2
<1>4. PICK new : new = [i \in 1..n |-> StoragePart(parts[i])]
  OBVIOUS
<1>5. new \in Seq(AnswerParts(Row)) /\ Len(new) = n /\ new \in Seq(AnyPart)
  <2>1. new \in [1..n -> AnswerParts(Row)]
    BY <1>1, <1>3, <1>4
  <2>2. QED
    BY <1>2, <2>1, WiderSeq
<1>6. ASSUME NEW i \in 1..n
      PROVE  /\ parts[i] \in AnswerParts(Row) /\ new[i].type = parts[i].type
             /\ parts[i].type # "reasoning" => new[i] = parts[i]
             /\ parts[i].type = "reasoning" => new[i].rows = DistinctRows(parts[i].rows)
  BY <1>1, <1>3, <1>4
<1>7. ASSUME NEW type PROVE PartAt(new, type) = PartAt(parts, type)
  <2>1. {j \in DOMAIN new : new[j].type = type} = {j \in DOMAIN parts : parts[j].type = type}
    BY <1>1, <1>4, <1>6
  <2>2. QED
    BY <2>1 DEF PartAt
<1>8. OneGrid(new)
  BY <1>1, <1>5, <1>6, OneGrid(parts) DEF OneGrid
<1>9. StoragePayload(parts) = new
  <2>1. PICK places : places = {i \in DOMAIN new : new[i].type = "products" => i = PartAt(new, "products")}
    OBVIOUS
  <2>2. ASSUME NEW i \in 1..n PROVE i \in places
    <3>1. i \in DOMAIN new
      BY <1>4
    <3>2. ASSUME new[i].type = "products" PROVE i = PartAt(new, "products")
      <4>1. PartAt(new, "products") \in 1..n /\ new[PartAt(new, "products")].type = "products"
        BY <1>5, <3>2, PartPlace
      <4>2. QED
        BY <1>5, <1>8, <3>2, <4>1 DEF OneGrid
    <3>3. QED
      BY <2>1, <3>1, <3>2
  <2>3. MembersAt(new, places) = new
    BY <1>5, <2>2, AllMembers
  <2>4. StoragePayload(parts) = MembersAt(new, places)
    BY <1>1, <1>4, <2>1 DEF StoragePayload, CoalesceProductParts
  <2>5. QED
    BY <2>3, <2>4
<1>10. RowsIn(new) = Slice(RowsIn(parts), StoredRows) /\ NoIdTwice(RowsIn(new))
  <2>1. PICK at : at = PartAt(parts, "reasoning") /\ at = PartAt(new, "reasoning") /\ at \in 0..n
                  /\ (at # 0 => parts[at].type = "reasoning")
    BY <1>1, <1>2, <1>7, PartPlace
  <2>2. RowsIn(parts) \in Seq(Row)
    BY RowsType
  <2>3. /\ DistinctRows(RowsIn(parts)) = Slice(RowsIn(parts), StoredRows)
        /\ NoIdTwice(Slice(RowsIn(parts), StoredRows))
    BY <2>2, NoIdTwice(RowsIn(parts)), DistinctAlready
  <2>4. CASE at = 0
    <3>1. RowsIn(parts) = <<>> /\ RowsIn(new) = <<>>
      BY <2>1, <2>4 DEF RowsIn
    <3>2. Len(<<>>) <= StoredRows /\ <<>> \in Seq(Row)
      BY TranscriptAssumption
    <3>3. Slice(<<>>, StoredRows) = <<>>
      BY <3>2, TranscriptAssumption, CutsSame
    <3>4. QED
      BY <2>3, <3>1, <3>3
  <2>5. CASE at # 0
    <3>1. RowsIn(parts) = parts[at].rows /\ RowsIn(new) = new[at].rows
      BY <2>1, <2>5 DEF RowsIn
    <3>2. new[at].rows = DistinctRows(parts[at].rows)
      BY <1>6, <2>1, <2>5
    <3>3. QED
      BY <2>3, <3>1, <3>2
  <2>6. QED
    BY <2>4, <2>5
<1>11. ProseOf(new) = ProseOf(parts)
  <2>1. \A i \in 1..n : Pieces[new[i]] = Pieces[parts[i]]
    <3>1. ASSUME NEW i \in 1..n PROVE Pieces[new[i]] = Pieces[parts[i]]
      <4>1. parts[i] \in AnyPart /\ new[i] \in AnyPart
        BY <1>1, <1>2, <1>5, ElementOfSeq
      <4>2. QED
        BY <1>6, <4>1 DEF Pieces
    <3>2. QED
      BY <3>1
  <2>2. FlatOf(Pieces, new) = FlatOf(Pieces, parts)
    BY <1>1, <1>5, <2>1, FlatSame
  <2>3. QED
    BY <1>2, <1>5, <2>2, FlatViews
<1>12. ASSUME NEW type, type # "reasoning" PROVE OfType(new, type) = OfType(parts, type)
  <2>1. \A i \in 1..n : Only(type)[new[i]] = Only(type)[parts[i]]
    <3>1. ASSUME NEW i \in 1..n PROVE Only(type)[new[i]] = Only(type)[parts[i]]
      <4>1. parts[i] \in AnyPart /\ new[i] \in AnyPart
        BY <1>1, <1>2, <1>5, ElementOfSeq
      <4>2. QED
        BY <1>6, <1>12, <4>1 DEF Only
    <3>2. QED
      BY <3>1
  <2>2. FlatOf(Only(type), new) = FlatOf(Only(type), parts)
    BY <1>1, <1>5, <2>1, FlatSame
  <2>3. QED
    BY <1>2, <1>5, <2>2, FlatViews
<1>13. ImagesOf(new) = ImagesOf(parts)
  <2>1. ASSUME NEW q PROVE ImageIn(new, q) <=> ImageIn(parts, q)
    <3>1. ASSUME NEW i \in 1..n, q.type = "image" PROVE q = new[i] <=> q = parts[i]
      BY <1>6, <3>1
    <3>2. QED
      BY <1>1, <1>5, <3>1 DEF ImageIn
  <2>2. \A q : q \in ImagesOf(new) <=> q \in ImagesOf(parts)
    BY <1>2, <1>5, <2>1, ImagesAre, Zenon
  <2>3. QED
    BY <2>2
<1>14. OnlyNew(parts, new, "reasoning")
  BY <1>7, <1>11, <1>12, <1>13 DEF OnlyNew
<1>15. QED
  BY <1>5, <1>8, <1>9, <1>10, <1>14

\* The timeline as a reload shows it.
ViewOf(rows) == [i \in 1..Len(rows) |-> <<rows[i].id, rows[i].op, rows[i].state>>]
LEMMA RowsViewed ==
    ASSUME NEW parts \in Seq(AnyPart)
    PROVE  /\ RowsIn(parts) \in Seq(Row \union ShownRow)
           /\ RowsOf(parts) = ViewOf(RowsIn(parts)) /\ Len(RowsOf(parts)) = Len(RowsIn(parts))
<1>1. RowsIn(parts) \in Seq(Row \union ShownRow)
  BY RowsType DEF AnyPart
<1>2. PICK n \in Nat, rows \in Seq(Row \union ShownRow) :
         rows = RowsIn(parts) /\ n = Len(rows) /\ DOMAIN rows = 1..n
  BY <1>1, LenProperties
<1>3. RowsOf(parts) = ViewOf(rows)
  <2>1. CASE PartAt(parts, "reasoning") = 0
    <3>1. rows = <<>> /\ RowsOf(parts) = <<>>
      BY <1>2, <2>1 DEF RowsIn, RowsOf
    <3>2. ViewOf(<<>>) = <<>>
      BY DEF ViewOf
    <3>3. QED
      BY <3>1, <3>2
  <2>2. CASE PartAt(parts, "reasoning") # 0
    BY <1>2, <2>2 DEF RowsIn, RowsOf, ViewOf
  <2>3. QED
    BY <2>1, <2>2
<1>4. Len(ViewOf(rows)) = n
  BY <1>2 DEF ViewOf
<1>5. QED
  BY <1>1, <1>2, <1>3, <1>4

LEMMA SameView ==
    ASSUME NEW R \in Seq(Row \union ShownRow), NEW S \in Seq(Row \union ShownRow), SameRows(R, S)
    PROVE  ViewOf(R) = ViewOf(S)
<1>1. PICK n \in Nat : n = Len(R) /\ n = Len(S)
  BY SameRows(R, S), LenProperties DEF SameRows
<1>2. \A i \in 1..n : <<R[i].id, R[i].op, R[i].state>> = <<S[i].id, S[i].op, S[i].state>>
  BY <1>1, SameRows(R, S) DEF SameRows
<1>3. QED
  BY <1>1, <1>2 DEF ViewOf

LEMMA CutView ==
    ASSUME NEW R \in Seq(Row \union ShownRow), NEW n \in Nat
    PROVE  ViewOf(Slice(R, n)) = Slice(ViewOf(R), n)
<1> DEFINE Views == {<<row.id, row.op, row.state>> : row \in Row \union ShownRow}
<1>1. PICK l \in Nat, a \in Seq(Row \union ShownRow) :
         l = Len(R) /\ a = Slice(R, n) /\ Cut(R, n, a)
  BY SliceCuts, LenProperties
<1>2. ASSUME NEW x \in Seq(Row \union ShownRow)
      PROVE  ViewOf(x) \in Seq(Views) /\ Len(ViewOf(x)) = Len(x)
             /\ \A i \in 1..Len(x) : ViewOf(x)[i] = <<x[i].id, x[i].op, x[i].state>>
  <2>1. PICK m \in Nat : m = Len(x)
    BY LenProperties
  <2>2. \A i \in 1..m : <<x[i].id, x[i].op, x[i].state>> \in Views
    BY <2>1, ElementOfSeq
  <2>3. ViewOf(x) \in [1..m -> Views]
    BY <2>1, <2>2 DEF ViewOf
  <2>4. ViewOf(x) \in Seq(Views)
    <3> HIDE DEF Views
    <3>1. QED
      BY <2>3
  <2>5. QED
    BY <2>1, <2>4 DEF ViewOf
<1> HIDE DEF Views
<1>3. PICK v \in Seq(Views), b \in Seq(Views) : v = ViewOf(R) /\ b = ViewOf(a)
  BY <1>2
<1>4. PICK c \in Seq(Views) : c = Slice(v, n) /\ Cut(v, n, c)
  BY SliceCuts
<1>5. Len(v) = l /\ Len(b) = Len(a) /\ Len(c) = Len(a)
  BY <1>1, <1>2, <1>3, <1>4 DEF Cut
<1>6. ASSUME NEW i \in 1..Len(a) PROVE b[i] = c[i]
  <2>1. a[i] = R[i] /\ i \in 1..l
    <3>1. Len(a) = IF n < l THEN n ELSE l
      BY <1>1 DEF Cut
    <3>2. Len(a) <= l /\ Len(a) \in Nat
      BY <3>1
    <3>3. QED
      BY <1>1, <3>2 DEF Cut
  <2>2. b[i] = <<a[i].id, a[i].op, a[i].state>> /\ v[i] = <<R[i].id, R[i].op, R[i].state>>
    BY <1>1, <1>2, <1>3, <2>1
  <2>3. c[i] = v[i]
    BY <1>4, <1>5 DEF Cut
  <2>4. QED
    BY <2>1, <2>2, <2>3
<1>7. b = c
  BY <1>5, <1>6, EqualSeqs
<1>8. QED
  BY <1>1, <1>3, <1>4, <1>7

LEMMA ViewEnds ==
    ASSUME NEW R \in Seq(Row \union ShownRow), NEW op
    PROVE  StateOf(ViewOf(R), op) = EndOf(R, op)
<1>1. PICK n \in Nat : n = Len(R) /\ DOMAIN R = 1..n
  BY LenProperties
<1>2. PICK v : v = ViewOf(R) /\ DOMAIN v = 1..n /\ \A i \in 1..n : v[i][2] = R[i].op /\ v[i][3] = R[i].state
  <2>1. PICK v : v = [i \in 1..n |-> <<R[i].id, R[i].op, R[i].state>>]
    OBVIOUS
  <2>2. v = ViewOf(R)
    BY <1>1, <2>1 DEF ViewOf
  <2>3. \A i \in 1..n : v[i] = <<R[i].id, R[i].op, R[i].state>>
    BY <2>1
  <2>4. ASSUME NEW i \in 1..n PROVE v[i][2] = R[i].op /\ v[i][3] = R[i].state
    BY <2>3
  <2>5. DOMAIN v = 1..n
    BY <2>1
  <2>6. QED
    BY <2>2, <2>4, <2>5
<1>3. {i \in DOMAIN v : v[i][2] = op} = {i \in DOMAIN R : R[i].op = op}
  BY <1>1, <1>2
<1>4. PICK at : at = LatestRow(R, op) /\ at \in 0..n
  BY <1>1, LatestPlace
<1>5. LastOf({i \in DOMAIN v : v[i][2] = op}) = at
  BY <1>3, <1>4 DEF LatestRow
<1>6. StateOf(v, op) = IF at = 0 THEN "absent" ELSE v[at][3]
  BY <1>5 DEF StateOf
<1>7. at # 0 => v[at][3] = R[at].state
  BY <1>2, <1>4
<1>8. QED
  BY <1>2, <1>4, <1>6, <1>7 DEF EndOf

\* What a reload makes of the recorded parts.
LEMMA Reloads ==
    ASSUME NEW parts \in Seq(AnswerParts(Row)), NoIdTwice(RowsIn(parts)), OneGrid(parts)
    PROVE  LET again == StoragePayload(StoragePayload(parts)) IN
           /\ again \in Seq(AnswerParts(Row)) /\ OnlyNew(parts, again, "reasoning")
           /\ RowsIn(again) = Slice(RowsIn(parts), StoredRows)
<1>1. PICK once : once = StoragePayload(parts)
  OBVIOUS
<1>2. /\ once \in Seq(AnswerParts(Row)) /\ OnlyNew(parts, once, "reasoning")
      /\ RowsIn(once) = Slice(RowsIn(parts), StoredRows)
      /\ NoIdTwice(RowsIn(once)) /\ OneGrid(once)
  BY <1>1, NoIdTwice(RowsIn(parts)), OneGrid(parts), Stores
<1>3. PICK again : again = StoragePayload(once)
  OBVIOUS
<1>4. /\ again \in Seq(AnswerParts(Row)) /\ OnlyNew(once, again, "reasoning")
      /\ RowsIn(again) = Slice(RowsIn(once), StoredRows)
  BY <1>2, <1>3, Stores
<1>5. RowsIn(parts) \in Seq(Row)
  BY RowsType
<1>6. Slice(Slice(RowsIn(parts), StoredRows), StoredRows) = Slice(RowsIn(parts), StoredRows)
  BY <1>5, TranscriptAssumption, CutsSame
<1>7. OnlyNew(parts, again, "reasoning")
  BY <1>2, <1>4 DEF OnlyNew
<1>8. QED
  BY <1>1, <1>2, <1>3, <1>4, <1>6, <1>7

\* The invariant says of a saved answer what the property says.
LEMMA SavedReloads ==
    ASSUME TranscriptInv, stored # NotSaved
    PROVE  FinishedAsShown /\ StoppedIsKept
<1>1. TranscriptTypes /\ WellRecorded /\ SavedOnceEnded /\ ScreenInStep
  BY TranscriptInv DEF TranscriptInv
<1>2. /\ recorded \in Seq(AnswerParts(Row)) /\ screen \in ScreenSet /\ lateLabel \in BOOLEAN
      /\ NoIdTwice(RowsIn(recorded)) /\ OneGrid(recorded)
      /\ answerTurn # "on" /\ Reloaded = StoragePayload(StoragePayload(recorded))
  BY <1>1, stored # NotSaved DEF TranscriptTypes, WellRecorded, RowsRecorded, SavedOnceEnded, Reloaded
<1>3. PICK parts : parts = Reloaded
  OBVIOUS
<1>4. /\ parts \in Seq(AnswerParts(Row)) /\ OnlyNew(recorded, parts, "reasoning")
      /\ RowsIn(parts) = Slice(RowsIn(recorded), StoredRows)
  BY <1>2, <1>3, Reloads
<1>5. /\ ProseOf(parts) = ProseOf(recorded) /\ ImagesOf(parts) = ImagesOf(recorded)
      /\ OfType(parts, "products") = OfType(recorded, "products")
      /\ OfType(parts, "guest_order_access") = OfType(recorded, "guest_order_access")
  BY <1>4 DEF OnlyNew, PartTypes
<1>6. recorded \in Seq(AnyPart) /\ parts \in Seq(AnyPart) /\ screen.parts \in Seq(AnyPart)
  BY <1>2, <1>4, PartsWiden, ScreensAre
<1>7. PICK R, S, K : R = RowsIn(recorded) /\ S = RowsIn(screen.parts) /\ K = RowsIn(parts)
  OBVIOUS
<1>8. /\ R \in Seq(Row \union ShownRow) /\ S \in Seq(Row \union ShownRow) /\ K \in Seq(Row \union ShownRow)
      /\ RowsOf(recorded) = ViewOf(R) /\ RowsOf(screen.parts) = ViewOf(S) /\ RowsOf(parts) = ViewOf(K)
      /\ Len(RowsOf(recorded)) = Len(R)
  BY <1>6, <1>7, RowsViewed
<1>9. K = Slice(R, StoredRows)
  BY <1>4, <1>7
<1>10. StoredWhole => K = R
  BY <1>8, <1>9, TranscriptAssumption, CutsSame DEF StoredWhole
<1>11. FinishedAsShown
  <2>1. SUFFICES ASSUME screen.saw = answerTurn, answerTurn \in {"done", "failed"}
                 PROVE  /\ ProseOf(parts) = ProseOf(screen.parts)
                        /\ ImagesOf(parts) = ImagesOf(screen.parts)
                        /\ OfType(parts, "products") = OfType(screen.parts, "products")
                        /\ answerTurn = "done" => Len(OfType(parts, "guest_order_access"))
                                               = Len(OfType(screen.parts, "guest_order_access"))
                        /\ StoredWhole => \A op \in Operations :
                               StateOf(RowsOf(parts), op) = StateOf(RowsOf(screen.parts), op)
                        /\ ~lateLabel => RowsOf(parts) = Slice(RowsOf(screen.parts), StoredRows)
    BY <1>3 DEF FinishedAsShown
  <2>2. Finished(recorded, screen, lateLabel)
    BY <1>1, <2>1 DEF ScreenInStep
  <2>3. /\ ProseOf(parts) = ProseOf(screen.parts) /\ ImagesOf(parts) = ImagesOf(screen.parts)
        /\ OfType(parts, "products") = OfType(screen.parts, "products")
    BY <1>5, <2>2 DEF Finished
  <2>4. answerTurn = "done" => Len(OfType(parts, "guest_order_access"))
                               = Len(OfType(screen.parts, "guest_order_access"))
    BY <1>5, <2>1, <2>2 DEF Finished
  <2>5. ASSUME StoredWhole, NEW op \in Operations
        PROVE  StateOf(RowsOf(parts), op) = StateOf(RowsOf(screen.parts), op)
    <3>1. EndOf(R, op) = EndOf(S, op)
      BY <1>7, <2>2, <2>5 DEF Finished
    <3>2. RowsOf(parts) = ViewOf(R)
      BY <1>8, <1>10, <2>5
    <3>3. QED
      BY <1>8, <3>1, <3>2, ViewEnds
  <2>6. ASSUME ~lateLabel PROVE RowsOf(parts) = Slice(RowsOf(screen.parts), StoredRows)
    <3>1. SameRows(R, S)
      BY <1>7, <2>2, <2>6 DEF Finished
    <3>2. ViewOf(R) = ViewOf(S)
      BY <1>8, <3>1, SameView
    <3>3. ViewOf(Slice(R, StoredRows)) = Slice(ViewOf(R), StoredRows)
      BY <1>8, TranscriptAssumption, CutView
    <3>4. QED
      BY <1>8, <1>9, <3>2, <3>3
  <2>7. QED
    BY <2>3, <2>4, <2>5, <2>6
<1>12. StoppedIsKept
  <2>1. SUFFICES ASSUME screen.saw \in {"stopped", "cancelled"}
                 PROVE  /\ IsPrefix(ProseOf(screen.parts), ProseOf(parts))
                        /\ ImagesOf(screen.parts) \subseteq ImagesOf(parts)
                        /\ StoredWhole => \A r \in Range(RowsOf(screen.parts)) :
                               \E q \in Range(RowsOf(parts)) : q[2] = r[2]
    BY <1>3 DEF StoppedIsKept
  <2>2. Begun(recorded, screen)
    BY <1>1, <2>1 DEF ScreenInStep
  <2>3. IsPrefix(ProseOf(screen.parts), ProseOf(parts))
    <3>1. PICK a, b \in Seq(1..MaxPieces) : a = ProseOf(screen.parts) /\ b = ProseOf(parts)
      BY <1>6, FlatViews
    <3>2. PICK n \in Nat, m \in Nat : n = Len(a) /\ m = Len(b)
      BY LenProperties
    <3>3. n <= m /\ \A i \in 1..n : a[i] = b[i]
      BY <1>5, <2>2, <3>1, <3>2 DEF Begun, Begins
    <3>4. /\ Len(SubSeq(a, 1, n)) = n /\ (\A i \in 1..n : SubSeq(a, 1, n)[i] = a[i])
          /\ Len(SubSeq(b, 1, n)) = n /\ (\A i \in 1..n : SubSeq(b, 1, n)[i] = b[i])
      BY <3>2, <3>3
    <3>5. SubSeq(a, 1, n) \in Seq(1..MaxPieces) /\ SubSeq(b, 1, n) \in Seq(1..MaxPieces)
      <4>1. \A i \in 1..n : a[i] \in 1..MaxPieces /\ b[i] \in 1..MaxPieces
        BY <3>2, <3>3, ElementOfSeq
      <4>2. QED
        BY <4>1, SubSeqProperties
    <3>6. SubSeq(a, 1, n) = SubSeq(b, 1, n)
      <4>1. PICK x, y \in Seq(1..MaxPieces) : x = SubSeq(a, 1, n) /\ y = SubSeq(b, 1, n)
        BY <3>5
      <4>2. QED
        BY <3>2, <3>3, <3>4, <4>1, EqualSeqs
    <3>7. QED
      BY <3>1, <3>2, <3>3, <3>6 DEF IsPrefix
  <2>4. ImagesOf(screen.parts) \subseteq ImagesOf(parts)
    BY <1>5, <2>2 DEF Begun
  <2>5. ASSUME StoredWhole, NEW r \in Range(RowsOf(screen.parts))
        PROVE  \E q \in Range(RowsOf(parts)) : q[2] = r[2]
    <3>1. PICK v, w : v = ViewOf(S) /\ w = ViewOf(R)
      OBVIOUS
    <3>2. /\ DOMAIN v = 1..Len(S) /\ \A i \in 1..Len(S) : v[i][2] = S[i].op
          /\ DOMAIN w = 1..Len(R) /\ \A i \in 1..Len(R) : w[i][2] = R[i].op
      BY <3>1 DEF ViewOf
    <3>3. r \in Range(v)
      BY <1>8, <2>5, <3>1
    <3>4. PICK i \in 1..Len(S) : r = v[i]
      BY <3>2, <3>3 DEF Range
    <3>5. PICK j \in 1..Len(R) : S[i].op = R[j].op
      BY <1>7, <2>2 DEF Begun
    <3>6. w[j] \in Range(w) /\ w[j][2] = r[2]
      BY <3>2, <3>4, <3>5 DEF Range
    <3>7. RowsOf(parts) = w
      BY <1>8, <1>10, <2>5, <3>1
    <3>8. QED
      BY <3>6, <3>7
  <2>6. QED
    BY <2>3, <2>4, <2>5
<1>13. QED
  BY <1>11, <1>12

\* A reloaded answer is the one the shopper saw: the prose, the pictures and the products
\* are the same, as many forms stand in it if it was finished, each operation ended in the
\* same way unless the timeline is cut, and the timeline is the same up to the rows that are
\* stored if no action was announced only at its end; of a stopped answer nothing is lost.
THEOREM AnswersReloadAsShown == TranscriptSpec => []AnswerReloadsAsShown
<1>1. TranscriptInv => AnswerReloadsAsShown
  BY SavedReloads DEF AnswerReloadsAsShown
<1>2. QED
  BY <1>1, TranscriptInvHolds, PTL

\* What is recorded of an answer, what is on its way and what is shown is well typed.
THEOREM TranscriptTypesHold == TranscriptSpec => []TranscriptTypeOK
<1>1. TranscriptInv => TranscriptTypeOK
  <2>1. SUFFICES ASSUME TranscriptInv PROVE TranscriptTypeOK
    OBVIOUS
  <2>2. /\ calls \in 0..MaxCalls /\ lateLabel \in BOOLEAN /\ call \in CallSet /\ held \in HeldSet
        /\ pieces \in 0..MaxPieces /\ answerTurn \in {"on", "done", "failed", "cancelled"}
        /\ recorded \in Seq(AnyPart) /\ screen \in ScreenSet
    BY <2>1, PartsWiden DEF TranscriptInv, TranscriptTypes
  <2>3. call.id \in 0..MaxCalls
    <3>1. 0 \in 0..MaxCalls /\ 1..MaxCalls \subseteq 0..MaxCalls
      BY TranscriptAssumption
    <3>2. QED
      BY <2>2, <3>1 DEF CallSet, NoCallYet
  <2>4. held.type \in {"none", "activity"}
    BY <2>2 DEF HeldSet, NoActivity
  <2>5. screen.saw \in {"on", "stopped", "done", "failed", "cancelled"} /\ screen.parts \in Seq(AnyPart)
    BY <2>2, ScreensAre, PartsWiden DEF ScreenSet
  <2>6. ASSUME NEW x \in Seq(AnyPart), NEW p \in {x[i] : i \in DOMAIN x}
        PROVE  p.type \in {"text", "reasoning", "products", "image", "guest_order_access"}
    <3>1. p \in AnyPart
      BY <2>6, LenProperties
    <3>2. QED
      BY <3>1, PartsAre DEF PartTypes
  <2>7. \A p \in {recorded[i] : i \in DOMAIN recorded} \union {screen.parts[i] : i \in DOMAIN screen.parts} :
           p.type \in {"text", "reasoning", "products", "image", "guest_order_access"}
    BY <2>2, <2>5, <2>6
  <2>8. QED
    BY <2>2, <2>3, <2>4, <2>5, <2>7 DEF TranscriptTypeOK
<1>2. QED
  BY <1>1, TranscriptInvHolds, PTL
=============================================================================
