---------------------------- MODULE MultipartProofs ----------------------------
(***************************************************************************)
(* Proofs about Multipart, for every number of parts, choice of files and  *)
(* bound of the sendings.  The invariant has three parts: the form while   *)
(* it is built, the buffer and the sendings, and what the sendings carry.  *)
(* Only the last one needs that no deferred Close writes to a buffer that  *)
(* is being read.                                                          *)
(***************************************************************************)
EXTENDS Multipart, FiniteSetTheorems, TLAPS

Whole ==
    /\ Range(form) = 1 .. NumParts \cup {Boundary}
    /\ Len(form) = NumParts + 1
    /\ Last(form) = Boundary

\* What has been written is what is not left to write.
Building ==
    /\ form = <<>> /\ hop = 0
    /\ array \in Seq(Cells) /\ unread = array /\ off = 0
    /\ Range(array) = (1 .. NumParts) \ left
    /\ Len(array) + Cardinality(left) = NumParts

FormInv ==
    /\ way \in Ways
    /\ pc \in {"build", "copy", "do", "exchange", "returned", "closed"}
    /\ left \subseteq 1 .. NumParts
    /\ opened \in Files \cup {NoFile}
    /\ opened # NoFile <=> pc = "copy"
    /\ pc = "copy" => opened \in left
    /\ pc \in {"build", "copy"} => Building
    /\ form \in Seq(Cells)
    /\ form # <<>> => Whole
    /\ hop \in Nat
    /\ pc = "do" => form # <<>> /\ hop = 0 /\ array = form /\ unread = array /\ off = 0
    /\ hop > 0 => form # <<>>
    /\ pc = "exchange" => hop > 0

\* Each sending in a state of its own.  Only the first may read the buffer
\* itself, which has enough in it, and room enough behind its offset.
Sending == [from : {"none", "buffer", "array"}, out : Seq(Cells),
            state : {"idle", "writing", "done", "broken"}]

ReadsBuffer(h) == wire[h].from = "buffer" /\ wire[h].state = "writing"

SendInv ==
    /\ hop \in 0 .. MaxHops
    /\ wire \in [Hops -> Sending]
    /\ array \in Seq(Cells) /\ unread \in Seq(Cells) /\ off \in Nat
    /\ off <= Len(array)
    /\ Len(form) <= Len(array)
    /\ off + Len(unread) <= Len(array) \/ pc = "closed"
    /\ \A h \in Hops : h > hop => wire[h] = NotSent
    /\ \A h \in Hops : Len(wire[h].out) <= Len(form)
    /\ \A h \in Hops : ReadsBuffer(h) =>
          /\ h = 1
          /\ Len(form) <= Len(unread) + Len(wire[h].out)
          /\ off + Len(form) <= Len(array) + Len(wire[h].out)

LEMMA PartFacts ==
    /\ NumParts \in Nat /\ Files \subseteq 1 .. NumParts /\ NoFile \notin Files
    /\ 1 .. NumParts \subseteq Cells /\ Boundary \in Cells /\ Boundary \notin 1 .. NumParts
BY MultipartAssumption DEF NoFile, Cells, Boundary

\* Writing a part that is left.
LEMMA WritePart ==
    ASSUME FormInv, Building, NEW part \in left, Written(part), left' = left \ {part},
           UNCHANGED <<form, hop, off>>
    PROVE  Building'
<1>1. part \in Cells /\ part \in 1 .. NumParts
  BY PartFacts DEF FormInv
<1>2. /\ array' = Append(array, part) /\ unread' = array' /\ array' \in Seq(Cells)
      /\ Len(array') = Len(array) + 1
  BY <1>1 DEF Written, Building
<1>3. Range(array') = Range(array) \cup {part}
  BY <1>1, <1>2 DEF Building, Range
<1>4. Range(array') = (1 .. NumParts) \ left'
  BY <1>1, <1>3 DEF Building
<1>5. IsFiniteSet(left) /\ Cardinality(left) \in Nat
  <2>1. IsFiniteSet(1 .. NumParts)
    BY FS_Interval, PartFacts
  <2>2. left \in SUBSET (1 .. NumParts)
    BY DEF FormInv
  <2>3. IsFiniteSet(left)
    BY <2>1, <2>2, FS_Subset
  <2> QED
    BY <2>3, FS_CardinalityType
<1>6. Cardinality(left') = Cardinality(left) - 1
  BY <1>5, FS_RemoveElement
<1> QED
  BY <1>2, <1>4, <1>5, <1>6, PartFacts DEF Building

\* The boundary behind the last part.
LEMMA WriteBoundary ==
    ASSUME FormInv, Building, left = {}, Written(Boundary), form' = array'
    PROVE  /\ form' \in Seq(Cells) /\ form' # <<>> /\ unread' = array'
           /\ Whole'
<1>1. /\ form' = Append(array, Boundary) /\ form' \in Seq(Cells)
      /\ Len(form') = Len(array) + 1 /\ form'[Len(form')] = Boundary
  BY PartFacts DEF Written, Building
<1>2. Range(form') = Range(array) \cup {Boundary}
  BY <1>1, PartFacts DEF Building, Range
<1>3. Len(array) = NumParts
  BY FS_EmptySet, PartFacts DEF Building
<1>4. form' # <<>>
  BY <1>1, <1>3, PartFacts
<1> QED
  BY <1>1, <1>2, <1>3, <1>4 DEF Building, Whole, Last, Written

LEMMA FormInit == Init => FormInv
<1> SUFFICES ASSUME Init PROVE FormInv
  OBVIOUS
<1>1. Cardinality(1 .. NumParts) = NumParts
  BY PartFacts, FS_Interval
<1>2. Range(<<>>) = {}
  BY DEF Range
<1>3. Building
  BY <1>1, <1>2, PartFacts DEF Init, Building
<1> QED
  BY <1>3, PartFacts DEF Init, FormInv

LEMMA FormStep == FormInv /\ SendInv /\ [Next]_vars => FormInv'
<1> SUFFICES ASSUME FormInv, SendInv, [Next]_vars PROVE FormInv'
  OBVIOUS
<1> USE PartFacts
<1>1. CASE WriteField
  <2>1. PICK part \in Upcoming \ Files : Written(part) /\ left' = left \ {part}
    BY <1>1 DEF WriteField
  <2>2. pc = "build" /\ Building /\ part \in left
    BY <1>1, <2>1 DEF WriteField, FormInv, Upcoming
  <2>3. Building'
    BY <1>1, <2>1, <2>2, WritePart DEF WriteField
  <2> QED
    BY <1>1, <2>1, <2>2, <2>3 DEF WriteField, FormInv, Whole
<1>2. CASE OpenFile
  <2>1. Building /\ Building'
    BY <1>2 DEF OpenFile, FormInv, Building, buffer
  <2> QED
    BY <1>2, <2>1 DEF OpenFile, FormInv, Upcoming, Whole, buffer
<1>3. CASE CopyFile
  <2>1. Building /\ opened \in left
    BY <1>3 DEF CopyFile, FormInv
  <2>2. CASE Written(opened) /\ left' = left \ {opened} /\ pc' = "build"
    <3>1. Building'
      BY <1>3, <2>1, <2>2, WritePart DEF CopyFile
    <3> QED
      BY <1>3, <2>2, <3>1 DEF CopyFile, FormInv, Whole
  <2>3. CASE UNCHANGED <<array, unread, left>> /\ pc' = "returned"
    BY <1>3, <2>1, <2>3 DEF CopyFile, FormInv, Building, Whole
  <2> QED
    BY <1>3, <2>2, <2>3 DEF CopyFile
<1>4. CASE CloseForm
  <2>1. Building
    BY <1>4 DEF CloseForm, FormInv
  <2>2. form' \in Seq(Cells) /\ form' # <<>> /\ unread' = array' /\ Whole'
    BY <1>4, <2>1, WriteBoundary DEF CloseForm
  <2> QED
    BY <1>4, <2>1, <2>2 DEF CloseForm, FormInv, Building
<1>5. CASE Do \/ SendAgain
  BY <1>5 DEF Do, SendAgain, Begin, FormInv, Whole, buffer
<1>6. CASE Return \/ DeferredClose
  BY <1>6 DEF Return, DeferredClose, FormInv, Whole, buffer
<1>7. ASSUME NEW h \in Hops, WriteChunk(h) \/ FinishWrite(h) PROVE FormInv'
  <2>1. hop > 0
    BY <1>7 DEF WriteChunk, FinishWrite, SendInv, FormInv, NotSent, Hops
  <2>2. pc \notin {"build", "copy", "do"}
    BY <2>1 DEF FormInv, Building
  <2>3. UNCHANGED <<way, pc, left, opened, array, form, hop>>
    BY <1>7 DEF WriteChunk, FinishWrite
  <2> QED
    BY <2>2, <2>3 DEF FormInv, Whole
<1>8. CASE UNCHANGED vars
  BY <1>8 DEF vars, FormInv, Building, Whole, buffer
<1> QED
  BY <1>1, <1>2, <1>3, <1>4, <1>5, <1>6, <1>7, <1>8 DEF Next, Terminated
-----------------------------------------------------------------------------
(***************************************************************************)
(* The buffer and the sendings.                                            *)
(***************************************************************************)
LEMMA NotSentType == NotSent \in Sending
BY DEF NotSent, Sending

LEMMA SendInit == Init => SendInv
<1> SUFFICES ASSUME Init PROVE SendInv
  OBVIOUS
<1> QED
  BY NotSentType, MultipartAssumption DEF Init, SendInv, NotSent, ReadsBuffer, Hops

\* A sending that begins has nothing out.
LEMMA BeginFacts ==
    ASSUME SendInv, NEW h \in Hops, NEW from \in {"buffer", "array"}, Begin(h, from)
    PROVE  /\ hop' = h /\ wire' \in [Hops -> Sending]
           /\ wire'[h].from = from /\ wire'[h].out = <<>> /\ wire'[h].state = "writing"
           /\ \A g \in Hops \ {h} : wire'[g] = wire[g]
<1>1. PICK none \in Sending : none = NotSent
  BY NotSentType
<1> DEFINE begun == [none EXCEPT !.from = from, !.state = "writing"]
<1>2. begun \in Sending
  BY DEF Sending
<1>3. begun.from = from /\ begun.out = <<>> /\ begun.state = "writing"
  BY <1>1 DEF NotSent
<1>4. hop' = h /\ wire' = [wire EXCEPT ![h] = begun]
  BY <1>1 DEF Begin
<1> HIDE DEF begun
<1>5. wire' \in [Hops -> Sending] /\ wire'[h] = begun
      /\ \A g \in Hops \ {h} : wire'[g] = wire[g]
  BY <1>2, <1>4 DEF SendInv
<1> QED
  BY <1>3, <1>4, <1>5

LEMMA SendingOut ==
    ASSUME NEW r \in Sending, NEW s \in Seq(Cells)
    PROVE  [r EXCEPT !.out = s] \in Sending
BY DEF Sending

\* What one step of a write loop does to its sending.
LEMMA ChunkFacts ==
    ASSUME SendInv, FormInv, NEW h \in Hops, WriteChunk(h)
    PROVE  /\ wire' \in [Hops -> Sending]
           /\ \A g \in Hops \ {h} : wire'[g] = wire[g]
           /\ wire'[h].from = wire[h].from /\ wire'[h].state = wire[h].state
           /\ Len(wire'[h].out) = Len(wire[h].out) + 1
           /\ \A i \in 1 .. Len(wire[h].out) : wire'[h].out[i] = wire[h].out[i]
           /\ wire'[h].out[Len(wire[h].out) + 1] =
                 IF wire[h].from = "buffer" THEN unread[1] ELSE array[Len(wire[h].out) + 1]
           /\ wire[h].from = "buffer" =>
                 /\ unread' \in Seq(Cells) /\ Len(unread') = Len(unread) - 1
                 /\ \A i \in 1 .. Len(unread) - 1 : unread'[i] = unread[i + 1]
<1> DEFINE cell == IF wire[h].from = "buffer" THEN Head(unread)
                                              ELSE array[Len(wire[h].out) + 1]
<1>1. /\ wire[h] \in Sending /\ Len(wire[h].out) < Len(form) /\ wire[h].state = "writing"
      /\ wire' = [wire EXCEPT ![h].out = Append(@, cell)]
  BY DEF WriteChunk, SendInv
<1>2. wire[h].out \in Seq(Cells) /\ Len(wire[h].out) \in Nat /\ Len(form) \in Nat
  BY <1>1 DEF Sending, FormInv
<1>3. wire[h].from = "buffer" => /\ unread # <<>> /\ Head(unread) = unread[1]
                                 /\ Len(unread) > 0 /\ Head(unread) \in Cells
  <2> SUFFICES ASSUME wire[h].from = "buffer"
               PROVE  unread # <<>> /\ Head(unread) = unread[1] /\ Len(unread) > 0
                      /\ Head(unread) \in Cells
    OBVIOUS
  <2>1. Len(form) <= Len(unread) + Len(wire[h].out) /\ unread \in Seq(Cells)
    BY <1>1 DEF SendInv, ReadsBuffer
  <2>2. Len(unread) \in Nat /\ Len(unread) > 0
    BY <1>1, <1>2, <2>1
  <2> QED
    BY <2>1, <2>2
<1>4. cell \in Cells
  BY <1>1, <1>2, <1>3 DEF SendInv
<1>5. wire'[h] = [wire[h] EXCEPT !.out = Append(wire[h].out, cell)]
  BY <1>1 DEF SendInv
<1>6. Append(wire[h].out, cell) \in Seq(Cells)
  BY <1>2, <1>4
<1> HIDE DEF cell
<1>7. wire'[h] \in Sending
  BY <1>1, <1>5, <1>6, SendingOut
<1>8. wire' \in [Hops -> Sending] /\ \A g \in Hops \ {h} : wire'[g] = wire[g]
  <2>1. wire \in [Hops -> Sending]
    BY DEF SendInv
  <2>2. \A g \in Hops \ {h} : wire'[g] = wire[g]
    BY <1>1, <2>1
  <2>3. \A g \in Hops : wire'[g] \in Sending
    BY <1>7, <2>1, <2>2
  <2>4. wire' = [g \in Hops |-> wire'[g]]
    BY <1>1, <2>1
  <2> QED
    BY <2>2, <2>3, <2>4
<1>9. /\ wire'[h].from = wire[h].from /\ wire'[h].state = wire[h].state
      /\ wire'[h].out = Append(wire[h].out, cell)
  BY <1>1, <1>5 DEF Sending
<1>10. /\ Len(wire'[h].out) = Len(wire[h].out) + 1
       /\ \A i \in 1 .. Len(wire[h].out) : wire'[h].out[i] = wire[h].out[i]
       /\ wire'[h].out[Len(wire[h].out) + 1] = cell
  BY <1>2, <1>4, <1>9
<1>11. wire[h].from = "buffer" =>
          /\ unread' \in Seq(Cells) /\ Len(unread') = Len(unread) - 1
          /\ \A i \in 1 .. Len(unread) - 1 : unread'[i] = unread[i + 1]
  <2> SUFFICES ASSUME wire[h].from = "buffer"
               PROVE  /\ unread' \in Seq(Cells) /\ Len(unread') = Len(unread) - 1
                      /\ \A i \in 1 .. Len(unread) - 1 : unread'[i] = unread[i + 1]
    OBVIOUS
  <2>1. unread' = Tail(unread) /\ unread \in Seq(Cells) /\ unread # <<>>
    BY <1>3 DEF WriteChunk, SendInv
  <2> QED
    BY <2>1
<1> QED
  BY <1>3, <1>8, <1>9, <1>10, <1>11 DEF cell

LEMMA FinishFacts ==
    ASSUME SendInv, NEW h \in Hops, FinishWrite(h)
    PROVE  /\ wire' \in [Hops -> Sending]
           /\ \A g \in Hops \ {h} : wire'[g] = wire[g]
           /\ wire'[h].from = wire[h].from /\ wire'[h].out = wire[h].out
           /\ wire'[h].state = IF wire[h].from = "buffer" /\ unread # <<>> THEN "broken"
                                                                         ELSE "done"
<1>1. wire[h] \in Sending
  BY DEF SendInv
<1>2. PICK state \in {"done", "broken"} :
         /\ wire' = [wire EXCEPT ![h].state = state]
         /\ state = IF wire[h].from = "buffer" /\ unread # <<>> THEN "broken" ELSE "done"
  BY DEF FinishWrite
<1>3. wire'[h] = [wire[h] EXCEPT !.state = state]
  BY <1>2 DEF SendInv
<1> QED
  BY <1>1, <1>2, <1>3 DEF SendInv, Sending

\* The deferred Close makes the buffer longer, wherever it puts its contents.
LEMMA DeferredFacts ==
    ASSUME SendInv, DeferredClose
    PROVE  /\ array' \in Seq(Cells) /\ Len(array') >= Len(array)
           /\ unread' \in Seq(Cells) /\ Len(unread') = Len(unread) + 1
           /\ off' \in Nat
           /\ \/ off' = 0
              \/ off' = off /\ off + Len(unread') <= Len(array')
<1>1. /\ unread' = Append(unread, Boundary) /\ unread' \in Seq(Cells)
      /\ Len(unread') = Len(unread) + 1
  BY PartFacts DEF DeferredClose, SendInv
<1>2. ASSUME NEW first \in Nat \ {0}, NEW cells \in Seq(Cells), first <= Len(array) + 1
      PROVE  /\ Overwrite(first, cells) \in Seq(Cells)
             /\ Len(Overwrite(first, cells)) >= Len(array)
             /\ Len(Overwrite(first, cells)) >= first + Len(cells) - 1
  <2> DEFINE n == IF first + Len(cells) - 1 > Len(array) THEN first + Len(cells) - 1
                                                         ELSE Len(array)
  <2>1. n \in Nat /\ n >= Len(array) /\ n >= first + Len(cells) - 1 /\ Len(array) \in Nat
        /\ Len(cells) \in Nat
    BY <1>2 DEF SendInv
  <2>2. Overwrite(first, cells) \in [1 .. n -> Cells]
    BY <1>2, <2>1 DEF Overwrite, SendInv
  <2> HIDE DEF n
  <2>3. Overwrite(first, cells) \in Seq(Cells) /\ Len(Overwrite(first, cells)) = n
    BY <2>1, <2>2
  <2> QED
    BY <2>1, <2>3
<1>3. <<Boundary>> \in Seq(Cells) /\ Len(<<Boundary>>) = 1
  BY PartFacts
<1>4. /\ off \in Nat /\ Len(unread) \in Nat /\ Len(array) \in Nat
      /\ off + Len(unread) <= Len(array)
  BY DEF SendInv, DeferredClose
<1>5. CASE array' = Overwrite(off + Len(unread) + 1, <<Boundary>>) /\ off' = off
  <2> DEFINE first == off + Len(unread) + 1
  <2>1. first \in Nat \ {0} /\ first <= Len(array) + 1
    BY <1>4
  <2>2. /\ array' \in Seq(Cells) /\ Len(array') >= Len(array)
        /\ Len(array') >= first + Len(<<Boundary>>) - 1
    BY <1>2, <1>3, <1>5, <2>1
  <2> QED
    BY <1>1, <1>3, <1>4, <1>5, <2>2
<1>6. CASE array' = Overwrite(1, unread') /\ off' = 0
  <2>1. array' \in Seq(Cells) /\ Len(array') >= Len(array)
    <3>1. 1 \in Nat \ {0} /\ 1 <= Len(array) + 1
      BY <1>4
    <3>2. Overwrite(1, unread') \in Seq(Cells) /\ Len(Overwrite(1, unread')) >= Len(array)
      BY <1>1, <1>2, <3>1
    <3> QED
      BY <1>6, <3>2
  <2> QED
    BY <1>1, <1>6, <2>1
<1>7. CASE array' = array /\ off' = 0
  BY <1>1, <1>4, <1>7 DEF SendInv
<1> QED
  BY <1>5, <1>6, <1>7 DEF DeferredClose

\* More room, and an offset that is the same or nothing.
LEMMA RoomLeft ==
    \A f, u, a, b, o, x, y \in Nat :
        f <= a /\ a <= b /\ f <= u + o /\ x + f <= a + o /\ (y = 0 \/ y = x)
          => f <= u + 1 + o /\ y + f <= b + o
OBVIOUS

LEMMA SendStep == FormInv /\ FormInv' /\ SendInv /\ [Next]_vars => SendInv'
<1> SUFFICES ASSUME FormInv, FormInv', SendInv, [Next]_vars PROVE SendInv'
  OBVIOUS
<1>1. CASE WriteField \/ OpenFile \/ CopyFile
  <2>1. Building /\ UNCHANGED <<form, hop, wire>>
    BY <1>1 DEF WriteField, OpenFile, CopyFile, FormInv
  <2>2. UNCHANGED <<array, unread, off>> \/ Building'
    BY <1>1 DEF WriteField, OpenFile, CopyFile, FormInv, buffer
  <2> QED
    BY <2>1, <2>2 DEF Building, SendInv, NotSent, ReadsBuffer
<1>2. CASE CloseForm
  <2>1. Building /\ UNCHANGED <<hop, wire>> /\ array' = form' /\ unread' = form' /\ off' = 0
    BY <1>2 DEF CloseForm, FormInv
  <2> QED
    BY <2>1 DEF Building, FormInv, SendInv, NotSent, ReadsBuffer
<1>3. CASE Do
  <2>1. 1 \in Hops /\ hop = 0
    BY <1>3, MultipartAssumption DEF Do, FormInv, Hops
  <2>2. PICK from \in {"buffer", "array"} : Begin(1, from)
    BY <1>3 DEF Do
  <2>3. UNCHANGED <<array, unread, off, form>> /\ pc = "do" /\ pc' = "exchange"
    BY <1>3 DEF Do, buffer
  <2> QED
    BY <2>1, <2>2, <2>3, BeginFacts DEF FormInv, SendInv, ReadsBuffer, Hops, NotSent
<1>4. CASE SendAgain
  <2>1. hop + 1 \in Hops /\ hop > 0
    BY <1>4, MultipartAssumption DEF SendAgain, FormInv, Hops, SendInv
  <2>2. Begin(hop + 1, "array")
    BY <1>4 DEF SendAgain
  <2>3. UNCHANGED <<array, unread, off, form, pc>>
    BY <1>4 DEF SendAgain, buffer
  <2>4. /\ hop' = hop + 1 /\ wire' \in [Hops -> Sending]
        /\ wire'[hop + 1].from = "array" /\ wire'[hop + 1].out = <<>>
        /\ \A g \in Hops \ {hop + 1} : wire'[g] = wire[g]
    BY <2>1, <2>2, BeginFacts
  <2>5. \A g \in Hops : g > hop' => wire'[g] = NotSent
    BY <2>1, <2>4 DEF SendInv, Hops
  <2>6. \A g \in Hops : Len(wire'[g].out) <= Len(form)
    BY <2>4 DEF SendInv, FormInv
  <2>7. \A g \in Hops : ReadsBuffer(g)' => ReadsBuffer(g) /\ wire'[g] = wire[g]
    BY <2>4 DEF ReadsBuffer
  <2>8. hop' \in 0 .. MaxHops
    BY <2>1, <2>4 DEF Hops
  <2>9. \A g \in Hops : ReadsBuffer(g)' =>
           /\ g = 1
           /\ Len(form) <= Len(unread) + Len(wire'[g].out)
           /\ off + Len(form) <= Len(array) + Len(wire'[g].out)
    BY <2>7 DEF SendInv
  <2> QED
    BY <2>3, <2>4, <2>5, <2>6, <2>8, <2>9 DEF SendInv
<1>5. CASE Return
  BY <1>5 DEF Return, SendInv, ReadsBuffer, buffer
<1>6. CASE DeferredClose
  <2>1. UNCHANGED <<form, hop, wire>> /\ pc' = "closed"
    BY <1>6 DEF DeferredClose
  <2>2. Len(form) \in Nat /\ Len(array) \in Nat /\ Len(array') \in Nat
    BY <1>6, DeferredFacts DEF FormInv, SendInv
  <2>3. \A h \in Hops : Len(wire[h].out) \in Nat
    BY DEF SendInv, Sending
  <2>4. /\ array' \in Seq(Cells) /\ unread' \in Seq(Cells) /\ off' \in Nat
        /\ Len(array') >= Len(array) /\ Len(unread') = Len(unread) + 1
        /\ Len(unread) \in Nat
        /\ off' = 0 \/ (off' = off /\ off + Len(unread') <= Len(array'))
    BY <1>6, DeferredFacts DEF SendInv
  <2>5. off' <= Len(array') /\ Len(form') <= Len(array')
    BY <2>1, <2>2, <2>4 DEF SendInv
  <2>6. \A h \in Hops : ReadsBuffer(h)' <=> ReadsBuffer(h)
    BY <2>1 DEF ReadsBuffer
  <2>7. ASSUME NEW h \in Hops, ReadsBuffer(h)
        PROVE  /\ h = 1
               /\ Len(form') <= Len(unread') + Len(wire'[h].out)
               /\ off' + Len(form') <= Len(array') + Len(wire'[h].out)
    <3>1. /\ h = 1 /\ Len(form) <= Len(array)
          /\ Len(form) <= Len(unread) + Len(wire[h].out)
          /\ off + Len(form) <= Len(array) + Len(wire[h].out)
      BY <2>7 DEF SendInv
    <3>2. off \in Nat /\ Len(unread) \in Nat /\ Len(wire[h].out) \in Nat
      BY <2>3, <2>4 DEF SendInv
    <3>3. /\ Len(form) <= Len(unread) + 1 + Len(wire[h].out)
          /\ off' + Len(form) <= Len(array') + Len(wire[h].out)
      BY <2>2, <2>4, <3>1, <3>2, RoomLeft
    <3>4. wire' = wire /\ form' = form /\ Len(unread') = Len(unread) + 1
      BY <2>1, <2>4
    <3> QED
      BY <3>1, <3>3, <3>4
  <2> QED
    BY <2>1, <2>4, <2>5, <2>6, <2>7 DEF SendInv
<1>7. ASSUME NEW h \in Hops, WriteChunk(h) PROVE SendInv'
  <2>1. \A g \in Hops : Len(wire[g].out) \in Nat /\ Len(form) \in Nat /\ Len(array) \in Nat
    BY DEF SendInv, Sending, FormInv
  <2>2. /\ UNCHANGED <<pc, array, form, hop>>
        /\ wire[h].state = "writing" /\ Len(wire[h].out) < Len(form)
        /\ IF wire[h].from = "buffer" THEN off' = off + 1 ELSE UNCHANGED <<unread, off>>
    BY <1>7 DEF WriteChunk
  <2>3. h <= hop
    BY <2>2 DEF SendInv, NotSent, Hops
  <2>4. \A g \in Hops : Len(wire'[g].out) <= Len(form)
    <3>1. Len(wire'[h].out) = Len(wire[h].out) + 1 /\ \A g \in Hops \ {h} : wire'[g] = wire[g]
      BY <1>7, ChunkFacts
    <3>2. Len(wire'[h].out) <= Len(form)
      BY <2>1, <2>2, <3>1
    <3>3. \A g \in Hops \ {h} : Len(wire'[g].out) <= Len(form)
      BY <3>1 DEF SendInv
    <3> QED
      BY <3>2, <3>3
  <2>5. \A g \in Hops : g > hop => wire'[g] = NotSent
    <3>1. hop \in Nat /\ h \in Nat
      BY MultipartAssumption DEF SendInv, Hops
    <3>2. \A g \in Hops : g > hop => g # h
      BY <2>3, <3>1 DEF Hops
    <3> QED
      BY <1>7, <3>2, ChunkFacts DEF SendInv
  <2>6. CASE wire[h].from = "buffer"
    <3>1. ReadsBuffer(h) /\ h = 1
      BY <2>2, <2>6 DEF ReadsBuffer, SendInv
    <3>2. ASSUME NEW g \in Hops, ReadsBuffer(g)' PROVE g = h
      <4>1. CASE g # h
        <5>1. wire'[g] = wire[g]
          BY <1>7, <4>1, ChunkFacts
        <5>2. ReadsBuffer(g) /\ ReadsBuffer(h)
          BY <3>1, <3>2, <5>1 DEF ReadsBuffer
        <5> QED
          BY <5>2 DEF SendInv
      <4> QED
        BY <4>1
    <3>3. /\ off' = off + 1 /\ Len(unread') = Len(unread) - 1 /\ unread' \in Seq(Cells)
          /\ Len(wire'[h].out) = Len(wire[h].out) + 1 /\ wire' \in [Hops -> Sending]
      BY <1>7, <2>2, <2>6, ChunkFacts
    <3>4. off' \in Nat /\ off' <= Len(array)
      BY <2>1, <2>2, <3>1, <3>3 DEF SendInv
    <3>5. off' + Len(unread') <= Len(array) \/ pc = "closed"
      BY <2>1, <3>3 DEF SendInv
    <3>6. /\ Len(form) <= Len(unread') + Len(wire'[h].out)
          /\ off' + Len(form) <= Len(array) + Len(wire'[h].out)
      BY <2>1, <3>1, <3>3 DEF SendInv
    <3> QED
      BY <2>2, <2>4, <2>5, <3>1, <3>2, <3>3, <3>4, <3>5, <3>6 DEF SendInv
  <2>7. CASE wire[h].from # "buffer"
    <3>1. UNCHANGED <<unread, off>>
      BY <2>2, <2>7
    <3>2. \A g \in Hops : ReadsBuffer(g)' => ReadsBuffer(g) /\ wire'[g] = wire[g]
      BY <1>7, <2>7, ChunkFacts DEF ReadsBuffer
    <3> QED
      BY <1>7, <2>2, <2>4, <2>5, <3>1, <3>2, ChunkFacts DEF SendInv
  <2> QED
    BY <2>6, <2>7
<1>8. ASSUME NEW h \in Hops, FinishWrite(h) PROVE SendInv'
  <2>1. /\ UNCHANGED <<pc, array, form, hop>> /\ wire[h].state = "writing"
        /\ IF wire[h].from = "buffer" THEN unread' = <<>> /\ off' = 0
                                      ELSE UNCHANGED <<unread, off>>
    BY <1>8 DEF FinishWrite
  <2>2. h <= hop
    BY <2>1 DEF SendInv, NotSent, Hops
  <2>3. \A g \in Hops : g > hop => wire'[g] = NotSent
    BY <1>8, <2>2, FinishFacts DEF SendInv, Hops
  <2>4. \A g \in Hops : ReadsBuffer(g)' => ReadsBuffer(g) /\ wire'[g] = wire[g] /\ g # h
    BY <1>8, FinishFacts DEF ReadsBuffer
  <2>5. \A g \in Hops : wire'[g].out = wire[g].out
    BY <1>8, FinishFacts
  <2>6. wire[h].from = "buffer" => \A g \in Hops : ~ReadsBuffer(g)'
    BY <2>1, <2>4 DEF SendInv, ReadsBuffer
  <2>7. wire' \in [Hops -> Sending]
    BY <1>8, FinishFacts
  <2>8. /\ unread' \in Seq(Cells) /\ off' \in Nat /\ off' <= Len(array)
        /\ off' + Len(unread') <= Len(array) \/ pc = "closed"
    <3>1. CASE unread' = <<>> /\ off' = 0
      <4>1. Len(array) \in Nat /\ unread' \in Seq(Cells) /\ Len(unread') = 0
        BY <3>1 DEF SendInv
      <4> QED
        BY <3>1, <4>1
    <3>2. CASE UNCHANGED <<unread, off>>
      BY <3>2 DEF SendInv
    <3> QED
      BY <2>1, <3>1, <3>2
  <2>9. ASSUME NEW g \in Hops, ReadsBuffer(g)'
        PROVE  /\ g = 1
               /\ Len(form) <= Len(unread') + Len(wire'[g].out)
               /\ off' + Len(form) <= Len(array) + Len(wire'[g].out)
    BY <2>1, <2>4, <2>6, <2>9 DEF SendInv
  <2> QED
    BY <2>1, <2>3, <2>5, <2>7, <2>8, <2>9 DEF SendInv
<1>9. CASE UNCHANGED vars
  BY <1>9 DEF vars, buffer, SendInv, ReadsBuffer
<1> QED
  BY <1>1, <1>2, <1>3, <1>4, <1>5, <1>6, <1>7, <1>8, <1>9 DEF Next, Terminated
-----------------------------------------------------------------------------
(***************************************************************************)
(* What the sendings carry, when nobody defers a Close or there is a retry *)
(* layer, so that nobody reads the buffer to which the Close writes.       *)
(***************************************************************************)
Undisturbed == way.ex => way.retrying

Carried ==
    /\ \A i \in 1 .. Len(form) : array[i] = form[i]
    /\ way.retrying /\ pc # "closed" => off = 0 /\ unread = array
    /\ ~way.ex => pc # "closed"
    /\ \A h \in Hops :
          /\ wire[h].from = "buffer" => ~way.retrying
          /\ wire[h].state # "broken"
          /\ \A i \in 1 .. Len(wire[h].out) : wire[h].out[i] = form[i]
          /\ ReadsBuffer(h) =>
                /\ Len(unread) = Len(form) - Len(wire[h].out)
                /\ \A i \in 1 .. Len(unread) : unread[i] = form[Len(wire[h].out) + i]

LEMMA CarriedInit == Init => Carried
BY MultipartAssumption DEF Init, Carried, NotSent, ReadsBuffer, Hops

LEMMA NextCell == \A o, q, i \in Nat : q = o + 1 => o + (i + 1) = q + i
OBVIOUS

LEMMA CarriedStep ==
    ASSUME Undisturbed, FormInv, FormInv', SendInv, SendInv', Carried, [Next]_vars
    PROVE  Carried'
<1>1. CASE WriteField \/ OpenFile \/ CopyFile
  <2>1. Building /\ UNCHANGED <<form, hop, wire, way>> /\ pc' # "closed"
    BY <1>1 DEF WriteField, OpenFile, CopyFile, FormInv
  <2>2. UNCHANGED <<array, unread, off>> \/ Building'
    BY <1>1 DEF WriteField, OpenFile, CopyFile, FormInv, buffer
  <2>3. \A h \in Hops : wire[h] = NotSent
    BY <2>1 DEF Building, SendInv, Hops
  <2> QED
    BY <2>1, <2>2, <2>3 DEF Building, Carried, NotSent, ReadsBuffer
<1>2. CASE CloseForm
  <2>1. /\ Building /\ UNCHANGED <<hop, wire, way>> /\ array' = form' /\ unread' = array'
        /\ off' = 0 /\ pc' = "do"
    BY <1>2 DEF CloseForm, FormInv
  <2>2. \A h \in Hops : wire[h] = NotSent
    BY <2>1 DEF Building, SendInv, Hops
  <2> QED
    BY <2>1, <2>2 DEF Carried, NotSent, ReadsBuffer
<1>3. CASE Do
  <2>1. 1 \in Hops /\ Begin(1, IF way.retrying THEN "array" ELSE "buffer")
    BY <1>3, MultipartAssumption DEF Do, Hops
  <2>2. UNCHANGED <<array, unread, off, form, way>> /\ pc = "do" /\ pc' = "exchange"
    BY <1>3 DEF Do, buffer
  <2>3. array = form /\ unread = array /\ off = 0 /\ hop = 0
    BY <2>2 DEF FormInv
  <2>4. /\ wire'[1].from = IF way.retrying THEN "array" ELSE "buffer"
        /\ wire'[1].out = <<>> /\ wire'[1].state = "writing"
        /\ \A g \in Hops \ {1} : wire'[g] = wire[g]
    BY <2>1, BeginFacts
  <2>5. \A g \in Hops \ {1} : wire'[g] = NotSent
    BY <2>3, <2>4 DEF SendInv, Hops
  <2> QED
    BY <2>2, <2>3, <2>4, <2>5 DEF Carried, ReadsBuffer, NotSent, FormInv
<1>4. CASE SendAgain
  <2>1. hop + 1 \in Hops /\ Begin(hop + 1, "array")
    BY <1>4, MultipartAssumption DEF SendAgain, Hops, SendInv
  <2>2. UNCHANGED <<array, unread, off, form, pc, way>>
    BY <1>4 DEF SendAgain, buffer
  <2>3. /\ wire'[hop + 1].from = "array" /\ wire'[hop + 1].out = <<>>
        /\ wire'[hop + 1].state = "writing"
        /\ \A g \in Hops \ {hop + 1} : wire'[g] = wire[g]
    BY <2>1, BeginFacts
  <2>4. ASSUME NEW h \in Hops
        PROVE  /\ wire'[h].from = "buffer" => ~way.retrying
               /\ wire'[h].state # "broken"
               /\ \A i \in 1 .. Len(wire'[h].out) : wire'[h].out[i] = form[i]
               /\ ReadsBuffer(h)' =>
                     /\ Len(unread) = Len(form) - Len(wire'[h].out)
                     /\ \A i \in 1 .. Len(unread) : unread[i] = form[Len(wire'[h].out) + i]
    <3>1. CASE h = hop + 1
      BY <2>3, <3>1 DEF ReadsBuffer
    <3>2. CASE h # hop + 1
      <4>1. wire'[h] = wire[h]
        BY <2>3, <3>2
      <4> QED
        BY <4>1 DEF Carried, ReadsBuffer
    <3> QED
      BY <3>1, <3>2
  <2>5. /\ \A i \in 1 .. Len(form) : array[i] = form[i]
        /\ way.retrying /\ pc # "closed" => off = 0 /\ unread = array
        /\ ~way.ex => pc # "closed"
    BY DEF Carried
  <2> QED
    BY <2>2, <2>4, <2>5, Zenon DEF Carried
<1>5. CASE Return
  BY <1>5 DEF Return, Carried, ReadsBuffer, buffer
<1>6. CASE DeferredClose
  <2>1. UNCHANGED <<form, wire, way>> /\ pc = "returned" /\ pc' = "closed" /\ way.ex
    BY <1>6 DEF DeferredClose, DefersClose
  <2>2. way.retrying /\ off = 0 /\ unread = array
    BY <2>1 DEF Undisturbed, FormInv, Carried
  <2>3. \A i \in 1 .. Len(array) : array'[i] = array[i]
    <3>1. array' = array \/ array' = Overwrite(off + Len(unread) + 1, <<Boundary>>)
      BY <1>6, <2>2 DEF DeferredClose
    <3>2. ASSUME NEW i \in 1 .. Len(array)
          PROVE  Overwrite(off + Len(unread) + 1, <<Boundary>>)[i] = array[i]
      BY <2>2 DEF Overwrite, SendInv
    <3> QED
      BY <3>1, <3>2
  <2>4. \A i \in 1 .. Len(form) : i \in 1 .. Len(array)
    BY DEF SendInv, FormInv
  <2> QED
    BY <2>1, <2>2, <2>3, <2>4 DEF Carried, ReadsBuffer
<1>7. ASSUME NEW h \in Hops, WriteChunk(h) PROVE Carried'
  <2>1. /\ UNCHANGED <<pc, array, form, hop, way>>
        /\ wire[h].state = "writing" /\ Len(wire[h].out) < Len(form)
        /\ IF wire[h].from = "buffer" THEN off' = off + 1 ELSE UNCHANGED <<unread, off>>
    BY <1>7 DEF WriteChunk
  <2>2. /\ Len(wire[h].out) \in Nat /\ Len(form) \in Nat /\ Len(unread) \in Nat
        /\ Len(wire'[h].out) \in Nat /\ Len(unread') \in Nat
    BY DEF SendInv, Sending, FormInv
  <2>3. wire'[h].out[Len(wire[h].out) + 1] = form[Len(wire[h].out) + 1]
    <3>1. CASE wire[h].from = "buffer"
      <4>1. /\ Len(unread) = Len(form) - Len(wire[h].out)
            /\ \A i \in 1 .. Len(unread) : unread[i] = form[Len(wire[h].out) + i]
        BY <2>1, <3>1 DEF Carried, ReadsBuffer
      <4>2. 1 \in 1 .. Len(unread)
        BY <2>1, <2>2, <4>1
      <4> QED
        BY <1>7, <3>1, <4>1, <4>2, ChunkFacts
    <3>2. CASE wire[h].from # "buffer"
      <4>1. Len(wire[h].out) + 1 \in 1 .. Len(form)
        BY <2>1, <2>2
      <4> QED
        BY <1>7, <3>2, <4>1, ChunkFacts DEF Carried
    <3> QED
      BY <3>1, <3>2
  <2>4. \A i \in 1 .. Len(wire'[h].out) : wire'[h].out[i] = form[i]
    <3>1. /\ Len(wire'[h].out) = Len(wire[h].out) + 1
          /\ \A i \in 1 .. Len(wire[h].out) : wire'[h].out[i] = wire[h].out[i]
      BY <1>7, ChunkFacts
    <3>2. \A i \in 1 .. Len(wire[h].out) : wire[h].out[i] = form[i]
      BY DEF Carried
    <3>3. \A i \in 1 .. Len(wire'[h].out) :
             i \in 1 .. Len(wire[h].out) \/ i = Len(wire[h].out) + 1
      BY <2>2, <3>1
    <3> QED
      BY <2>3, <3>1, <3>2, <3>3
  <2>5. way.retrying /\ pc # "closed" => UNCHANGED <<unread, off>>
    BY <2>1 DEF Carried
  <2>6. ASSUME NEW g \in Hops, ReadsBuffer(g)'
        PROVE  /\ Len(unread') = Len(form) - Len(wire'[g].out)
               /\ \A i \in 1 .. Len(unread') : unread'[i] = form[Len(wire'[g].out) + i]
    <3>1. ReadsBuffer(g) /\ (ReadsBuffer(h) => g = h)
      BY <1>7, <2>1, <2>6, ChunkFacts DEF ReadsBuffer, SendInv
    <3>2. CASE g = h
      <4>1. /\ wire[h].from = "buffer"
            /\ Len(unread) = Len(form) - Len(wire[h].out)
            /\ \A i \in 1 .. Len(unread) : unread[i] = form[Len(wire[h].out) + i]
        BY <3>1, <3>2 DEF ReadsBuffer, Carried
      <4>2. /\ Len(unread') = Len(unread) - 1 /\ Len(wire'[h].out) = Len(wire[h].out) + 1
            /\ \A i \in 1 .. Len(unread) - 1 : unread'[i] = unread[i + 1]
        BY <1>7, <4>1, ChunkFacts
      <4>3. Len(unread') = Len(form) - Len(wire'[h].out)
        <5> DEFINE u == Len(unread)
                   f == Len(form)
                   o == Len(wire[h].out)
                   v == Len(unread')
                   q == Len(wire'[h].out)
        <5>1. u \in Nat /\ f \in Nat /\ o \in Nat /\ v \in Nat /\ q \in Nat
          BY <2>2
        <5>2. u = f - o /\ v = u - 1 /\ q = o + 1
          BY <4>1, <4>2
        <5> HIDE DEF u, f, o, v, q
        <5>3. v = f - q
          BY <5>1, <5>2
        <5> QED
          BY <5>3 DEF v, f, q
      <4>4. ASSUME NEW i \in 1 .. Len(unread')
            PROVE  unread'[i] = form[Len(wire'[h].out) + i]
        <5>1. i \in 1 .. Len(unread) - 1 /\ i + 1 \in 1 .. Len(unread) /\ i \in Nat
          BY <2>2, <4>2
        <5>2. unread'[i] = form[Len(wire[h].out) + (i + 1)]
          BY <4>1, <4>2, <5>1
        <5>3. /\ Len(wire[h].out) \in Nat /\ Len(wire'[h].out) \in Nat /\ i \in Nat
              /\ Len(wire'[h].out) = Len(wire[h].out) + 1
          BY <2>2, <4>2, <5>1
        <5>4. Len(wire[h].out) + (i + 1) = Len(wire'[h].out) + i
          BY <5>3, NextCell, Zenon
        <5> QED
          BY <5>2, <5>4, Zenon
      <4> QED
        BY <3>2, <4>3, <4>4
    <3>3. CASE g # h
      <4>1. UNCHANGED unread /\ wire'[g] = wire[g]
        BY <1>7, <2>1, <3>1, <3>3, ChunkFacts DEF ReadsBuffer
      <4> QED
        BY <3>1, <4>1 DEF Carried
    <3> QED
      BY <3>2, <3>3
  <2>7. \A g \in Hops : /\ wire'[g].from = wire[g].from /\ wire'[g].state = wire[g].state
                        /\ g # h => wire'[g] = wire[g]
    BY <1>7, ChunkFacts
  <2> QED
    BY <2>1, <2>4, <2>5, <2>6, <2>7 DEF Carried
<1>8. ASSUME NEW h \in Hops, FinishWrite(h) PROVE Carried'
  <2>1. /\ UNCHANGED <<pc, array, form, hop, way>> /\ wire[h].state = "writing"
        /\ Len(wire[h].out) = Len(form)
        /\ wire[h].from # "buffer" => UNCHANGED <<unread, off>>
    BY <1>8 DEF FinishWrite
  <2>2. wire[h].from = "buffer" => unread = <<>>
    <3> SUFFICES ASSUME wire[h].from = "buffer" PROVE unread = <<>>
      OBVIOUS
    <3>1. Len(unread) = Len(form) - Len(wire[h].out) /\ unread \in Seq(Cells)
      BY <2>1 DEF Carried, ReadsBuffer, SendInv
    <3>2. Len(form) \in Nat
      BY DEF FormInv
    <3>3. Len(unread) = 0
      BY <2>1, <3>1, <3>2
    <3> QED
      BY <3>1, <3>3
  <2>3. /\ wire'[h].state = "done" /\ wire'[h].from = wire[h].from
        /\ \A g \in Hops : wire'[g].out = wire[g].out
        /\ \A g \in Hops \ {h} : wire'[g] = wire[g]
    BY <1>8, <2>2, FinishFacts
  <2>4. \A g \in Hops : ReadsBuffer(g)' => ReadsBuffer(g) /\ g # h /\ wire'[g] = wire[g]
    BY <2>3 DEF ReadsBuffer
  <2>5. \A g \in Hops : ReadsBuffer(g)' => UNCHANGED unread
    BY <2>1, <2>4 DEF ReadsBuffer, SendInv
  <2>6. way.retrying => UNCHANGED <<unread, off>>
    BY <2>1 DEF Carried
  <2>7. \A g \in Hops : wire'[g].from = wire[g].from
    BY <2>3
  <2>8. \A g \in Hops : wire'[g].state = wire[g].state \/ wire'[g].state = "done"
    BY <2>3
  <2>9. /\ \A i \in 1 .. Len(form') : array'[i] = form'[i]
        /\ way'.retrying /\ pc' # "closed" => off' = 0 /\ unread' = array'
        /\ ~way'.ex => pc' # "closed"
    BY <2>1, <2>6 DEF Carried
  <2>10. ASSUME NEW g \in Hops
         PROVE  /\ wire'[g].from = "buffer" => ~way'.retrying
                /\ wire'[g].state # "broken"
                /\ \A i \in 1 .. Len(wire'[g].out) : wire'[g].out[i] = form'[i]
    BY <2>1, <2>3, <2>7, <2>8 DEF Carried
  <2>11. ASSUME NEW g \in Hops, ReadsBuffer(g)'
         PROVE  /\ Len(unread') = Len(form') - Len(wire'[g].out)
                /\ \A i \in 1 .. Len(unread') : unread'[i] = form'[Len(wire'[g].out) + i]
    <3>1. ReadsBuffer(g) /\ wire'[g] = wire[g] /\ UNCHANGED <<unread, form>>
      BY <2>1, <2>4, <2>5, <2>11
    <3> QED
      BY <3>1 DEF Carried
  <2> QED
    BY <2>9, <2>10, <2>11 DEF Carried
<1>9. CASE UNCHANGED vars
  BY <1>9 DEF vars, buffer, Carried, ReadsBuffer
<1> QED
  BY <1>1, <1>2, <1>3, <1>4, <1>5, <1>6, <1>7, <1>8, <1>9 DEF Next, Terminated
-----------------------------------------------------------------------------
(***************************************************************************)
(* The theorems.                                                           *)
(***************************************************************************)
LEMMA FormCorrect == Spec => [](FormInv /\ SendInv)
BY FormInit, FormStep, SendInit, SendStep, PTL DEF Spec

\* Every variable keeps its type, and no file stays open, whichever verb is
\* used and whether or not there is a retry layer.
THEOREM TypeCorrect == Spec => []TypeOK
<1>1. FormInv /\ SendInv => TypeOK
  BY DEF FormInv, SendInv, Sending, TypeOK
<1> QED
  BY <1>1, FormCorrect, PTL

\* What is sent has every part once, and the boundary behind them.
THEOREM WholeFormCorrect == Spec => []WholeFormOrNone
<1>1. FormInv => WholeFormOrNone
  BY DEF FormInv, Whole, WholeFormOrNone
<1> QED
  BY <1>1, FormCorrect, PTL

\* Every sending carries the form, however its write loop interleaves with the
\* others and with the deferred Close, except that of PostMultipartEx without a
\* retry layer, whose deferred Close may meet the reader of the buffer.
THEOREM CarriedCorrect == Spec => [](Undisturbed => BodyPassedAsIs)
<1>1. FormInv /\ SendInv /\ Carried => BodyPassedAsIs
  BY DEF FormInv, SendInv, Sending, Carried, BodyPassedAsIs, IsPrefix
<1>2. Init => (Undisturbed => Carried)
  BY CarriedInit
<1>3. /\ FormInv /\ SendInv /\ FormInv' /\ SendInv'
      /\ (Undisturbed => Carried) /\ [Next]_vars
      => (Undisturbed => Carried)'
  <2>1. [Next]_vars => UNCHANGED way
    BY DEF Next, WriteField, OpenFile, CopyFile, CloseForm, Do, SendAgain, Return,
           DeferredClose, WriteChunk, FinishWrite, Terminated, vars
  <2>2. [Next]_vars /\ Undisturbed' => Undisturbed
    BY <2>1 DEF Undisturbed
  <2> QED
    BY <2>2, CarriedStep
<1>4. Spec => [](Undisturbed => Carried)
  BY <1>2, <1>3, FormCorrect, PTL DEF Spec
<1> QED
  BY <1>1, <1>4, FormCorrect, PTL
=============================================================================
