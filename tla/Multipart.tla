----------------------------- MODULE Multipart -----------------------------
(***************************************************************************)
(* PostMultipart and PostMultipartEx (http_client.go), loadFormFile        *)
(* (http_util.go) and what the transport reads meanwhile.  The form is in  *)
(* a bytes.Buffer that Do gets as the body; the transport's write loop     *)
(* reads it in a goroutine of its own, which an early answer of the server *)
(* leaves running when Do returns.  GetBody's readers share the buffer's   *)
(* array.  A part or a closing boundary is one cell.                       *)
(***************************************************************************)
EXTENDS Integers, SequencesExt

CONSTANTS
    NumParts,
    Files,     \* parts whose key begins with '@'
    Ways,      \* [ex, retrying]: PostMultipartEx?  is there a retry layer?
    MaxHops    \* bound: sendings, by a redirect that keeps the body or a retry

ASSUME MultipartAssumption ==
    /\ NumParts \in Nat /\ Files \subseteq 1 .. NumParts
    /\ Ways \subseteq [ex : BOOLEAN, retrying : BOOLEAN]
    /\ MaxHops \in Nat \ {0}

VARIABLES
    way, pc,
    left,      \* parts to be written
    opened,    \* the file being copied
    array,     \* the array GetBody's readers see
    unread,    \* what the buffer still holds
    off,       \* its read offset in the array
    form,      \* the body as it was handed to Do
    hop, wire  \* per sending: from where, and what has gone out

buffer == <<array, unread, off>>
vars == <<way, pc, left, opened, buffer, form, hop, wire>>

Boundary == 0
NoFile   == 0
Hops     == 1 .. MaxHops
Cells    == 0 .. NumParts + 1
NotSent  == [from |-> "none", out |-> <<>>, state |-> "idle"]

TypeOK ==
    /\ way \in Ways
    /\ pc \in {"build", "copy", "do", "exchange", "returned", "closed"}
    /\ left \subseteq 1 .. NumParts
    /\ opened \in Files \cup {NoFile}
    /\ opened # NoFile <=> pc = "copy"   \* no file stays open
    /\ array \in Seq(Cells) /\ unread \in Seq(Cells) /\ off \in 0 .. Len(array)
    /\ off + Len(unread) <= Len(array) \/ pc = "closed"
    /\ form \in Seq(Cells)
    /\ hop \in 0 .. MaxHops
    /\ wire \in [Hops -> [from : {"none", "buffer", "array"}, out : Seq(Cells),
                          state : {"idle", "writing", "done", "broken"}]]

Init ==
    /\ way \in Ways
    /\ pc = "build"
    /\ left = 1 .. NumParts
    /\ opened = NoFile
    /\ array = <<>> /\ unread = <<>> /\ off = 0
    /\ form = <<>>
    /\ hop = 0
    /\ wire = [h \in Hops |-> NotSent]
-----------------------------------------------------------------------------
(***************************************************************************)
(* Building the form.                                                      *)
(***************************************************************************)
Written(cell) ==
    /\ array' = Append(array, cell)
    /\ unread' = Append(unread, cell)

\* PostMultipart takes the fields in the order of a map, PostMultipartEx in its
\* slice's.
Upcoming == {part \in left : way.ex => \A other \in left : part <= other}

WriteField ==
    /\ pc = "build"
    /\ \E part \in Upcoming \ Files : Written(part) /\ left' = left \ {part}
    /\ UNCHANGED <<way, pc, opened, off, form, hop, wire>>

OpenFile ==
    /\ pc = "build"
    /\ \E part \in Upcoming \cap Files :
          \/ opened' = part /\ pc' = "copy"
          \/ UNCHANGED opened /\ pc' = "returned"
    /\ UNCHANGED <<way, left, buffer, form, hop, wire>>

\* Mutant: the error of io.Copy is lost, and the part is short.
CopyLosingErrors ==
    /\ pc = "copy"
    /\ \/ Written(opened)
       \/ UNCHANGED <<array, unread>>
    /\ left' = left \ {opened}
    /\ pc' = "build"
    /\ opened' = NoFile
    /\ UNCHANGED <<way, off, form, hop, wire>>

\* Mutant: the file is closed only when it has been copied.
CopyLeavingOpen ==
    /\ pc = "copy"
    /\ \/ Written(opened) /\ left' = left \ {opened} /\ pc' = "build" /\ opened' = NoFile
       \/ UNCHANGED <<array, unread, left, opened>> /\ pc' = "returned"
    /\ UNCHANGED <<way, off, form, hop, wire>>

\* Reading the file may fail half way; it is closed in any case.
CopyFile ==
    /\ pc = "copy"
    /\ \/ Written(opened) /\ left' = left \ {opened} /\ pc' = "build"
       \/ UNCHANGED <<array, unread, left>> /\ pc' = "returned"
    /\ opened' = NoFile
    /\ UNCHANGED <<way, off, form, hop, wire>>

\* writer.Close, before Do.
CloseForm ==
    /\ pc = "build"
    /\ left = {}
    /\ Written(Boundary)
    /\ form' = array'
    /\ pc' = "do"
    /\ UNCHANGED <<way, left, opened, off, hop, wire>>

(***************************************************************************)
(* Sending it.                                                             *)
(***************************************************************************)
Begin(h, from) ==
    /\ hop' = h
    /\ wire' = [wire EXCEPT ![h] = [NotSent EXCEPT !.from = from, !.state = "writing"]]

\* The first sending reads the buffer itself, unless the retry layer, which
\* takes a reader of GetBody for every attempt, is there.
Do ==
    /\ pc = "do"
    /\ Begin(1, IF way.retrying THEN "array" ELSE "buffer")
    /\ pc' = "exchange"
    /\ UNCHANGED <<way, left, opened, buffer, form>>

\* The request is sent again, with a body of GetBody's, whether or not the
\* server has read the last one to its end.
SendAgain ==
    /\ pc = "exchange"
    /\ hop < MaxHops
    /\ Begin(hop + 1, "array")
    /\ UNCHANGED <<way, pc, left, opened, buffer, form>>

WriteChunk(h) ==
    /\ wire[h].state = "writing"
    /\ Len(wire[h].out) < Len(form)
    /\ IF wire[h].from = "buffer"
       THEN /\ wire' = [wire EXCEPT ![h].out = Append(@, Head(unread))]
            /\ unread' = Tail(unread)
            /\ off' = off + 1
       ELSE /\ wire' = [wire EXCEPT ![h].out = Append(@, array[Len(@) + 1])]
            /\ UNCHANGED <<unread, off>>
    /\ UNCHANGED <<way, pc, left, opened, array, form, hop>>

\* The transport reads on past ContentLength: a body that is longer breaks the
\* connection.  A bytes.Buffer read to its end is reset.
FinishWrite(h) ==
    /\ wire[h].state = "writing"
    /\ Len(wire[h].out) = Len(form)
    /\ IF wire[h].from = "buffer"
       THEN /\ wire' = [wire EXCEPT ![h].state = IF unread = <<>> THEN "done" ELSE "broken"]
            /\ unread' = <<>>
            /\ off' = 0
       ELSE /\ wire' = [wire EXCEPT ![h].state = "done"]
            /\ UNCHANGED <<unread, off>>
    /\ UNCHANGED <<way, pc, left, opened, array, form, hop>>

\* An answer, or an error: it may be there before the body has been written.
Return ==
    /\ pc = "exchange"
    /\ pc' = "returned"
    /\ UNCHANGED <<way, left, opened, buffer, form, hop, wire>>

\* Mutant: PostMultipart defers a Close as PostMultipartEx does.
DefersAlways(w) == TRUE

DefersClose(w) == w.ex

Overwrite(first, cells) ==
    [i \in 1 .. IF first + Len(cells) - 1 > Len(array) THEN first + Len(cells) - 1 ELSE Len(array) |->
        IF i \in first .. first + Len(cells) - 1 THEN cells[i - first + 1] ELSE array[i]]

\* PostMultipartEx's deferred writer.Close: the boundary is written once more.
\* bytes.Buffer has room behind its contents, or moves them to the front, or
\* into a new array.
DeferredClose ==
    /\ pc = "returned"
    /\ DefersClose(way)
    /\ pc' = "closed"
    /\ unread' = Append(unread, Boundary)
    /\ \/ array' = Overwrite(off + Len(unread) + 1, <<Boundary>>) /\ off' = off
       \/ off > 0 /\ array' = Overwrite(1, unread') /\ off' = 0
       \/ unread # <<>> /\ array' = array /\ off' = 0
    /\ UNCHANGED <<way, left, opened, form, hop, wire>>

Terminated ==
    /\ pc = IF DefersClose(way) THEN "closed" ELSE "returned"
    /\ \A h \in Hops : wire[h].state # "writing"
    /\ UNCHANGED vars

Next ==
    \/ WriteField \/ OpenFile \/ CopyFile \/ CloseForm
    \/ Do \/ SendAgain \/ Return \/ DeferredClose
    \/ \E h \in Hops : WriteChunk(h) \/ FinishWrite(h)
    \/ Terminated

Spec == Init /\ [][Next]_vars
-----------------------------------------------------------------------------
(***************************************************************************)
(* Properties.                                                             *)
(***************************************************************************)

\* Do: "Request bodies are passed through as-is."  Every sending, whichever
\* reader it has, however late and beside whichever other, carries the form.
BodyPassedAsIs ==
    \A h \in Hops : wire[h].state # "broken" /\ IsPrefix(wire[h].out, form)

\* A form that could not be built to its end is not sent: what is sent has every
\* part once and the boundary behind them.
WholeFormOrNone ==
    hop > 0 => /\ Range(form) = 1 .. NumParts \cup {Boundary}
               /\ Len(form) = NumParts + 1
               /\ Last(form) = Boundary
=============================================================================
