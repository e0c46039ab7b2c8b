------------------------- MODULE MessageCodecProofs -------------------------
(***************************************************************************)
(* Proofs about Message::Writer and Message::Reader (MessageCodec), for   *)
(* every set of basic types and every bound on length and nesting.        *)
(***************************************************************************)
EXTENDS MessageCodec, SequenceTheorems, TLAPS

USE BasicsAssumption, MaxLenAssumption, MaxDepthAssumption

(* The open tokens of the body.                                           *)
Opens == {p \in 1..Len(body) : body[p].kind = "open"}

-----------------------------------------------------------------------------
(* What the Writers leave in the body.                                    *)

(* An open token has no extent yet exactly while its Writer is open.      *)
UnclosedInStack ==
    /\ \A i \in 1..Len(wstack) : wstack[i].at \in Opens /\ body[wstack[i].at].m = 0
    /\ \A p \in Opens : body[p].m = 0 => \E i \in 1..Len(wstack) : wstack[i].at = p

(* Writers are opened inside one another: the innermost last.             *)
StackIncreasing ==
    \A i, j \in 1..Len(wstack) : i < j => wstack[i].at < wstack[j].at

(* A closed container ends on a close token after its start.              *)
ExtentOnClose ==
    \A p \in Opens : body[p].m # 0 =>
        /\ p < body[p].m /\ body[p].m <= Len(body)
        /\ body[body[p].m].kind = "close"

(* Containers nest: one that starts inside another ends inside it.        *)
Laminar ==
    \A p, r \in Opens : p < r /\ r < body[p].m => body[r].m # 0 /\ body[r].m < body[p].m

(* A closed container ends before every Writer still open after it.      *)
ClosedBeforeOpen ==
    \A p \in Opens, i \in 1..Len(wstack) :
        body[p].m # 0 /\ p < wstack[i].at => body[p].m < wstack[i].at

-----------------------------------------------------------------------------
(* What the Readers see.                                                  *)

(* Each Reader's window [pos, end) lies in the body and holds whole       *)
(* containers.                                                            *)
Windows ==
    \A i \in 1..Len(rstack) :
        /\ 1 <= rstack[i].pos /\ rstack[i].pos <= rstack[i].end
        /\ rstack[i].end <= Len(body) + 1
        /\ \A r \in Opens : rstack[i].pos <= r /\ r < rstack[i].end => body[r].m < rstack[i].end

(* Each Reader below the one in use stands just past the close token of  *)
(* the container the Reader above it reads; the message's Reader spans    *)
(* the whole body.                                                        *)
Nested ==
    /\ \A i \in 1..Len(rstack) - 1 :
          /\ rstack[i].pos = rstack[i + 1].end + 1
          /\ body[rstack[i + 1].end].kind = "close"
    /\ rstack # <<>> => rstack[1].end = Len(body) + 1

(* Everything read so far lies before the Reader in use.                  *)
DecodedBefore ==
    rstack # <<>> => \A j \in 1..Len(decoded) : decoded[j] < Top(rstack).pos

(* Which phase has which Writers and Readers.                             *)
PhaseShape ==
    /\ phase = "write" => rstack = <<>> /\ decoded = <<>>
    /\ phase # "write" => wstack = <<>>
    /\ phase = "read" => rstack # <<>>

CInv ==
    /\ CTypeOK
    /\ UnclosedInStack /\ StackIncreasing /\ ExtentOnClose /\ Laminar /\ ClosedBeforeOpen
    /\ Windows /\ Nested /\ DecodedBefore /\ PhaseShape
    /\ ReadInOrder

-----------------------------------------------------------------------------
(* What a complete decode has read.                                       *)

(* The body positions read so far.                                        *)
ReadPositions == {decoded[j] : j \in 1..Len(decoded)}

(* The basic values of the body before position q.                        *)
BasicsBefore(q) == {i \in 1..Len(body) : i < q /\ body[i].kind = "basic"}

(* While no Reader was dropped early, everything before the cursor in use *)
(* has been read: the pops advanced over every basic value and skipped   *)
(* only open and close tokens.                                            *)
ReadSoFar ==
    ~skipped /\ rstack # <<>> => ReadPositions = BasicsBefore(Top(rstack).pos)

(* A decode that returns normally with every Reader read to its end has   *)
(* read every basic value of the body and nothing else.                  *)
ReadAllBasics ==
    phase = "done" /\ outcome = "ok" /\ ~skipped => ReadPositions = BasicsBefore(Len(body) + 1)

RInv == CInv /\ ReadSoFar /\ ReadAllBasics

-----------------------------------------------------------------------------
(* The type facts the steps rely on.                                      *)

(* Counted adds a value to the innermost Writer and keeps every Writer's  *)
(* kind, element type and start.                                          *)
LEMMA CountedProps ==
    ASSUME NEW s \in Seq(OpenWriters)
    PROVE  /\ Counted(s) \in Seq(OpenWriters)
           /\ Len(Counted(s)) = Len(s)
           /\ \A i \in 1..Len(s) : Counted(s)[i].at = s[i].at /\ Counted(s)[i].k = s[i].k
<1>1. CASE s = <<>>
  BY <1>1 DEF Counted
<1>2. CASE s # <<>>
  <2>1. Len(s) \in 1..Len(s) /\ s[Len(s)] \in OpenWriters
    BY <1>2
  <2>2. Counted(s) = [s EXCEPT ![Len(s)] = [s[Len(s)] EXCEPT !.n = s[Len(s)].n + 1]]
    BY <1>2 DEF Counted
  <2>3. [s[Len(s)] EXCEPT !.n = s[Len(s)].n + 1] \in OpenWriters
    <3>1. s[Len(s)].n + 1 \in Nat
      BY <2>1 DEF OpenWriters
    <3> QED
      BY <2>1, <3>1, Zenon DEF OpenWriters
  <2> QED
    BY <2>1, <2>2, <2>3
<1> QED
  BY <1>1, <1>2

(* Only an open token carries an extent.                                   *)
LEMMA TokenFacts ==
    ASSUME NEW t \in Tokens
    PROVE  /\ t.m \in Nat
           /\ t.kind \in {"basic", "open", "close"}
           /\ t.kind # "open" => t.m = 0
BY DEF Tokens

(* Every token of the body is one of the three kinds, with an extent.     *)
LEMMA BodyFacts ==
    ASSUME CTypeOK, NEW p \in 1..Len(body)
    PROVE  /\ body[p] \in Tokens
           /\ body[p].m \in Nat
           /\ body[p].kind \in {"basic", "open", "close"}
           /\ body[p].kind # "open" => body[p].m = 0
<1>1. body[p] \in Tokens
  BY DEF CTypeOK
<1> QED
  BY <1>1, TokenFacts

(* Pop drops the last element of a non-empty sequence and keeps the rest. *)
LEMMA PopProps ==
    ASSUME NEW S, NEW s \in Seq(S), s # <<>>
    PROVE  /\ Pop(s) \in Seq(S)
           /\ Len(Pop(s)) = Len(s) - 1
           /\ \A i \in 1..Len(s) - 1 : Pop(s)[i] = s[i]
<1>1. PICK n \in Nat : n = Len(s) /\ n # 0
  BY EmptySeq
<1>2. \A i \in 1..n - 1 : s[i] \in S
  BY <1>1
<1>3. /\ SubSeq(s, 1, n - 1) \in Seq(S)
      /\ Len(SubSeq(s, 1, n - 1)) = IF 1 <= n - 1 THEN n - 1 ELSE 0
      /\ \A i \in 1..n - 1 : SubSeq(s, 1, n - 1)[i] = s[i]
  BY <1>1, <1>2, SubSeqProperties
<1>4. (IF 1 <= n - 1 THEN n - 1 ELSE 0) = n - 1
  BY <1>1
<1> QED
  BY <1>1, <1>3, <1>4 DEF Pop

(* Writing an extent into an open token leaves an open token of the same *)
(* container type.                                                        *)
LEMMA OpenExtent ==
    ASSUME NEW t \in Tokens, t.kind = "open", NEW v \in Nat
    PROVE  /\ [t EXCEPT !.m = v] = [kind |-> "open", type |-> t.type, m |-> v]
           /\ [kind |-> "open", type |-> t.type, m |-> v] \in Tokens
<1>1. t \in [kind : {"open"}, type : Containers, m : Nat]
  BY DEF Tokens
<1>2. t = [kind |-> "open", type |-> t.type, m |-> t.m] /\ t.type \in Containers
  BY <1>1, Zenon
<1> DEFINE r == [t EXCEPT !.m = v]
<1>3. r = [kind |-> "open", type |-> t.type, m |-> v]
  <2>1. DOMAIN r = {"kind", "type", "m"}
    BY <1>2, Zenon
  <2>2. r.kind = "open" /\ r.type = t.type /\ r.m = v
    BY <1>2, Zenon
  <2>3. r = [f \in DOMAIN r |-> r[f]]
    BY Zenon
  <2> QED
    BY <2>1, <2>2, <2>3
<1> QED
  BY <1>2, <1>3 DEF Tokens

(* dbus_message_iter_next on a cursor moves only its position.           *)
LEMMA CursorNext ==
    ASSUME NEW c \in Cursors
    PROVE  Next(c) = [pos |-> c.pos + 1, end |-> c.end]
<1>1. c = [pos |-> c.pos, end |-> c.end]
  BY Zenon DEF Cursors
<1> DEFINE r == [c EXCEPT !.pos = c.pos + 1]
<1>2. DOMAIN r = {"pos", "end"} /\ r.pos = c.pos + 1 /\ r.end = c.end
  BY <1>1, Zenon
<1>3. r = [f \in DOMAIN r |-> r[f]]
  BY Zenon
<1> QED
  BY <1>2, <1>3 DEF Next

(* Skipping a container moves the cursor past its close token.           *)
LEMMA CursorSkipped ==
    ASSUME NEW c \in Cursors
    PROVE  Skipped(c) = [pos |-> body[c.pos].m + 1, end |-> c.end]
<1>1. c = [pos |-> c.pos, end |-> c.end]
  BY Zenon DEF Cursors
<1> DEFINE r == [c EXCEPT !.pos = body[c.pos].m + 1]
<1>2. DOMAIN r = {"pos", "end"} /\ r.pos = body[c.pos].m + 1 /\ r.end = c.end
  BY <1>1, Zenon
<1>3. r = [f \in DOMAIN r |-> r[f]]
  BY Zenon
<1> QED
  BY <1>2, <1>3 DEF Skipped, Match

(* ReplaceTop changes the last element of a non-empty sequence only.      *)
LEMMA ReplaceTopProps ==
    ASSUME NEW S, NEW s \in Seq(S), s # <<>>, NEW x \in S
    PROVE  /\ ReplaceTop(s, x) \in Seq(S)
           /\ Len(ReplaceTop(s, x)) = Len(s)
           /\ \A i \in 1..Len(s) : ReplaceTop(s, x)[i] = IF i = Len(s) THEN x ELSE s[i]
<1>1. PICK n \in Nat : n = Len(s) /\ n # 0
  BY EmptySeq
<1>2. n \in 1..Len(s)
  BY <1>1
<1> QED
  BY <1>1, <1>2, ExceptSeq DEF ReplaceTop

(* Once every Writer is closed, every container has its extent.          *)
LEMMA AllClosed ==
    ASSUME CInv, wstack = <<>>, NEW p \in Opens
    PROVE  /\ body[p].m # 0 /\ p < body[p].m /\ body[p].m <= Len(body)
           /\ body[body[p].m].kind = "close"
<1>1. body[p].m # 0
  BY DEF CInv, UnclosedInStack
<1> QED
  BY <1>1 DEF CInv, ExtentOnClose

(* The Reader calls leave the body and the Writers alone.                *)
LEMMA ReadFrame ==
    ASSUME CInv, UNCHANGED <<body, wstack>>
    PROVE  UnclosedInStack' /\ StackIncreasing' /\ ExtentOnClose' /\ Laminar' /\ ClosedBeforeOpen'
BY DEF CInv, UnclosedInStack, StackIncreasing, ExtentOnClose, Laminar, ClosedBeforeOpen, Opens

(* While the body is written no Reader exists and nothing is read: the   *)
(* Writer calls leave the Readers' conjuncts alone.                       *)
LEMMA WriteFrame ==
    ASSUME CInv, phase = "write",
           UNCHANGED <<phase, rstack, decoded, skipped, misread, outcome>>
    PROVE  Windows' /\ Nested' /\ DecodedBefore' /\ PhaseShape' /\ ReadInOrder'
<1>1. rstack = <<>> /\ decoded = <<>>
  BY DEF CInv, PhaseShape
<1> QED
  BY <1>1 DEF Windows, Nested, DecodedBefore, PhaseShape, ReadInOrder

LEMMA CInvInit == CInit => CInv
<1> SUFFICES ASSUME CInit PROVE CInv
  OBVIOUS
<1>1. CTypeOK
  <2>1. <<>> \in Seq(Tokens) /\ <<>> \in Seq(OpenWriters) /\ <<>> \in Seq(Cursors)
        /\ <<>> \in Seq(Nat)
    BY EmptySeq
  <2> QED
    BY <2>1 DEF CInit, CTypeOK, Phases, Outcomes
<1> QED
BY <1>1 DEF CInit, CInv, UnclosedInStack, StackIncreasing, ExtentOnClose, Laminar,
       ClosedBeforeOpen, Windows, Nested, DecodedBefore, PhaseShape, ReadInOrder, Opens,
       Phases, Outcomes

(* push_*: a basic value is appended to the body.                         *)
LEMMA PushBasicStep ==
    ASSUME CInv, NEW b \in Basics, PushBasic(b)
    PROVE  CInv'
<1> USE DEF CInv
<1>1. body' = Append(body, Tok("basic", b)) /\ Tok("basic", b) \in Tokens
  BY DEF PushBasic, Tok, Tokens
<1>2. /\ Len(body') = Len(body) + 1
      /\ \A p \in 1..Len(body) : body'[p] = body[p]
      /\ body' \in Seq(Tokens)
      /\ body'[Len(body) + 1].kind = "basic"
  BY <1>1, AppendProperties DEF CTypeOK, Tok
<1>3. Opens' = Opens
  BY <1>2 DEF Opens
<1>4. /\ wstack' \in Seq(OpenWriters) /\ Len(wstack') = Len(wstack)
      /\ \A i \in 1..Len(wstack) : wstack'[i].at = wstack[i].at
  BY CountedProps DEF PushBasic, CTypeOK
<1>5. phase = "write" /\ UNCHANGED <<phase, rstack, decoded, skipped, misread, outcome>>
  BY DEF PushBasic
<1>6. rstack = <<>> /\ decoded = <<>>
  BY <1>5 DEF PhaseShape
<1>7. CTypeOK'
  BY <1>2, <1>4, <1>5 DEF CTypeOK
<1>8. \A p \in Opens : body'[p] = body[p] /\ p \in 1..Len(body)
  BY <1>2 DEF Opens
<1>9. UnclosedInStack'
  <2>1. \A i \in 1..Len(wstack') : wstack'[i].at \in Opens' /\ body'[wstack'[i].at].m = 0
    BY <1>3, <1>4, <1>8 DEF UnclosedInStack
  <2>2. \A p \in Opens' : body'[p].m = 0 => \E i \in 1..Len(wstack') : wstack'[i].at = p
    BY <1>3, <1>4, <1>8 DEF UnclosedInStack
  <2> QED
    BY <2>1, <2>2 DEF UnclosedInStack
<1>10. StackIncreasing' /\ ClosedBeforeOpen'
  BY <1>3, <1>4, <1>8 DEF StackIncreasing, ClosedBeforeOpen
<1>11. ExtentOnClose'
  <2> SUFFICES ASSUME NEW p \in Opens', body'[p].m # 0
               PROVE  p < body'[p].m /\ body'[p].m <= Len(body') /\ body'[body'[p].m].kind = "close"
    BY DEF ExtentOnClose
  <2>1. body[p].m # 0 /\ body'[p] = body[p] /\ p \in Opens
    BY <1>3, <1>8
  <2>2. p < body[p].m /\ body[p].m <= Len(body) /\ body[body[p].m].kind = "close"
    BY <2>1 DEF ExtentOnClose
  <2>3. body[p].m \in 1..Len(body)
    <3>1. body[p] \in Tokens
      BY <2>1 DEF CTypeOK, Opens
    <3>2. body[p].m \in Nat
      BY <3>1, TokenFacts
    <3> QED
      BY <2>2, <3>2, <2>1 DEF Opens
  <2>4. body'[body[p].m] = body[body[p].m] /\ Len(body') = Len(body) + 1
    BY <2>3, <1>2
  <2> QED
    BY <2>1, <2>2, <2>3, <2>4
<1>12. Laminar'
  BY <1>3, <1>8 DEF Laminar
<1>13. Windows' /\ Nested' /\ DecodedBefore' /\ PhaseShape' /\ ReadInOrder'
  BY <1>5, <1>6 DEF Windows, Nested, DecodedBefore, PhaseShape, ReadInOrder, PushBasic
<1>14. QED
  BY <1>7, <1>9, <1>10, <1>11, <1>12, <1>13

(* open_*: an open token is appended and its Writer pushed.               *)
LEMMA OpenContainerStep ==
    ASSUME CInv, NEW k \in Containers, NEW e \in Basics \cup {"any"}, OpenContainer(k, e)
    PROVE  CInv'
<1> USE DEF CInv
<1> DEFINE L == Len(body)
           w == [k |-> k, elem |-> e, n |-> 0, at |-> L + 1]
<1>1. body' = Append(body, Tok("open", k)) /\ Tok("open", k) \in Tokens
  BY DEF OpenContainer, Tok, Tokens
<1>2. /\ Len(body') = L + 1
      /\ \A p \in 1..L : body'[p] = body[p]
      /\ body' \in Seq(Tokens)
      /\ body'[L + 1] = Tok("open", k)
  BY <1>1, AppendProperties DEF CTypeOK
<1>3. Opens' = Opens \cup {L + 1} /\ body'[L + 1].m = 0
  BY <1>2 DEF Opens, Tok
<1>4. wstack' = Append(wstack, w) /\ w \in OpenWriters
  BY DEF OpenContainer, OpenWriters
<1>5. /\ wstack' \in Seq(OpenWriters) /\ Len(wstack') = Len(wstack) + 1
      /\ \A i \in 1..Len(wstack) : wstack'[i] = wstack[i]
      /\ wstack'[Len(wstack) + 1].at = L + 1
  BY <1>4, AppendProperties DEF CTypeOK
<1>6. phase = "write" /\ UNCHANGED <<phase, rstack, decoded, skipped, misread, outcome>>
  BY DEF OpenContainer
<1>7. \A p \in Opens : body'[p] = body[p] /\ p \in 1..L /\ body[p].m \in Nat
  BY <1>2, BodyFacts DEF Opens
<1>8. \A i \in 1..Len(wstack) : wstack[i].at \in Opens
  BY DEF UnclosedInStack
<1>9. CTypeOK'
  BY <1>2, <1>5, <1>6 DEF CTypeOK
<1>10. UnclosedInStack'
  <2>1. \A i \in 1..Len(wstack') : wstack'[i].at \in Opens' /\ body'[wstack'[i].at].m = 0
    <3> SUFFICES ASSUME NEW i \in 1..Len(wstack) + 1
                 PROVE  wstack'[i].at \in Opens' /\ body'[wstack'[i].at].m = 0
      BY <1>5
    <3>1. CASE i = Len(wstack) + 1
      BY <3>1, <1>3, <1>5
    <3>2. CASE i # Len(wstack) + 1
      <4>1. i \in 1..Len(wstack)
        BY <3>2
      <4>2. wstack'[i] = wstack[i] /\ wstack[i].at \in Opens /\ body[wstack[i].at].m = 0
        BY <4>1, <1>5 DEF UnclosedInStack
      <4> QED
        BY <4>2, <1>3, <1>7
    <3> QED
      BY <3>1, <3>2
  <2>2. \A p \in Opens' : body'[p].m = 0 => \E i \in 1..Len(wstack') : wstack'[i].at = p
    <3> SUFFICES ASSUME NEW p \in Opens', body'[p].m = 0
                 PROVE  \E i \in 1..Len(wstack') : wstack'[i].at = p
      OBVIOUS
    <3>1. CASE p = L + 1
      <4>1. Len(wstack) + 1 \in 1..Len(wstack') /\ wstack'[Len(wstack) + 1].at = p
        BY <3>1, <1>5
      <4> QED
        BY <4>1
    <3>2. CASE p # L + 1
      <4>1. p \in Opens /\ body[p].m = 0
        BY <3>2, <1>3, <1>7
      <4>2. PICK i \in 1..Len(wstack) : wstack[i].at = p
        BY <4>1 DEF UnclosedInStack
      <4>3. i \in 1..Len(wstack') /\ wstack'[i] = wstack[i]
        BY <1>5
      <4> QED
        BY <4>2, <4>3
    <3> QED
      BY <3>1, <3>2
  <2> QED
    BY <2>1, <2>2 DEF UnclosedInStack
<1>11. StackIncreasing'
  <2> SUFFICES ASSUME NEW i \in 1..Len(wstack'), NEW j \in 1..Len(wstack'), i < j
               PROVE  wstack'[i].at < wstack'[j].at
    BY DEF StackIncreasing
  <2>1. i \in 1..Len(wstack) /\ wstack'[i].at = wstack[i].at
    BY <1>5
  <2>2. wstack[i].at \in 1..L
    BY <2>1, <1>7, <1>8
  <2>3. CASE j = Len(wstack) + 1
    BY <2>2, <2>3, <1>5
  <2>4. CASE j # Len(wstack) + 1
    BY <2>1, <2>4, <1>5 DEF StackIncreasing
  <2> QED
    BY <2>3, <2>4
<1>12. ClosedBeforeOpen'
  <2>1. \A p \in Opens : body[p].m # 0 => body[p].m <= L
    BY DEF ExtentOnClose
  <2> QED
    BY <1>3, <1>5, <1>7, <2>1 DEF ClosedBeforeOpen
<1>13. ExtentOnClose'
  <2> SUFFICES ASSUME NEW p \in Opens', body'[p].m # 0
               PROVE  p < body'[p].m /\ body'[p].m <= Len(body') /\ body'[body'[p].m].kind = "close"
    BY DEF ExtentOnClose
  <2>1. p \in Opens /\ body'[p] = body[p] /\ body[p].m # 0
    BY <1>3, <1>7
  <2>2. p < body[p].m /\ body[p].m <= L /\ body[body[p].m].kind = "close"
    BY <2>1 DEF ExtentOnClose
  <2>3. body[p].m \in 1..L
    BY <2>1, <2>2, <1>7
  <2> QED
    BY <2>1, <2>2, <2>3, <1>2
<1>14. Laminar'
  <2>1. \A p \in Opens : body[p].m # 0 => body[p].m <= L
    BY DEF ExtentOnClose
  <2> QED
    BY <1>3, <1>7, <2>1 DEF Laminar
<1>15. QED
  BY <1>6, <1>9, <1>10, <1>11, <1>12, <1>13, <1>14, WriteFrame

(* close_*: dbus_message_iter_close_container appends the close token,   *)
(* writes the extent into the open token and pops the Writer.             *)
LEMMA CloseContainerStep ==
    ASSUME CInv, CloseContainer
    PROVE  CInv'
<1> USE DEF CInv
<1> DEFINE L == Len(body)
           W == Len(wstack)
           a == Top(wstack).at
           ct == Tok("close", Top(wstack).k)
           X == Append(body, ct)
           oa == [kind |-> "open", type |-> body[a].type, m |-> L + 1]
<1>1. W \in 1..W /\ W - 1 \in Nat /\ wstack[W] \in OpenWriters /\ wstack # <<>>
  BY DEF CloseContainer, CTypeOK
<1>0. \A i \in 1..W : wstack[i].at \in Opens /\ wstack[i].at \in 1..L
  BY DEF UnclosedInStack, Opens
<1>2. a \in Opens /\ body[a].m = 0 /\ a \in 1..L /\ body[a].kind = "open"
  BY <1>1 DEF UnclosedInStack, Top, Opens
<1>3. \A i \in 1..W - 1 : wstack[i].at < a
  BY <1>1 DEF StackIncreasing, Top
<1>4. ct \in Tokens /\ ct.kind = "close"
  BY <1>1 DEF Tok, Tokens, OpenWriters, Top
<1>5. /\ X \in Seq(Tokens) /\ Len(X) = L + 1
      /\ \A p \in 1..L : X[p] = body[p]
      /\ X[L + 1] = ct
  BY <1>4, AppendProperties DEF CTypeOK
<1>6. body' = [X EXCEPT ![a] = oa] /\ oa \in Tokens
  <2>1. body' = [X EXCEPT ![a] = [X[a] EXCEPT !.m = L + 1]]
    BY Zenon DEF CloseContainer
  <2>2. X[a] = body[a] /\ body[a] \in Tokens
    BY <1>2, <1>5, BodyFacts DEF Opens
  <2>3. [body[a] EXCEPT !.m = L + 1] = oa /\ oa \in Tokens
    BY <2>2, <1>2, OpenExtent
  <2> QED
    BY <2>1, <2>2, <2>3
<1>7. /\ body' \in Seq(Tokens) /\ Len(body') = L + 1
      /\ \A p \in 1..L : p # a => body'[p] = body[p]
      /\ body'[a] = oa
      /\ body'[L + 1] = ct
  <2>1. /\ [X EXCEPT ![a] = oa] \in Seq(Tokens)
        /\ Len([X EXCEPT ![a] = oa]) = Len(X)
        /\ \A j \in 1..Len(X) : [X EXCEPT ![a] = oa][j] = IF j = a THEN oa ELSE X[j]
    <3>1. a \in 1..Len(X) /\ X \in Seq(Tokens) /\ oa \in Tokens
      BY <1>2, <1>5, <1>6
    <3> QED
      <4> HIDE DEF X, oa
      <4> QED
        BY <3>1, ExceptSeq
  <2> QED
    BY <2>1, <1>2, <1>5, <1>6
<1>8. body'[a].m = L + 1 /\ body'[a].kind = "open"
  BY <1>7
<1>9. Opens' = Opens
  BY <1>2, <1>4, <1>7, <1>8 DEF Opens
<1>10. /\ wstack' \in Seq(OpenWriters) /\ Len(wstack') = W - 1
       /\ \A i \in 1..W - 1 : wstack'[i].at = wstack[i].at
  <2>1. Pop(wstack) \in Seq(OpenWriters) /\ Len(Pop(wstack)) = W - 1
        /\ \A i \in 1..W - 1 : Pop(wstack)[i] = wstack[i]
    BY <1>1, PopProps DEF CTypeOK
  <2> QED
    BY <2>1, CountedProps DEF CloseContainer
<1>11. phase = "write" /\ UNCHANGED <<phase, rstack, decoded, skipped, misread, outcome>>
  BY DEF CloseContainer
<1>12. \A p \in Opens : p \in 1..L /\ body[p].m \in Nat /\ (p # a => body'[p] = body[p])
  BY <1>7, BodyFacts DEF Opens
<1>13. CTypeOK'
  BY <1>7, <1>10, <1>11 DEF CTypeOK
<1>14. UnclosedInStack'
  <2>1. \A i \in 1..W - 1 : wstack[i].at \in Opens /\ wstack[i].at # a /\ body[wstack[i].at].m = 0
    <3> SUFFICES ASSUME NEW i \in 1..W - 1
                 PROVE  wstack[i].at \in Opens /\ wstack[i].at # a /\ body[wstack[i].at].m = 0
      OBVIOUS
    <3>1. i \in 1..W /\ wstack[i].at < a
      BY <1>1, <1>3
    <3>2. wstack[i].at \in Opens /\ body[wstack[i].at].m = 0 /\ wstack[i].at \in 1..L
      BY <3>1, <1>0 DEF UnclosedInStack
    <3> QED
      BY <3>1, <3>2, <1>2
  <2>2. \A i \in 1..Len(wstack') : wstack'[i].at \in Opens' /\ body'[wstack'[i].at].m = 0
    BY <2>1, <1>9, <1>10, <1>12
  <2>3. ASSUME NEW p \in Opens', body'[p].m = 0
        PROVE  \E i \in 1..Len(wstack') : wstack'[i].at = p
    <3>1. p \in Opens /\ p # a /\ body[p].m = 0
      BY <2>3, <1>8, <1>9, <1>12
    <3>2. PICK i \in 1..W : wstack[i].at = p
      BY <3>1 DEF UnclosedInStack
    <3>3. i # W
      BY <3>1, <3>2 DEF Top
    <3> QED
      BY <3>2, <3>3, <1>10
  <2> QED
    BY <2>2, <2>3 DEF UnclosedInStack
<1>15. StackIncreasing'
  BY <1>10 DEF StackIncreasing
<1>16. ClosedBeforeOpen'
  <2> SUFFICES ASSUME NEW p \in Opens', NEW i \in 1..Len(wstack'),
                      body'[p].m # 0, p < wstack'[i].at
               PROVE  body'[p].m < wstack'[i].at
    BY DEF ClosedBeforeOpen
  <2>1. i \in 1..W - 1 /\ wstack'[i].at = wstack[i].at /\ wstack[i].at < a
    BY <1>3, <1>10
  <2>2. p # a
    BY <2>1, <1>0, <1>9, <1>12
  <2> QED
    BY <2>1, <2>2, <1>9, <1>12 DEF ClosedBeforeOpen
<1>17. ExtentOnClose'
  <2> SUFFICES ASSUME NEW p \in Opens', body'[p].m # 0
               PROVE  p < body'[p].m /\ body'[p].m <= Len(body') /\ body'[body'[p].m].kind = "close"
    BY DEF ExtentOnClose
  <2>1. CASE p = a
    BY <2>1, <1>2, <1>4, <1>7, <1>8
  <2>2. CASE p # a
    <3>1. p \in Opens /\ body'[p] = body[p] /\ body[p].m # 0
      BY <2>2, <1>9, <1>12
    <3>2. p < body[p].m /\ body[p].m <= L /\ body[body[p].m].kind = "close"
      BY <3>1 DEF ExtentOnClose
    <3>3. body[p].m \in 1..L /\ body[p].m # a
      BY <3>1, <3>2, <1>2, <1>12
    <3> QED
      BY <3>1, <3>2, <3>3, <1>7
  <2> QED
    BY <2>1, <2>2
<1>18. Laminar'
  <2> SUFFICES ASSUME NEW p \in Opens', NEW r \in Opens', p < r, r < body'[p].m
               PROVE  body'[r].m # 0 /\ body'[r].m < body'[p].m
    BY DEF Laminar
  <2>1. p \in Opens /\ r \in Opens
    BY <1>9
  <2>2. CASE p = a
    <3>1. r # a /\ body'[r] = body[r]
      BY <2>1, <2>2, <1>12
    <3>2. body[r].m # 0
      <4>1. SUFFICES ASSUME body[r].m = 0 PROVE FALSE
        OBVIOUS
      <4>2. PICK i \in 1..W : wstack[i].at = r
        BY <2>1, <4>1 DEF UnclosedInStack
      <4>3. wstack[i].at <= a
        BY <4>2, <1>0, <1>2, <1>3 DEF Top
      <4> QED
        BY <4>2, <4>3, <2>2, <2>1, <1>12
    <3>3. body[r].m <= L
      BY <3>2, <2>1 DEF ExtentOnClose
    <3> QED
      BY <3>1, <3>2, <3>3, <2>2, <1>8, <2>1, <1>12
  <2>3. CASE r = a
    <3>1. p # a /\ body'[p] = body[p] /\ body[p].m # 0 /\ a < body[p].m
      BY <2>1, <2>3, <1>12
    <3>2. body[p].m < a
      BY <3>1, <2>1, <2>3, <1>1 DEF ClosedBeforeOpen, Top
    <3> QED
      BY <3>1, <3>2, <1>2, <1>12, <2>1
  <2>4. CASE p # a /\ r # a
    BY <2>1, <2>4, <1>12 DEF Laminar
  <2> QED
    BY <2>2, <2>3, <2>4
<1>19. QED
  BY <1>11, <1>13, <1>14, <1>15, <1>16, <1>17, <1>18, WriteFrame

(* reader(): the message's Reader spans the whole body; without          *)
(* arguments reader() throws and decoding ends.                           *)
LEMMA GetReaderStep ==
    ASSUME CInv, GetReader
    PROVE  CInv'
<1> USE DEF CInv
<1>1. /\ phase = "write" /\ wstack = <<>> /\ rstack = <<>> /\ decoded = <<>>
      /\ UNCHANGED <<body, wstack, decoded, skipped, misread>>
  BY DEF GetReader, PhaseShape
<1>2. UnclosedInStack' /\ StackIncreasing' /\ ExtentOnClose' /\ Laminar' /\ ClosedBeforeOpen'
  BY <1>1, ReadFrame
<1>3. CASE body = <<>>
  <2>1. phase' = "done" /\ outcome' = "no_arguments" /\ rstack' = <<>>
    BY <1>1, <1>3 DEF GetReader
  <2> QED
    BY <1>1, <1>2, <2>1 DEF CTypeOK, Phases, Outcomes, Windows, Nested, DecodedBefore,
                            PhaseShape, ReadInOrder
<1>4. CASE body # <<>>
  <2> DEFINE L == Len(body)
  <2>1. phase' = "read" /\ outcome' = outcome /\ rstack' = <<[pos |-> 1, end |-> L + 1]>>
    BY <1>1, <1>4 DEF GetReader
  <2>2. L \in Nat /\ rstack' \in Seq(Cursors) /\ Len(rstack') = 1
    BY <2>1 DEF CTypeOK, Cursors
  <2>3. CTypeOK'
    BY <1>1, <2>1, <2>2 DEF CTypeOK, Phases
  <2>4. Windows'
    <3>1. ASSUME NEW r \in Opens PROVE body[r].m < L + 1
      <4>1. body[r].m <= L
        BY <1>1, AllClosed
      <4>2. body[r].m \in Nat
        BY BodyFacts DEF Opens
      <4> QED
        BY <4>1, <4>2
    <3> QED
      BY <1>1, <2>1, <2>2, <3>1 DEF Windows, Opens
  <2>5. Nested' /\ DecodedBefore' /\ PhaseShape' /\ ReadInOrder'
    BY <1>1, <2>1, <2>2 DEF Nested, DecodedBefore, PhaseShape, ReadInOrder
  <2> QED
    BY <1>2, <2>3, <2>4, <2>5
<1> QED
  BY <1>3, <1>4

(* A failed pop ends decoding and leaves every Reader where it was.       *)
LEMMA PopFailFrame ==
    ASSUME CInv, phase = "read", phase' = "done", outcome' \in Outcomes,
           skipped' \in BOOLEAN, misread' \in BOOLEAN,
           UNCHANGED <<body, wstack, rstack, decoded>>
    PROVE  CInv'
<1> USE DEF CInv
<1>1. wstack = <<>>
  BY DEF PhaseShape
<1> QED
  BY <1>1, ReadFrame DEF CTypeOK, Phases, Windows, Nested, DecodedBefore, PhaseShape,
                         ReadInOrder, Opens

(* The cursor in use: the top of a non-empty Reader stack.               *)
LEMMA TopCursor ==
    ASSUME CInv, rstack # <<>>
    PROVE  /\ Len(rstack) \in Nat \ {0}
           /\ Top(rstack) = rstack[Len(rstack)]
           /\ Top(rstack) \in Cursors
           /\ 1 <= Top(rstack).pos /\ Top(rstack).pos <= Top(rstack).end
           /\ Top(rstack).end <= Len(body) + 1
           /\ \A r \in Opens : Top(rstack).pos <= r /\ r < Top(rstack).end =>
                                body[r].m < Top(rstack).end
<1>1. Len(rstack) \in Nat \ {0} /\ rstack \in Seq(Cursors)
  BY EmptySeq DEF CInv, CTypeOK
<1>2. Len(rstack) \in 1..Len(rstack)
  BY <1>1
<1> QED
  BY <1>1, <1>2 DEF CInv, Windows, Top

(* pop_*: the value under the cursor is read and the cursor moves past   *)
(* it; on a type mismatch the pop throws.                                 *)
LEMMA PopBasicStep ==
    ASSUME CInv, NEW b \in Basics, PopBasic(b)
    PROVE  CInv'
<1> USE DEF CInv
<1> DEFINE c == Top(rstack)
<1>1. phase = "read" /\ rstack # <<>> /\ wstack = <<>>
      /\ UNCHANGED <<body, wstack, skipped, misread>>
  BY DEF PopBasic, PhaseShape
<1>2. PICK R \in Nat : R = Len(rstack) /\ R # 0
  BY <1>1, TopCursor
<1>3. /\ c = rstack[R] /\ c \in Cursors /\ 1 <= c.pos /\ c.pos <= c.end /\ c.end <= Len(body) + 1
      /\ \A r \in Opens : c.pos <= r /\ r < c.end => body[r].m < c.end
  BY <1>1, <1>2, TopCursor
<1>4. CASE ArgType(c) = Tok("basic", b)
  <2> DEFINE nc == [pos |-> c.pos + 1, end |-> c.end]
  <2>1. c.pos < c.end
    <3>1. SUFFICES ASSUME ~(c.pos < c.end) PROVE FALSE
      OBVIOUS
    <3>2. Tok("basic", b) = Tok("basic", "invalid")
      BY <1>4, <3>1 DEF ArgType
    <3> QED
      BY <3>2 DEF Tok
  <2>2. decoded' = Append(decoded, c.pos) /\ rstack' = ReplaceTop(rstack, nc)
        /\ UNCHANGED <<phase, outcome>>
    BY <1>1, <1>3, <1>4, CursorNext DEF PopBasic
  <2>3. nc \in Cursors /\ c.pos \in Nat
    BY <1>3 DEF Cursors
  <2>4. /\ rstack' \in Seq(Cursors) /\ Len(rstack') = R
        /\ \A i \in 1..R : rstack'[i] = IF i = R THEN nc ELSE rstack[i]
    <3>1. rstack \in Seq(Cursors)
      BY DEF CTypeOK
    <3>2. /\ ReplaceTop(rstack, nc) \in Seq(Cursors)
          /\ Len(ReplaceTop(rstack, nc)) = Len(rstack)
          /\ \A i \in 1..Len(rstack) : ReplaceTop(rstack, nc)[i] =
                                          IF i = Len(rstack) THEN nc ELSE rstack[i]
      <4> HIDE DEF nc, c
      <4> QED
        BY <1>1, <2>3, <3>1, ReplaceTopProps
    <3> QED
      BY <1>2, <2>2, <3>2
  <2>5. PICK D \in Nat : D = Len(decoded)
    BY DEF CTypeOK
  <2>6. /\ decoded' \in Seq(Nat) /\ Len(decoded') = D + 1
        /\ \A j \in 1..D : decoded'[j] = decoded[j]
        /\ decoded'[D + 1] = c.pos
    <3>1. decoded \in Seq(Nat) /\ c.pos \in Nat
      BY <2>3 DEF CTypeOK
    <3>2. /\ Append(decoded, c.pos) \in Seq(Nat) /\ Len(Append(decoded, c.pos)) = Len(decoded) + 1
          /\ \A j \in 1..Len(decoded) : Append(decoded, c.pos)[j] = decoded[j]
          /\ Append(decoded, c.pos)[Len(decoded) + 1] = c.pos
      <4> HIDE DEF c
      <4> QED
        BY <3>1, AppendProperties
    <3> QED
      BY <2>2, <2>5, <3>2
  <2>7. CTypeOK'
    BY <1>1, <2>2, <2>4, <2>6 DEF CTypeOK
  <2>8. Windows'
    <3> SUFFICES ASSUME NEW i \in 1..R
                 PROVE  /\ 1 <= rstack'[i].pos /\ rstack'[i].pos <= rstack'[i].end
                        /\ rstack'[i].end <= Len(body') + 1
                        /\ \A r \in Opens' : rstack'[i].pos <= r /\ r < rstack'[i].end =>
                                              body'[r].m < rstack'[i].end
      BY <2>4 DEF Windows
    <3>1. Opens' = Opens
      BY <1>1 DEF Opens
    <3>2. CASE i = R
      <4>1. rstack'[i] = nc
        BY <3>2, <2>4
      <4>2. nc.pos = c.pos + 1 /\ nc.end = c.end
        OBVIOUS
      <4> HIDE DEF nc
      <4>3. body' = body /\ c.pos \in Nat /\ c.end \in Nat
        BY <1>1, <1>3 DEF Cursors
      <4>4. 1 <= nc.pos /\ nc.pos <= nc.end /\ nc.end <= Len(body') + 1
        BY <4>2, <4>3, <1>3, <2>1
      <4>5. \A r \in Opens' : nc.pos <= r /\ r < nc.end => body'[r].m < nc.end
        <5>1. \A r \in Opens : r \in Nat /\ body[r].m \in Nat
          BY BodyFacts DEF Opens
        <5> QED
          BY <4>2, <4>3, <3>1, <1>3, <5>1
      <4> QED
        BY <4>1, <4>4, <4>5
    <3>3. CASE i # R
      <4>1. rstack'[i] = rstack[i]
        BY <3>3, <2>4
      <4> QED
        BY <4>1, <3>1, <1>1, <1>2 DEF Windows
    <3> QED
      BY <3>2, <3>3
  <2>9. Nested'
    <3>1. \A i \in 1..R : rstack'[i].end = rstack[i].end
      BY <1>3, <2>4
    <3>2. \A i \in 1..R - 1 : rstack'[i] = rstack[i]
      BY <2>4
    <3>3. \A i \in 1..R - 1 : /\ rstack'[i].pos = rstack'[i + 1].end + 1
                               /\ body'[rstack'[i + 1].end].kind = "close"
      <4> SUFFICES ASSUME NEW i \in 1..R - 1
                   PROVE  /\ rstack'[i].pos = rstack'[i + 1].end + 1
                          /\ body'[rstack'[i + 1].end].kind = "close"
        OBVIOUS
      <4>1. i \in 1..Len(rstack) - 1 /\ i + 1 \in 1..R
        BY <1>2
      <4> QED
        BY <4>1, <3>1, <3>2, <1>1 DEF Nested
    <3>4. rstack' # <<>> => rstack'[1].end = Len(body') + 1
      BY <1>1, <1>2, <3>1 DEF Nested
    <3> QED
      BY <3>3, <3>4, <2>4 DEF Nested
  <2>10. DecodedBefore' /\ ReadInOrder'
    <3>1. Top(rstack') = nc
      BY <1>2, <2>4 DEF Top
    <3>2. \A j \in 1..D : decoded[j] < c.pos
      BY <1>1, <2>5 DEF DecodedBefore
    <3>3. \A j \in 1..D : decoded[j] \in Nat
      BY <2>5 DEF CTypeOK
    <3>4. DecodedBefore'
      <4> SUFFICES ASSUME NEW j \in 1..D + 1 PROVE decoded'[j] < Top(rstack').pos
        BY <2>6 DEF DecodedBefore
      <4>1. CASE j = D + 1
        BY <4>1, <2>6, <3>1, <2>3
      <4>2. CASE j # D + 1
        <5>1. j \in 1..D
          BY <4>2
        <5> QED
          BY <5>1, <2>6, <3>1, <3>2, <3>3
      <4> QED
        BY <4>1, <4>2
    <3>5. ReadInOrder'
      <4> SUFFICES ASSUME NEW j \in 1..D PROVE decoded'[j] < decoded'[j + 1]
        BY <2>6 DEF ReadInOrder
      <4>1. CASE j = D
        BY <4>1, <2>6, <3>2
      <4>2. CASE j # D
        <5>1. j \in 1..Len(decoded) - 1 /\ j + 1 \in 1..D
          BY <4>2, <2>5
        <5> QED
          BY <5>1, <2>6 DEF ReadInOrder
      <4> QED
        BY <4>1, <4>2
    <3> QED
      BY <3>4, <3>5
  <2>11. PhaseShape'
    BY <1>1, <2>2, <2>4, <1>2 DEF PhaseShape
  <2> QED
    BY <1>1, ReadFrame, <2>7, <2>8, <2>9, <2>10, <2>11
<1>5. CASE ArgType(c) # Tok("basic", b)
  <2>1. phase' = "done" /\ outcome' = "type_mismatch" /\ UNCHANGED <<rstack, decoded>>
    BY <1>5 DEF PopBasic
  <2> QED
    BY <1>1, <2>1, PopFailFrame DEF CTypeOK, Outcomes
<1> QED
  BY <1>4, <1>5

(* pop_array, pop_structure, pop_variant: a Reader over the container's  *)
(* contents is pushed and the outer cursor skips past its close token;   *)
(* under a basic value or at the end the call is undefined.               *)
LEMMA PopContainerStep ==
    ASSUME CInv, NEW k \in Containers, PopContainer(k)
    PROVE  CInv'
<1> USE DEF CInv
<1> DEFINE c == Top(rstack)
<1>1. phase = "read" /\ rstack # <<>> /\ wstack = <<>>
      /\ UNCHANGED <<body, wstack, decoded, skipped>>
  BY DEF PopContainer, PhaseShape
<1>2. PICK R \in Nat : R = Len(rstack) /\ R # 0
  BY <1>1, TopCursor
<1>3. /\ c = rstack[R] /\ c \in Cursors /\ 1 <= c.pos /\ c.pos <= c.end /\ c.end <= Len(body) + 1
      /\ \A r \in Opens : c.pos <= r /\ r < c.end => body[r].m < c.end
  BY <1>1, <1>2, TopCursor
<1>4. \A r \in Opens : r \in Nat /\ body[r].m \in Nat
  BY BodyFacts DEF Opens
<1>5. CASE ArgType(c).kind = "open"
  <2> DEFINE mm == body[c.pos].m
             sk == [pos |-> mm + 1, end |-> c.end]
             rc == [pos |-> c.pos + 1, end |-> mm]
  <2>1. c.pos < c.end
    BY <1>5 DEF ArgType, Tok
  <2>2. c.pos \in Opens
    BY <1>3, <1>5, <2>1 DEF ArgType, Opens, Cursors
  <2>3. mm # 0 /\ c.pos < mm /\ mm <= Len(body) /\ body[mm].kind = "close" /\ mm \in Nat
    BY <1>1, <1>4, <2>2, AllClosed
  <2>4. mm < c.end
    BY <1>3, <1>4, <2>1, <2>2
  <2>5. sk \in Cursors /\ rc \in Cursors /\ c.pos \in Nat /\ c.end \in Nat
    <3>1. c.pos \in Nat /\ c.end \in Nat
      BY <1>3 DEF Cursors
    <3>2. mm \in Nat
      BY <2>3
    <3> HIDE DEF mm, c
    <3> QED
      BY <3>1, <3>2 DEF Cursors
  <2>6. rstack' = Append(ReplaceTop(rstack, sk), rc) /\ misread' \in BOOLEAN
        /\ UNCHANGED <<phase, outcome>>
    BY <1>1, <1>3, <1>5, CursorSkipped DEF PopContainer, Recursed, Match, CTypeOK
  <2>7. /\ rstack' \in Seq(Cursors) /\ Len(rstack') = R + 1
        /\ \A i \in 1..R - 1 : rstack'[i] = rstack[i]
        /\ rstack'[R] = sk /\ rstack'[R + 1] = rc
    <3>1. rstack \in Seq(Cursors)
      BY DEF CTypeOK
    <3>2. /\ ReplaceTop(rstack, sk) \in Seq(Cursors)
          /\ Len(ReplaceTop(rstack, sk)) = Len(rstack)
          /\ \A i \in 1..Len(rstack) : ReplaceTop(rstack, sk)[i] =
                                          IF i = Len(rstack) THEN sk ELSE rstack[i]
      <4>1. rstack \in Seq(Cursors) /\ rstack # <<>> /\ sk \in Cursors
        BY <1>1, <2>5, <3>1
      <4> HIDE DEF sk, c, rc, mm
      <4> QED
        BY <4>1, ReplaceTopProps
    <3>3. /\ Append(ReplaceTop(rstack, sk), rc) \in Seq(Cursors)
          /\ Len(Append(ReplaceTop(rstack, sk), rc)) = R + 1
          /\ \A i \in 1..R : Append(ReplaceTop(rstack, sk), rc)[i] = ReplaceTop(rstack, sk)[i]
          /\ Append(ReplaceTop(rstack, sk), rc)[R + 1] = rc
      <4> DEFINE ss == ReplaceTop(rstack, sk)
      <4>0. ss = ReplaceTop(rstack, sk)
        OBVIOUS
      <4>1. ss \in Seq(Cursors) /\ Len(ss) = R /\ rc \in Cursors
        BY <1>2, <2>5, <3>2
      <4> HIDE DEF sk, rc, c, mm, ss
      <4>2. /\ Append(ss, rc) \in Seq(Cursors) /\ Len(Append(ss, rc)) = Len(ss) + 1
            /\ \A i \in 1..Len(ss) : Append(ss, rc)[i] = ss[i]
            /\ Append(ss, rc)[Len(ss) + 1] = rc
        BY <4>1, AppendProperties
      <4> QED
        BY <4>0, <4>1, <4>2
    <3>4. \A i \in 1..R - 1 : ReplaceTop(rstack, sk)[i] = rstack[i]
      <4> SUFFICES ASSUME NEW i \in 1..R - 1 PROVE ReplaceTop(rstack, sk)[i] = rstack[i]
        OBVIOUS
      <4>1. i \in 1..Len(rstack) /\ i # Len(rstack)
        BY <1>2
      <4> HIDE DEF sk
      <4> QED
        BY <4>1, <3>2
    <3>5. ReplaceTop(rstack, sk)[R] = sk
      <4>1. R \in 1..Len(rstack) /\ R = Len(rstack)
        BY <1>2
      <4> HIDE DEF sk
      <4> QED
        BY <4>1, <3>2
    <3>6. \A i \in 1..R : Append(ReplaceTop(rstack, sk), rc)[i] = ReplaceTop(rstack, sk)[i]
      BY <3>3
    <3> HIDE DEF sk, rc
    <3> QED
      BY <1>2, <2>6, <3>2, <3>3, <3>4, <3>5, <3>6
  <2>13. /\ mm = body[c.pos].m
         /\ sk.pos = mm + 1 /\ sk.end = c.end /\ rc.pos = c.pos + 1 /\ rc.end = mm
    OBVIOUS
  <2> HIDE DEF mm, sk, rc
  <2>8. CTypeOK'
    BY <1>1, <2>6, <2>7 DEF CTypeOK
  <2>9. Windows'
    <3> SUFFICES ASSUME NEW i \in 1..R + 1
                 PROVE  /\ 1 <= rstack'[i].pos /\ rstack'[i].pos <= rstack'[i].end
                        /\ rstack'[i].end <= Len(body') + 1
                        /\ \A r \in Opens' : rstack'[i].pos <= r /\ r < rstack'[i].end =>
                                              body'[r].m < rstack'[i].end
      BY <2>7 DEF Windows
    <3>1. Opens' = Opens /\ body' = body
      BY <1>1 DEF Opens
    <3>2. CASE i = R + 1
      <4>1. \A r \in Opens : c.pos < r /\ r < mm => body[r].m < mm
        BY <2>2, <2>3, <2>13 DEF Laminar
      <4>2. rstack'[i].pos = c.pos + 1 /\ rstack'[i].end = mm
        BY <3>2, <2>7, <2>13
      <4>3. 1 <= c.pos + 1 /\ c.pos + 1 <= mm /\ mm <= Len(body') + 1
        BY <3>1, <2>3, <2>5, <1>3
      <4>4. \A r \in Opens' : c.pos + 1 <= r /\ r < mm => body'[r].m < mm
        BY <3>1, <4>1, <2>5, <1>4
      <4> QED
        BY <4>2, <4>3, <4>4
    <3>3. CASE i = R
      <4>2. rstack'[i].pos = mm + 1 /\ rstack'[i].end = c.end
        BY <3>3, <2>7, <2>13
      <4>3. 1 <= mm + 1 /\ mm + 1 <= c.end /\ c.end <= Len(body') + 1
        BY <3>1, <1>3, <2>3, <2>4, <2>5
      <4>4. \A r \in Opens' : mm + 1 <= r /\ r < c.end => body'[r].m < c.end
        BY <3>1, <1>3, <2>3, <2>5, <1>4
      <4> QED
        BY <4>2, <4>3, <4>4
    <3>4. CASE i < R
      <4>1. rstack'[i] = rstack[i] /\ i \in 1..Len(rstack)
        BY <3>4, <2>7, <1>2
      <4> QED
        BY <4>1, <3>1 DEF Windows
    <3> QED
      BY <3>2, <3>3, <3>4
  <2>10. Nested'
    <3>1. ASSUME NEW i \in 1..R
          PROVE  /\ rstack'[i].pos = rstack'[i + 1].end + 1
                 /\ body'[rstack'[i + 1].end].kind = "close"
      <4>1. CASE i = R
        BY <4>1, <1>1, <2>3, <2>7, <2>13
      <4>2. CASE i < R
        <5>1. i \in 1..Len(rstack) - 1 /\ rstack'[i] = rstack[i]
          BY <4>2, <1>2, <2>7
        <5>2. rstack'[i + 1].end = rstack[i + 1].end
          <6>1. CASE i + 1 = R
            BY <6>1, <1>3, <2>7, <2>13
          <6>2. CASE i + 1 < R
            BY <6>2, <4>2, <1>2, <2>7
          <6> QED
            BY <4>2, <6>1, <6>2
        <5> QED
          BY <5>1, <5>2, <1>1 DEF Nested
      <4> QED
        BY <4>1, <4>2
    <3>2. rstack'[1].end = Len(body') + 1
      <4>1. rstack'[1].end = rstack[1].end
        <5>1. CASE R = 1
          BY <5>1, <1>3, <2>7, <2>13
        <5>2. CASE R # 1
          BY <5>2, <1>2, <2>7
        <5> QED
          BY <5>1, <5>2
      <4> QED
        BY <4>1, <1>1 DEF Nested
    <3> QED
      BY <2>7, <3>1, <3>2 DEF Nested
  <2>11. DecodedBefore'
    <3>1. Top(rstack') = rc
      BY <2>7 DEF Top
    <3>2. \A j \in 1..Len(decoded) : decoded[j] < c.pos /\ decoded[j] \in Nat
      BY <1>1 DEF DecodedBefore, CTypeOK
    <3> QED
      BY <1>1, <3>1, <3>2, <2>5, <2>13 DEF DecodedBefore
  <2>12. PhaseShape' /\ ReadInOrder'
    BY <1>1, <2>6, <2>7 DEF PhaseShape, ReadInOrder
  <2> QED
    BY <1>1, ReadFrame, <2>8, <2>9, <2>10, <2>11, <2>12
<1>6. CASE ArgType(c).kind # "open"
  <2>1. phase' = "done" /\ outcome' = "undefined" /\ UNCHANGED <<rstack, misread>>
    BY <1>6 DEF PopContainer
  <2> QED
    BY <1>1, <2>1, PopFailFrame DEF CTypeOK, Outcomes
<1> QED
  BY <1>5, <1>6

(* The decoder destroys the Reader in use; the message's Reader ends     *)
(* decoding.                                                              *)
LEMMA DropReaderStep ==
    ASSUME CInv, DropReader
    PROVE  CInv'
<1> USE DEF CInv
<1>1. phase = "read" /\ rstack # <<>> /\ wstack = <<>> /\ skipped' \in BOOLEAN
      /\ rstack' = Pop(rstack) /\ UNCHANGED <<body, wstack, decoded, misread>>
  BY DEF DropReader, PhaseShape
<1>2. PICK R \in Nat : R = Len(rstack) /\ R # 0
  BY <1>1, TopCursor
<1>3. /\ rstack' \in Seq(Cursors) /\ Len(rstack') = R - 1
      /\ \A i \in 1..R - 1 : rstack'[i] = rstack[i]
  <2>1. rstack \in Seq(Cursors)
    BY DEF CTypeOK
  <2> QED
    BY <1>1, <1>2, <2>1, PopProps
<1>4. Windows'
  <2> SUFFICES ASSUME NEW i \in 1..R - 1
               PROVE  /\ 1 <= rstack'[i].pos /\ rstack'[i].pos <= rstack'[i].end
                      /\ rstack'[i].end <= Len(body') + 1
                      /\ \A r \in Opens' : rstack'[i].pos <= r /\ r < rstack'[i].end =>
                                            body'[r].m < rstack'[i].end
    BY <1>3 DEF Windows
  <2>1. Opens' = Opens /\ i \in 1..Len(rstack)
    BY <1>1, <1>2 DEF Opens
  <2> QED
    BY <1>1, <1>3, <2>1 DEF Windows
<1>5. Nested'
  <2>1. ASSUME NEW i \in 1..R - 2
        PROVE  /\ rstack'[i].pos = rstack'[i + 1].end + 1
               /\ body'[rstack'[i + 1].end].kind = "close"
    <3>1. i \in 1..Len(rstack) - 1 /\ rstack'[i] = rstack[i] /\ rstack'[i + 1] = rstack[i + 1]
      BY <1>2, <1>3
    <3> QED
      BY <3>1, <1>1 DEF Nested
  <2>2. rstack' # <<>> => rstack'[1].end = Len(body') + 1
    <3>1. rstack' # <<>> => rstack'[1] = rstack[1]
      BY <1>2, <1>3
    <3> QED
      BY <3>1, <1>1 DEF Nested
  <2> QED
    BY <2>1, <2>2, <1>2, <1>3 DEF Nested
<1>6. CASE R = 1
  <2>1. phase' = "done" /\ outcome' = "ok" /\ rstack' = <<>>
    BY <1>1, <1>2, <1>3, <1>6 DEF DropReader
  <2> QED
    BY <1>1, <1>3, <1>4, <1>5, <2>1, ReadFrame DEF CTypeOK, Phases, Outcomes, DecodedBefore,
                                                PhaseShape, ReadInOrder
<1>7. CASE R # 1
  <2>1. UNCHANGED <<phase, outcome>> /\ rstack' # <<>>
    BY <1>1, <1>2, <1>3, <1>7 DEF DropReader
  <2>2. DecodedBefore'
    <3>1. R - 1 \in 1..Len(rstack) - 1 /\ R \in 1..Len(rstack)
      BY <1>2, <1>7
    <3>2. Top(rstack') = rstack[R - 1]
      BY <1>2, <1>3, <1>7 DEF Top
    <3>3. rstack[R - 1].pos = rstack[R].end + 1 /\ rstack[R].pos <= rstack[R].end
      BY <3>1 DEF Nested, Windows
    <3>4. \A j \in 1..Len(decoded) : decoded[j] < rstack[R].pos /\ decoded[j] \in Nat
      BY <1>1, <1>2 DEF DecodedBefore, Top, CTypeOK
    <3>5. rstack[R] \in Cursors
      BY <3>1 DEF CTypeOK
    <3> QED
      BY <1>1, <3>2, <3>3, <3>4, <3>5 DEF DecodedBefore, Cursors
  <2> QED
    BY <1>1, <1>3, <1>4, <1>5, <2>1, <2>2, ReadFrame DEF CTypeOK, PhaseShape, ReadInOrder
<1> QED
  BY <1>6, <1>7

-----------------------------------------------------------------------------
(* Lemmas about what has been read.                                       *)

(* Moving a cursor over one token adds that token to what lies before it *)
(* exactly when it is a basic value.                                      *)
LEMMA BasicsBeforeNext ==
    ASSUME NEW q \in Nat
    PROVE  BasicsBefore(q + 1) =
             IF q \in 1..Len(body) /\ body[q].kind = "basic"
             THEN BasicsBefore(q) \cup {q} ELSE BasicsBefore(q)
BY DEF BasicsBefore

(* Reading a value adds its position to the positions read.              *)
LEMMA ReadPositionsAppend ==
    ASSUME decoded \in Seq(Nat), NEW x \in Nat, decoded' = Append(decoded, x)
    PROVE  ReadPositions' = ReadPositions \cup {x}
<1>1. PICK D \in Nat : D = Len(decoded)
  OBVIOUS
<1>2. Len(decoded') = D + 1 /\ decoded'[D + 1] = x
      /\ \A j \in 1..D : decoded'[j] = decoded[j]
  BY <1>1, AppendProperties
<1> QED
  BY <1>1, <1>2 DEF ReadPositions

(* Write steps: there is no Reader and decoding has not ended.            *)
LEMMA WriteReadSoFar ==
    ASSUME CInv, phase = "write", phase' = "write", UNCHANGED rstack
    PROVE  ReadSoFar' /\ ReadAllBasics'
BY DEF CInv, PhaseShape, ReadSoFar, ReadAllBasics

(* A failed pop keeps what has been read and ends without "ok".           *)
LEMMA FailReadSoFar ==
    ASSUME ReadSoFar, outcome' # "ok", UNCHANGED <<body, rstack, decoded, skipped>>
    PROVE  ReadSoFar' /\ ReadAllBasics'
BY DEF ReadSoFar, ReadAllBasics, ReadPositions, BasicsBefore

LEMMA PopBasicReadSoFar ==
    ASSUME RInv, NEW b \in Basics, PopBasic(b)
    PROVE  ReadSoFar' /\ ReadAllBasics'
<1> DEFINE c == Top(rstack)
<1>1. CInv /\ ReadSoFar /\ rstack # <<>> /\ phase = "read"
      /\ UNCHANGED <<body, skipped>>
  BY DEF RInv, PopBasic
<1>2. PICK R \in Nat : R = Len(rstack) /\ R # 0
  BY <1>1, TopCursor
<1>3. c = rstack[R] /\ c \in Cursors /\ c.pos \in Nat /\ c.end \in Nat
  BY <1>1, <1>2, TopCursor DEF Cursors
<1>4. CASE ArgType(c) = Tok("basic", b)
  <2>1. c.pos < c.end
    <3>1. SUFFICES ASSUME ~(c.pos < c.end) PROVE FALSE
      OBVIOUS
    <3>2. Tok("basic", b) = Tok("basic", "invalid")
      BY <1>4, <3>1 DEF ArgType
    <3> QED
      BY <3>2 DEF Tok
  <2>2. c.pos \in 1..Len(body) /\ body[c.pos].kind = "basic"
    <3>1. 1 <= c.pos /\ c.end <= Len(body) + 1
      BY <1>1, TopCursor
    <3>2. body[c.pos] = Tok("basic", b)
      BY <1>4, <2>1 DEF ArgType
    <3> QED
      BY <1>3, <2>1, <3>1, <3>2 DEF Tok
  <2>3. decoded' = Append(decoded, c.pos) /\ rstack' = ReplaceTop(rstack, Next(c))
        /\ UNCHANGED <<phase, outcome>>
    BY <1>4 DEF PopBasic
  <2>4. Top(rstack').pos = c.pos + 1 /\ rstack' # <<>>
    <3> DEFINE nc == [pos |-> c.pos + 1, end |-> c.end]
    <3>1. rstack' = ReplaceTop(rstack, nc) /\ nc \in Cursors
      BY <1>3, <2>3, CursorNext DEF Cursors
    <3>2. Len(ReplaceTop(rstack, nc)) = Len(rstack)
          /\ ReplaceTop(rstack, nc)[Len(rstack)] = nc
      <4>1. rstack \in Seq(Cursors) /\ rstack # <<>> /\ nc \in Cursors
        BY <1>1, <3>1 DEF CInv, CTypeOK
      <4> HIDE DEF nc, c
      <4>2. /\ ReplaceTop(rstack, nc) \in Seq(Cursors)
            /\ Len(ReplaceTop(rstack, nc)) = Len(rstack)
            /\ \A i \in 1..Len(rstack) : ReplaceTop(rstack, nc)[i] =
                                            IF i = Len(rstack) THEN nc ELSE rstack[i]
        BY <4>1, ReplaceTopProps
      <4> QED
        BY <1>2, <4>2
    <3> QED
      BY <1>2, <3>1, <3>2 DEF Top
  <2>5. ReadPositions' = ReadPositions \cup {c.pos}
    BY <1>1, <1>3, <2>3, ReadPositionsAppend DEF CInv, CTypeOK
  <2>6. BasicsBefore(c.pos + 1) = BasicsBefore(c.pos) \cup {c.pos}
    BY <1>3, <2>2, BasicsBeforeNext
  <2>7. BasicsBefore(Top(rstack).pos)' = BasicsBefore(c.pos + 1)
    BY <1>1, <2>4 DEF BasicsBefore
  <2>8. ReadSoFar'
    BY <1>1, <2>5, <2>6, <2>7 DEF ReadSoFar
  <2> QED
    BY <2>3, <2>8, <1>1 DEF ReadAllBasics
<1>5. CASE ArgType(c) # Tok("basic", b)
  BY <1>1, <1>5, FailReadSoFar DEF PopBasic
<1> QED
  BY <1>4, <1>5

LEMMA PopContainerReadSoFar ==
    ASSUME RInv, NEW k \in Containers, PopContainer(k)
    PROVE  ReadSoFar' /\ ReadAllBasics'
<1> DEFINE c == Top(rstack)
<1>1. CInv /\ ReadSoFar /\ rstack # <<>> /\ phase = "read"
      /\ UNCHANGED <<body, skipped, decoded>>
  BY DEF RInv, PopContainer
<1>2. PICK R \in Nat : R = Len(rstack) /\ R # 0
  BY <1>1, TopCursor
<1>3. c \in Cursors /\ c.pos \in Nat /\ c.end \in Nat /\ c.pos <= c.end
      /\ c.end <= Len(body) + 1 /\ 1 <= c.pos
  BY <1>1, <1>2, TopCursor DEF Cursors
<1>4. CASE ArgType(c).kind = "open"
  <2> DEFINE sk == Skipped(c)
             rc == Recursed(c)
  <2>1. c.pos < c.end
    BY <1>4 DEF ArgType, Tok
  <2>2. c.pos \in 1..Len(body) /\ body[c.pos].kind = "open"
    BY <1>3, <1>4, <2>1 DEF ArgType
  <2>3. rstack' = Append(ReplaceTop(rstack, sk), rc) /\ UNCHANGED <<phase, outcome>>
    BY <1>4 DEF PopContainer
  <2>4. rc.pos = c.pos + 1 /\ sk \in Cursors /\ rc \in Cursors
    <3>1. body[c.pos].m \in Nat
      BY <1>1, <2>2, BodyFacts DEF CInv
    <3> QED
      BY <1>3, <3>1, CursorSkipped DEF Recursed, Match, Cursors
  <2>5. Top(rstack').pos = c.pos + 1 /\ rstack' # <<>>
    <3>1. rstack \in Seq(Cursors) /\ rstack # <<>> /\ sk \in Cursors
      BY <1>1, <2>4 DEF CInv, CTypeOK
    <3>2. ReplaceTop(rstack, sk) \in Seq(Cursors)
      <4> HIDE DEF sk, c
      <4> QED
        BY <3>1, ReplaceTopProps
    <3>3. Len(Append(ReplaceTop(rstack, sk), rc)) = Len(ReplaceTop(rstack, sk)) + 1
          /\ Append(ReplaceTop(rstack, sk), rc)[Len(ReplaceTop(rstack, sk)) + 1] = rc
      <4> DEFINE ss == ReplaceTop(rstack, sk)
      <4>1. ss \in Seq(Cursors) /\ rc \in Cursors
        BY <3>2, <2>4
      <4>0. ss = ReplaceTop(rstack, sk)
        OBVIOUS
      <4> HIDE DEF sk, rc, c, ss
      <4>2. Len(Append(ss, rc)) = Len(ss) + 1 /\ Append(ss, rc)[Len(ss) + 1] = rc
        BY <4>1, AppendProperties
      <4> QED
        BY <4>0, <4>2
    <3> QED
      BY <2>3, <2>4, <3>3 DEF Top
  <2>6. BasicsBefore(c.pos + 1) = BasicsBefore(c.pos)
    BY <1>3, <2>2, BasicsBeforeNext
  <2>7. BasicsBefore(Top(rstack).pos)' = BasicsBefore(c.pos + 1)
    BY <1>1, <2>5 DEF BasicsBefore
  <2>8. ReadSoFar'
    BY <1>1, <2>6, <2>7 DEF ReadSoFar, ReadPositions
  <2> QED
    BY <2>3, <2>8, <1>1 DEF ReadAllBasics
<1>5. CASE ArgType(c).kind # "open"
  BY <1>1, <1>5, FailReadSoFar DEF PopContainer
<1> QED
  BY <1>4, <1>5

LEMMA GetReaderReadSoFar ==
    ASSUME RInv, GetReader
    PROVE  ReadSoFar' /\ ReadAllBasics'
<1>1. decoded = <<>> /\ UNCHANGED <<body, decoded, skipped>>
  BY DEF RInv, CInv, PhaseShape, GetReader
<1>2. CASE body = <<>>
  BY <1>2 DEF GetReader, ReadSoFar, ReadAllBasics, RInv, CInv, PhaseShape
<1>3. CASE body # <<>>
  <2>0. phase' = "read" /\ rstack' = <<[pos |-> 1, end |-> Len(body) + 1]>>
    BY <1>3 DEF GetReader
  <2>1. phase' = "read" /\ Top(rstack').pos = 1
    BY <2>0 DEF Top
  <2>2. BasicsBefore(Top(rstack).pos)' = {} /\ ReadPositions' = {}
    BY <1>1, <2>1 DEF BasicsBefore, ReadPositions
  <2> QED
    BY <2>1, <2>2 DEF ReadSoFar, ReadAllBasics
<1> QED
  BY <1>2, <1>3

LEMMA DropReaderReadSoFar ==
    ASSUME RInv, DropReader
    PROVE  ReadSoFar' /\ ReadAllBasics'
<1> DEFINE c == Top(rstack)
<1>1. CInv /\ ReadSoFar /\ rstack # <<>> /\ phase = "read"
      /\ rstack' = Pop(rstack) /\ UNCHANGED <<body, decoded>>
      /\ skipped' = (skipped \/ c.pos < c.end)
  BY DEF RInv, DropReader
<1>2. CASE skipped'
  BY <1>2 DEF ReadSoFar, ReadAllBasics
<1>3. CASE ~skipped'
  <2>1. PICK R \in Nat : R = Len(rstack) /\ R # 0
    BY <1>1, TopCursor
  <2>2. c = rstack[R] /\ c.pos \in Nat /\ c.pos = c.end
    <3>1. c = rstack[R] /\ c \in Cursors /\ c.pos <= c.end
      BY <1>1, <2>1, TopCursor
    <3>2. ~(c.pos < c.end)
      BY <1>1, <1>3
    <3> QED
      BY <3>1, <3>2 DEF Cursors
  <2>3. ReadPositions = BasicsBefore(c.pos) /\ ~skipped
    BY <1>1, <1>3 DEF ReadSoFar
  <2>4. CASE R = 1
    <3>1. phase' = "done" /\ outcome' = "ok" /\ rstack' = <<>>
      <4>1. Len(rstack') = 0
        <5>0. rstack \in Seq(Cursors) /\ rstack # <<>>
          BY <1>1 DEF CInv, CTypeOK
        <5>1. Len(Pop(rstack)) = Len(rstack) - 1
          BY <5>0, PopProps, Zenon
        <5>2. Len(rstack) = 1
          BY <2>1, <2>4
        <5>3. Len(Pop(rstack)) = 0
          BY <5>1, <5>2
        <5> QED
          BY <1>1, <5>3, Zenon
      <4> QED
        BY <1>1, <2>1, <2>4, <4>1 DEF DropReader, CInv, CTypeOK
    <3>2. c.pos = Len(body) + 1
      BY <1>1, <2>1, <2>2, <2>4 DEF CInv, Nested
    <3> QED
      BY <1>1, <2>3, <3>1, <3>2 DEF ReadSoFar, ReadAllBasics, ReadPositions, BasicsBefore
  <2>7. CASE R # 1
    <3>1. rstack' # <<>> /\ Top(rstack') = rstack[R - 1] /\ phase' = "read"
      <4>1. Len(rstack') = R - 1 /\ rstack'[R - 1] = rstack[R - 1]
        BY <1>1, <2>1, <2>7, PopProps DEF CInv, CTypeOK
      <4> QED
        BY <1>1, <2>1, <2>7, <4>1 DEF DropReader, Top
    <3>2. rstack[R - 1].pos = c.pos + 1 /\ body[c.pos].kind = "close"
      <4>1. R - 1 \in 1..Len(rstack) - 1
        BY <2>1, <2>7
      <4> QED
        BY <1>1, <2>2, <4>1 DEF CInv, Nested
    <3>3. BasicsBefore(c.pos + 1) = BasicsBefore(c.pos)
      BY <2>2, <3>2, BasicsBeforeNext
    <3>4. BasicsBefore(Top(rstack).pos)' = BasicsBefore(c.pos + 1)
      BY <1>1, <3>1, <3>2 DEF BasicsBefore
    <3> QED
      BY <1>1, <2>3, <3>1, <3>3, <3>4 DEF ReadSoFar, ReadAllBasics, ReadPositions
  <2> QED
    BY <2>4, <2>7
<1> QED
  BY <1>2, <1>3

-----------------------------------------------------------------------------
(* CInv is inductive.                                                     *)
LEMMA CInvStep == CInv /\ [CNext]_cvars => CInv'
<1> SUFFICES ASSUME CInv, [CNext]_cvars PROVE CInv'
  OBVIOUS
<1>1. CASE \E b \in Basics : PushBasic(b) \/ PopBasic(b)
  BY <1>1, PushBasicStep, PopBasicStep
<1>2. CASE \E k \in Containers, e \in Basics \cup {"any"} : OpenContainer(k, e)
  BY <1>2, OpenContainerStep
<1>3. CASE CloseContainer
  BY <1>3, CloseContainerStep
<1>4. CASE GetReader
  BY <1>4, GetReaderStep
<1>5. CASE \E k \in Containers : PopContainer(k)
  BY <1>5, PopContainerStep
<1>6. CASE DropReader
  BY <1>6, DropReaderStep
<1>7. CASE UNCHANGED cvars
  <2>0. /\ phase' = phase /\ body' = body /\ wstack' = wstack /\ rstack' = rstack
        /\ decoded' = decoded /\ skipped' = skipped /\ misread' = misread /\ outcome' = outcome
    BY <1>7 DEF cvars
  <2>1. CTypeOK' /\ ReadInOrder'
    BY <2>0 DEF CInv, CTypeOK, ReadInOrder
  <2>2. UnclosedInStack' /\ StackIncreasing' /\ ExtentOnClose'
    BY <2>0 DEF CInv, UnclosedInStack, StackIncreasing, ExtentOnClose, Opens
  <2>3. Laminar' /\ ClosedBeforeOpen'
    BY <2>0 DEF CInv, Laminar, ClosedBeforeOpen, Opens
  <2>4. Windows' /\ Nested' /\ DecodedBefore' /\ PhaseShape'
    BY <2>0 DEF CInv, Windows, Nested, DecodedBefore, PhaseShape, Opens, Top
  <2> QED
    BY <2>1, <2>2, <2>3, <2>4 DEF CInv
<1> QED
  BY <1>1, <1>2, <1>3, <1>4, <1>5, <1>6, <1>7 DEF CNext

(* Type correctness of Message::Writer and Message::Reader: every push,   *)
(* open, close, pop and Reader drop keeps the body a sequence of tokens,   *)
(* the Writers and Readers stacks of well-formed cursors, and decoded a   *)
(* sequence of body positions, whatever the basic types and the bounds.   *)
THEOREM CTypeCorrect == CSpec => []CTypeOK
<1>1. CInv => CTypeOK
  BY DEF CInv
<1> QED
  BY CInvInit, CInvStep, <1>1, PTL DEF CSpec

(* pop_* and pop_array/pop_structure/pop_variant read the values of a     *)
(* body in the order they were written and never twice: every value read *)
(* lies strictly after the one read before it, for every nesting of       *)
(* containers.                                                            *)
THEOREM ReadsInOrder == CSpec => []ReadInOrder
<1>1. CInv => ReadInOrder
  BY DEF CInv
<1> QED
  BY CInvInit, CInvStep, <1>1, PTL DEF CSpec

-----------------------------------------------------------------------------
(* RInv is inductive.                                                     *)
LEMMA RInvStep == RInv /\ [CNext]_cvars => RInv'
<1> SUFFICES ASSUME RInv, [CNext]_cvars PROVE RInv'
  OBVIOUS
<1>1. CInv'
  BY CInvStep DEF RInv
<1>2. CInv
  BY DEF RInv
<1>3. ReadSoFar' /\ ReadAllBasics'
  <2>1. CASE \E b \in Basics : PushBasic(b)
    BY <1>2, <2>1, WriteReadSoFar DEF PushBasic
  <2>2. CASE \E b \in Basics : PopBasic(b)
    BY <2>2, PopBasicReadSoFar
  <2>3. CASE \E k \in Containers, e \in Basics \cup {"any"} : OpenContainer(k, e)
    BY <1>2, <2>3, WriteReadSoFar DEF OpenContainer
  <2>4. CASE CloseContainer
    BY <1>2, <2>4, WriteReadSoFar DEF CloseContainer
  <2>5. CASE GetReader
    BY <2>5, GetReaderReadSoFar
  <2>6. CASE \E k \in Containers : PopContainer(k)
    BY <2>6, PopContainerReadSoFar
  <2>7. CASE DropReader
    BY <2>7, DropReaderReadSoFar
  <2>8. CASE UNCHANGED cvars
    <3>0. /\ phase' = phase /\ body' = body /\ rstack' = rstack
          /\ decoded' = decoded /\ skipped' = skipped /\ outcome' = outcome
      BY <2>8 DEF cvars
    <3>1. ReadPositions' = ReadPositions
      BY <3>0 DEF ReadPositions
    <3>2. \A q : BasicsBefore(q)' = BasicsBefore(q)
      BY <3>0 DEF BasicsBefore
    <3> QED
      BY <3>0, <3>1, <3>2 DEF RInv, ReadSoFar, ReadAllBasics
  <2> QED
    BY <2>1, <2>2, <2>3, <2>4, <2>5, <2>6, <2>7, <2>8 DEF CNext
<1> QED
  BY <1>1, <1>3 DEF RInv

(* What a complete decode returns: a decoder that pops through the whole  *)
(* message without dropping a Reader early and returns normally has read  *)
(* every basic value written by the push_* calls and nothing else; with   *)
(* ReadsInOrder, in the order they were written.                          *)
THEOREM CompleteReadContent == CSpec => [](ReadAllBasics /\ ReadInOrder)
<1>1. CInit => RInv
  BY CInvInit DEF CInit, RInv, ReadSoFar, ReadAllBasics
<1>2. RInv => ReadAllBasics /\ ReadInOrder
  BY DEF RInv, CInv
<1> QED
  BY <1>1, <1>2, RInvStep, PTL DEF CSpec

=====
