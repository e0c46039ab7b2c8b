---------------------------- MODULE MessageCodec ----------------------------
(***************************************************************************)
(* Message::Writer and Message::Reader (src/src/core/dbus/message.cpp):   *)
(* a message body is written through Writer cursors (push, open and close  *)
(* calls), then read back through Reader cursors (pop calls).             *)
(*                                                                         *)
(* The body is the token stream of its marshalled arguments: a basic       *)
(* value is one token, a container an "open" token, its contents and a     *)
(* "close" token.  Values are abstracted to their type code; a value's     *)
(* identity is its position in the body.  An open token records where its *)
(* container ends (m): dbus_message_iter_close_container writes the        *)
(* container's length back into it, and dbus_message_iter_next skips the   *)
(* container by that extent.  A cursor is a window            *)
(* [pos, end) of the body.  Arrays and variants hold basic values, so      *)
(* every body the model writes is one libdbus accepts; dict entries are    *)
(* read by the same code as structures and are left out.                  *)
(***************************************************************************)
EXTENDS Naturals, Sequences

CONSTANTS
    Basics,     \* basic type codes (byte, string, ...)
    MaxLen,     \* bound on the body's length in tokens
    MaxDepth    \* bound on container nesting

ASSUME BasicsAssumption == Basics # {} /\ "invalid" \notin Basics
ASSUME MaxLenAssumption == MaxLen \in Nat
ASSUME MaxDepthAssumption == MaxDepth \in Nat

Containers == {"struct", "array", "variant"}
Tokens == [kind : {"basic"}, type : Basics, m : {0}]
              \cup [kind : {"close"}, type : Containers, m : {0}]
              \cup [kind : {"open"}, type : Containers, m : Nat]
\* An open Writer: its container kind, the element type it takes (arrays and
\* variants), how many complete values it holds, and where it was opened.
OpenWriters == [k : Containers, elem : Basics \cup {"any"}, n : Nat, at : Nat]
Cursors == [pos : Nat, end : Nat]
Phases == {"write", "read", "done"}
Outcomes == {"none", "ok", "no_arguments", "type_mismatch", "undefined"}

VARIABLES
    phase,      \* writing the body, reading it, or finished
    body,       \* the marshalled arguments
    wstack,     \* open container Writers, innermost last
    rstack,     \* live Readers, the one in use last
    decoded,    \* positions of the basic values read so far
    skipped,    \* a Reader was dropped before its end
    misread,    \* a container was read as another kind
    outcome     \* how reading ended

cvars == <<phase, body, wstack, rstack, decoded, skipped, misread, outcome>>

\* A token as it is first written; an open token's extent is set at close.
Tok(k, t) == [kind |-> k, type |-> t, m |-> 0]

\* The close token matching the open token at p.
Match(p) == body[p].m

\* The positions of the basic values among the first i tokens of bd, in
\* order: SelectSeq's recursion, written out so that proofs can unfold it.
BasicsUpTo(bd) ==
    LET F[i \in 0..Len(bd)] ==
            IF i = 0 THEN << >>
            ELSE IF bd[i].kind = "basic" THEN Append(F[i - 1], i)
            ELSE F[i - 1]
    IN  F

\* The positions of the basic values of the body, in order.
BasicPositions == BasicsUpTo(body)[Len(body)]

\* Reader::type(): the argument under a cursor, "invalid" at its end.
ArgType(c) == IF c.pos < c.end THEN body[c.pos] ELSE Tok("basic", "invalid")

Top(s) == s[Len(s)]
ReplaceTop(s, x) == [s EXCEPT ![Len(s)] = x]
Pop(s) == SubSeq(s, 1, Len(s) - 1)

\* The caller's rules for a well-formed body, which libdbus checks and the
\* Writer passes through unchecked (Counted, Accepts, AcceptsContainer):
\* the values completed in the innermost open Writer (or at top level).
Counted(s) == IF s = <<>> THEN s ELSE [s EXCEPT ![Len(s)].n = @ + 1]

\* The innermost open Writer accepts a basic value of type b.
Accepts(b) ==
    IF wstack = <<>> THEN TRUE
    ELSE LET w == Top(wstack) IN
         \/ w.k = "struct"
         \/ w.k = "array" /\ w.elem = b
         \/ w.k = "variant" /\ w.elem = b /\ w.n = 0

\* The innermost open Writer accepts a container: only structures nest here.
AcceptsContainer == wstack = <<>> \/ (wstack # <<>> /\ Top(wstack).k = "struct")

\* Mutant: pop_* forgets dbus_message_iter_next.
NextForgotten(c) == c

\* dbus_message_iter_next after reading a basic value.
Next(c) == [c EXCEPT !.pos = @ + 1]

\* Mutant: the sub-iterator stops one token short.
RecursedShort(c) == [pos |-> c.pos + 1, end |-> Match(c.pos) - 1]

\* dbus_message_iter_recurse: a cursor over the container's contents.
Recursed(c) == [pos |-> c.pos + 1, end |-> Match(c.pos)]

\* Mutant: the parent Reader is moved one token past the container.
SkippedPastNext(c) == [c EXCEPT !.pos = Match(c.pos) + 2]

\* dbus_message_iter_next on a container: past its close token.
Skipped(c) == [c EXCEPT !.pos = Match(c.pos) + 1]

CTypeOK ==
    /\ phase \in Phases
    /\ body \in Seq(Tokens)
    /\ wstack \in Seq(OpenWriters)
    /\ rstack \in Seq(Cursors)
    /\ decoded \in Seq(Nat)
    /\ skipped \in BOOLEAN
    /\ misread \in BOOLEAN
    /\ outcome \in Outcomes

CInit ==
    /\ phase = "write"
    /\ body = <<>>
    /\ wstack = <<>>
    /\ rstack = <<>>
    /\ decoded = <<>>
    /\ skipped = FALSE
    /\ misread = FALSE
    /\ outcome = "none"

-----------------------------------------------------------------------------
(* push_byte ... push_unix_fd: dbus_message_iter_append_basic on the      *)
(* Writer in use, the innermost open one.                                 *)
PushBasic(b) ==
    /\ phase = "write"
    /\ Len(body) + Len(wstack) < MaxLen
    /\ Accepts(b)
    /\ body' = Append(body, Tok("basic", b))
    /\ wstack' = Counted(wstack)
    /\ UNCHANGED <<phase, rstack, decoded, skipped, misread, outcome>>

(* open_structure, open_array(signature), open_variant(signature): a new  *)
(* Writer whose iterator dbus_message_iter_open_container opens inside    *)
(* the current one.                                                       *)
OpenContainer(k, e) ==
    /\ phase = "write"
    /\ Len(body) + Len(wstack) + 2 <= MaxLen
    /\ Len(wstack) < MaxDepth
    /\ AcceptsContainer
    /\ (k = "struct") = (e = "any")
    /\ body' = Append(body, Tok("open", k))
    /\ wstack' = Append(wstack, [k |-> k, elem |-> e, n |-> 0, at |-> Len(body) + 1])
    /\ UNCHANGED <<phase, rstack, decoded, skipped, misread, outcome>>

\* Mutant: close_* writes the length at the child's current position, into
\* the last token appended, instead of the container's open token.
CloseContainerAtLast ==
    /\ phase = "write"
    /\ wstack # <<>>
    /\ \/ Top(wstack).k = "struct" /\ Top(wstack).n >= 1
       \/ Top(wstack).k = "variant" /\ Top(wstack).n = 1
       \/ Top(wstack).k = "array"
    /\ body' = [Append(body, Tok("close", Top(wstack).k))
                 EXCEPT ![Len(body)].m = Len(body) + 1]
    /\ wstack' = Counted(Pop(wstack))
    /\ UNCHANGED <<phase, rstack, decoded, skipped, misread, outcome>>

(* close_structure, close_array, close_variant: dbus_message_iter_close_  *)
(* container of the child Writer into its parent, which fixes up the      *)
(* container's length at its start.                                       *)
CloseContainer ==
    /\ phase = "write"
    /\ wstack # <<>>
    /\ \/ Top(wstack).k = "struct" /\ Top(wstack).n >= 1
       \/ Top(wstack).k = "variant" /\ Top(wstack).n = 1
       \/ Top(wstack).k = "array"
    /\ body' = [Append(body, Tok("close", Top(wstack).k))
                 EXCEPT ![Top(wstack).at].m = Len(body) + 1]
    /\ wstack' = Counted(Pop(wstack))
    /\ UNCHANGED <<phase, rstack, decoded, skipped, misread, outcome>>

(* Message::reader(): dbus_message_iter_init fails on a body without      *)
(* arguments and reader() throws.                                         *)
GetReader ==
    /\ phase = "write"
    /\ wstack = <<>>
    /\ IF body = <<>>
       THEN /\ phase' = "done"
            /\ outcome' = "no_arguments"
            /\ UNCHANGED rstack
       ELSE /\ phase' = "read"
            /\ rstack' = <<[pos |-> 1, end |-> Len(body) + 1]>>
            /\ UNCHANGED outcome
    /\ UNCHANGED <<body, wstack, decoded, skipped, misread>>

(* pop_byte ... pop_unix_fd: ensure_argument_type_or_throw, then          *)
(* dbus_message_iter_get_basic and dbus_message_iter_next.                *)
PopBasic(b) ==
    /\ phase = "read"
    /\ rstack # <<>>
    /\ LET c == Top(rstack) IN
       IF ArgType(c) = Tok("basic", b)
       THEN /\ decoded' = Append(decoded, c.pos)
            /\ rstack' = ReplaceTop(rstack, Next(c))
            /\ UNCHANGED <<phase, outcome>>
       ELSE /\ phase' = "done"
            /\ outcome' = "type_mismatch"
            /\ UNCHANGED <<rstack, decoded>>
    /\ UNCHANGED <<body, wstack, skipped, misread>>

(* pop_array, pop_structure, pop_variant: dbus_message_iter_recurse into  *)
(* a new Reader, then dbus_message_iter_next on this one, with no check   *)
(* of the argument's type.  Recursing into a container of another kind    *)
(* reads it as this kind; recursing into a basic value or past the end is *)
(* undefined in libdbus.                                                  *)
PopContainer(k) ==
    /\ phase = "read"
    /\ rstack # <<>>
    /\ LET c == Top(rstack) IN
       IF ArgType(c).kind = "open"
       THEN /\ rstack' = Append(ReplaceTop(rstack, Skipped(c)), Recursed(c))
            /\ misread' = (misread \/ ArgType(c).type # k)
            /\ UNCHANGED <<phase, outcome>>
       ELSE /\ phase' = "done"
            /\ outcome' = "undefined"
            /\ UNCHANGED <<rstack, misread>>
    /\ UNCHANGED <<body, wstack, decoded, skipped>>

(* The decoder is done with the Reader in use and destroys it; when that  *)
(* is the message's Reader, decoding has returned.                        *)
DropReader ==
    /\ phase = "read"
    /\ rstack # <<>>
    /\ skipped' = (skipped \/ Top(rstack).pos < Top(rstack).end)
    /\ rstack' = Pop(rstack)
    /\ IF Len(rstack) = 1
       THEN phase' = "done" /\ outcome' = "ok"
       ELSE UNCHANGED <<phase, outcome>>
    /\ UNCHANGED <<body, wstack, decoded, misread>>

CNext ==
    \/ \E b \in Basics : PushBasic(b) \/ PopBasic(b)
    \/ \E k \in Containers, e \in Basics \cup {"any"} : OpenContainer(k, e)
    \/ CloseContainer
    \/ GetReader
    \/ \E k \in Containers : PopContainer(k)
    \/ DropReader

CSpec == CInit /\ [][CNext]_cvars

-----------------------------------------------------------------------------
(* The refinement mapping onto the codec's contract: the values written   *)
(* are the types of the body's basic tokens, the values read the types at *)
(* the positions read, and the contract's cursor counts the basic values  *)
(* before the Reader in use (all of them once decoding has returned).     *)

\* How many basic values lie before position p (all of them past the end).
Count(p) ==
    IF p <= Len(body) + 1 THEN Len(BasicsUpTo(body)[p - 1]) ELSE Len(BasicPositions)

WrittenTypes == [j \in 1..Len(BasicPositions) |-> body[BasicPositions[j]].type]

ReadTypes == [j \in 1..Len(decoded) |-> body[decoded[j]].type]

ReadCursor ==
    IF rstack # << >> THEN Count(Top(rstack).pos)
    ELSE IF phase = "done" /\ outcome = "ok" THEN Len(BasicPositions)
    ELSE 0

Contract == INSTANCE CodecContract
                WITH stage <- phase, written <- WrittenTypes, got <- ReadTypes,
                     cursor <- ReadCursor, passed <- skipped, result <- outcome

-----------------------------------------------------------------------------
(* Reading never returns a value twice or out of order: each pop reads    *)
(* the value after the last one read, whatever the nesting, because       *)
(* pop_* and pop_array etc. advance the Reader they are called on.        *)
ReadInOrder ==
    \A i \in 1..Len(decoded) - 1 : decoded[i] < decoded[i + 1]

(* Writer and Reader implement the codec's contract: every pop_* that     *)
(* returns hands back the next value written, the pops of containers and  *)
(* the Readers' windows pass over no value unless a Reader is dropped     *)
(* early, which skipped records, and decoding fails or returns only from  *)
(* reading.                                                               *)
CodecMeetsContract == Contract!ASpec

(* Round trip: a decode that returns normally and reads every Reader to   *)
(* its end has read exactly the basic values that were written, in the    *)
(* order they were written.                                               *)
CompleteRead ==
    (phase = "done" /\ outcome = "ok" /\ ~skipped) => decoded = BasicPositions

(* The spec (4.2): on a type mismatch a read fails with TypeMismatch.     *)
(* No container pop silently reads another kind or runs into undefined   *)
(* behaviour.                                                             *)
ContainerPopChecksType == ~misread /\ outcome # "undefined"
=============================================================================
