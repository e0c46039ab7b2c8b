---------------------------- MODULE CodecContract ----------------------------
(***************************************************************************)
(* What the wire codec promises (spec 4.2), with no tokens, containers or *)
(* extents: a Writer appends typed values; a Reader hands them back in    *)
(* the order they were written, advancing only when a pop succeeds, and a *)
(* pop of type b succeeds only on a value of type b.  Values are passed    *)
(* over only by giving up on a Reader before its end, and that is         *)
(* recorded; any read may instead fail (a type mismatch, or a container   *)
(* pop on something that is not one).                                     *)
(***************************************************************************)
EXTENDS Naturals, Sequences

CONSTANT Basics     \* basic type codes

VARIABLES
    stage,      \* "write", "read" or "done"
    written,    \* the types of the values written, in order
    got,        \* the types of the values read, in order
    cursor,     \* how many written values have been read or passed over
    passed,     \* some value, or the rest of a container, was passed over
    result      \* how reading ended

avars == <<stage, written, got, cursor, passed, result>>

AInit ==
    /\ stage = "write"
    /\ written = << >>
    /\ got = << >>
    /\ cursor = 0
    /\ passed = FALSE
    /\ result = "none"

(* A value of type b is appended.                                        *)
AWrite(b) ==
    /\ stage = "write"
    /\ written' = Append(written, b)
    /\ UNCHANGED <<stage, got, cursor, passed, result>>

(* Reading starts at the first value.                                    *)
AStart ==
    /\ stage = "write"
    /\ stage' = "read"
    /\ UNCHANGED <<written, got, cursor, passed, result>>

(* A message without values has no Reader.                               *)
ANoArguments ==
    /\ stage = "write"
    /\ written = << >>
    /\ stage' = "done"
    /\ result' = "no_arguments"
    /\ UNCHANGED <<written, got, cursor, passed>>

(* A pop of type b returns the next value, which has type b.             *)
ARead(b) ==
    /\ stage = "read"
    /\ cursor < Len(written)
    /\ written[cursor + 1] = b
    /\ got' = Append(got, b)
    /\ cursor' = cursor + 1
    /\ UNCHANGED <<stage, written, passed, result>>

(* A read fails and decoding stops where it is.                          *)
AFail ==
    /\ stage = "read"
    /\ stage' = "done"
    /\ result' \in {"type_mismatch", "undefined"}
    /\ UNCHANGED <<written, got, cursor, passed>>

(* The rest of a container is given up: the cursor moves forward, and    *)
(* moving past a value is recorded.                                      *)
APass ==
    /\ stage = "read"
    /\ \E k \in cursor..Len(written), s \in BOOLEAN :
          /\ k > cursor => s
          /\ cursor' = k
          /\ passed' = (passed \/ s)
    /\ UNCHANGED <<stage, written, got, result>>

(* Decoding returns: what is left unread is passed over.                 *)
AFinish ==
    /\ stage = "read"
    /\ \E s \in BOOLEAN :
          /\ cursor < Len(written) => s
          /\ passed' = (passed \/ s)
    /\ cursor' = Len(written)
    /\ stage' = "done"
    /\ result' = "ok"
    /\ UNCHANGED <<written, got>>

ANext ==
    \/ \E b \in Basics : AWrite(b) \/ ARead(b)
    \/ AStart \/ ANoArguments \/ AFail \/ APass \/ AFinish

ASpec == AInit /\ [][ANext]_avars
=============================================================================
