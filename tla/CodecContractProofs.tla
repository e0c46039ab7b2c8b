------------------------- MODULE CodecContractProofs -------------------------
(***************************************************************************)
(* Message::Writer and Message::Reader implement the codec's contract     *)
(* (CodecContract) under the mapping of MessageCodec: the written values  *)
(* are the types of the body's basic tokens, the values read the types at *)
(* the positions read, and the contract's cursor the number of basic       *)
(* values before the Reader in use.  The mapping counts with BasicsUpTo,  *)
(* so the lemmas first say what BasicsUpTo(bd) is for any body bd: two     *)
(* bodies with the same kinds of token have the same basic positions, and *)
(* the list up to n is a prefix of the list up to any later m.            *)
(***************************************************************************)
EXTENDS CodecRoundTripProofs

(* The types of a body's basic values, in order: WrittenTypes of bd.      *)
WT(bd) == [j \in 1..Len(BasicsUpTo(bd)[Len(bd)]) |-> bd[BasicsUpTo(bd)[Len(bd)][j]].type]

-----------------------------------------------------------------------------
(* Every BasicsUpTo(bd)[n] is a sequence of positions of bd.              *)
LEMMA BasicsUpToType ==
    ASSUME NEW bd \in Seq(Tokens), NEW n \in 0..Len(bd)
    PROVE  /\ BasicsUpTo(bd)[n] \in Seq(Nat)
           /\ \A j \in 1..Len(BasicsUpTo(bd)[n]) :
                 BasicsUpTo(bd)[n][j] \in 1..n /\ bd[BasicsUpTo(bd)[n][j]].kind = "basic"
<1>1. UpToProps(bd, n)
  BY BasicsUpToProps
<1> QED
  BY <1>1 DEF UpToProps, Elems

(* Two bodies whose first n tokens are of the same kinds have the same    *)
(* basic positions up to n.                                               *)
LEMMA BasicsUpToAgree ==
    ASSUME NEW bd \in Seq(Tokens), NEW bd2 \in Seq(Tokens), NEW n \in Nat,
           n <= Len(bd), n <= Len(bd2), \A i \in 1..n : bd[i].kind = bd2[i].kind
    PROVE  \A m \in 0..n : BasicsUpTo(bd)[m] = BasicsUpTo(bd2)[m]
<1> DEFINE Bad == {m \in 0..n : BasicsUpTo(bd)[m] # BasicsUpTo(bd2)[m]}
<1>1. SUFFICES ASSUME Bad # {} PROVE FALSE
  OBVIOUS
<1>2. Bad \in SUBSET Nat
  OBVIOUS
<1> HIDE DEF Bad
<1>3. PICK m \in Bad : \A m2 \in Bad : m <= m2
  <2>1. \E x \in Bad : \A y \in Bad : x <= y
    BY <1>1, <1>2, NatMin
  <2> QED
    BY <2>1
<1>4. m \in 0..n /\ BasicsUpTo(bd)[m] # BasicsUpTo(bd2)[m]
  BY <1>3 DEF Bad
<1>5. CASE m = 0
  <2>1. BasicsUpTo(bd)[0] = << >> /\ BasicsUpTo(bd2)[0] = << >>
    BY BasicsUpToDef DEF BStep
  <2> QED
    BY <1>4, <1>5, <2>1
<1>6. CASE m # 0
  <2>1. m \in 1..Len(bd) /\ m \in 1..Len(bd2) /\ m - 1 \in 0..n /\ m - 1 \notin Bad
    BY <1>3, <1>4, <1>6
  <2>2. BasicsUpTo(bd)[m - 1] = BasicsUpTo(bd2)[m - 1]
    BY <2>1 DEF Bad
  <2>3. bd[m].kind = bd2[m].kind
    BY <1>4, <1>6
  <2>4. CASE bd[m].kind = "basic"
    <3>1. BasicsUpTo(bd)[m] = Append(BasicsUpTo(bd)[m - 1], m)
      BY <2>1, <2>4, BasicsUpToStep
    <3>2. BasicsUpTo(bd2)[m] = Append(BasicsUpTo(bd2)[m - 1], m)
      BY <2>1, <2>3, <2>4, BasicsUpToStep
    <3> QED
      BY <1>4, <2>2, <3>1, <3>2
  <2>5. CASE bd[m].kind # "basic"
    <3>1. BasicsUpTo(bd)[m] = BasicsUpTo(bd)[m - 1]
      BY <2>1, <2>5, BasicsUpToStep
    <3>2. BasicsUpTo(bd2)[m] = BasicsUpTo(bd2)[m - 1]
      BY <2>1, <2>3, <2>5, BasicsUpToStep
    <3> QED
      BY <1>4, <2>2, <3>1, <3>2
  <2> QED
    BY <2>4, <2>5
<1> QED
  BY <1>5, <1>6

(* The basic positions up to n are a prefix of those up to any later m.  *)
Prefix(bd, n, m) ==
    /\ Len(BasicsUpTo(bd)[n]) <= Len(BasicsUpTo(bd)[m])
    /\ \A j \in 1..Len(BasicsUpTo(bd)[n]) : BasicsUpTo(bd)[m][j] = BasicsUpTo(bd)[n][j]

LEMMA BasicsUpToPrefix ==
    ASSUME NEW bd \in Seq(Tokens), NEW n \in 0..Len(bd)
    PROVE  \A m \in n..Len(bd) : Prefix(bd, n, m)
<1> DEFINE Bad == {m \in n..Len(bd) : ~Prefix(bd, n, m)}
<1>1. SUFFICES ASSUME Bad # {} PROVE FALSE
  OBVIOUS
<1>2. Bad \in SUBSET Nat
  OBVIOUS
<1> HIDE DEF Bad
<1>3. PICK m \in Bad : \A m2 \in Bad : m <= m2
  <2>1. \E x \in Bad : \A y \in Bad : x <= y
    BY <1>1, <1>2, NatMin
  <2> QED
    BY <2>1
<1>4. m \in n..Len(bd) /\ ~Prefix(bd, n, m)
  BY <1>3 DEF Bad
<1>5. CASE m = n
  BY <1>4, <1>5 DEF Prefix
<1>6. CASE m # n
  <2>1. m \in 1..Len(bd) /\ m - 1 \in n..Len(bd) /\ m - 1 \notin Bad
    BY <1>3, <1>4, <1>6
  <2>2. Prefix(bd, n, m - 1)
    BY <2>1 DEF Bad
  <2> DEFINE U == BasicsUpTo(bd)[n]
             V == BasicsUpTo(bd)[m - 1]
  <2>3. U \in Seq(Nat) /\ V \in Seq(Nat)
    <3>1. U \in Seq(Nat)
      BY BasicsUpToType
    <3>2. m - 1 \in 0..Len(bd)
      BY <2>1
    <3>3. V \in Seq(Nat)
      BY <3>2, BasicsUpToType
    <3> QED
      BY <3>1, <3>3
  <2>4. Len(U) <= Len(V) /\ \A j \in 1..Len(U) : V[j] = U[j]
    BY <2>2 DEF Prefix
  <2>5. CASE bd[m].kind = "basic"
    <3>1. BasicsUpTo(bd)[m] = Append(V, m)
      BY <2>1, <2>5, BasicsUpToStep
    <3>2. Len(Append(V, m)) = Len(V) + 1 /\ \A j \in 1..Len(V) : Append(V, m)[j] = V[j]
      <4> HIDE DEF U, V
      <4> QED
        BY <2>3, AppendProperties
    <3>3. Len(U) <= Len(Append(V, m)) /\ \A j \in 1..Len(U) : Append(V, m)[j] = U[j]
      <4> HIDE DEF U, V
      <4> QED
        BY <2>3, <2>4, <3>2
    <3> QED
      BY <1>4, <3>1, <3>3 DEF Prefix
  <2>6. CASE bd[m].kind # "basic"
    <3>1. BasicsUpTo(bd)[m] = V
      BY <2>1, <2>6, BasicsUpToStep
    <3> QED
      BY <1>4, <2>4, <3>1 DEF Prefix
  <2> QED
    BY <2>5, <2>6
<1> QED
  BY <1>5, <1>6

(* Counting basic values is monotone in the position.                  *)
LEMMA CountMono ==
    ASSUME NEW bd \in Seq(Tokens), NEW n \in 0..Len(bd), NEW m \in n..Len(bd)
    PROVE  Len(BasicsUpTo(bd)[n]) <= Len(BasicsUpTo(bd)[m])
BY BasicsUpToPrefix DEF Prefix

(* The basic value at p is the one after the c basic values before it.   *)
LEMMA BasicAt ==
    ASSUME NEW bd \in Seq(Tokens), NEW p \in 1..Len(bd), bd[p].kind = "basic"
    PROVE  /\ Len(BasicsUpTo(bd)[p]) = Len(BasicsUpTo(bd)[p - 1]) + 1
           /\ Len(BasicsUpTo(bd)[p - 1]) + 1 \in 1..Len(BasicsUpTo(bd)[Len(bd)])
           /\ BasicsUpTo(bd)[Len(bd)][Len(BasicsUpTo(bd)[p - 1]) + 1] = p
<1> DEFINE U == BasicsUpTo(bd)[p - 1]
           V == BasicsUpTo(bd)[p]
           W == BasicsUpTo(bd)[Len(bd)]
<1> SUFFICES /\ Len(V) = Len(U) + 1
             /\ Len(U) + 1 \in 1..Len(W)
             /\ W[Len(U) + 1] = p
  OBVIOUS
<1>1. V = Append(U, p)
  BY BasicsUpToStep
<1>2. U \in Seq(Nat)
  BY BasicsUpToType
<1>3. Len(Append(U, p)) = Len(U) + 1 /\ Append(U, p)[Len(U) + 1] = p
  <2> HIDE DEF U
  <2> QED
    BY <1>2, AppendProperties
<1>4. Len(V) <= Len(W) /\ \A j \in 1..Len(V) : W[j] = V[j]
  <2>1. Prefix(bd, p, Len(bd))
    BY BasicsUpToPrefix
  <2> QED
    BY <2>1 DEF Prefix
<1> HIDE DEF U, V, W
<1>5. Len(V) = Len(U) + 1 /\ V[Len(U) + 1] = p
  BY <1>1, <1>3
<1>6. Len(U) \in Nat
  BY <1>2
<1> QED
  BY <1>4, <1>5, <1>6

(* A write step appends one token and keeps the kind and type of the     *)
(* others: the written types grow by the new token's type when it is a   *)
(* basic value, and stay as they are otherwise.                          *)
LEMMA WTExtend ==
    ASSUME NEW bd \in Seq(Tokens), NEW bd2 \in Seq(Tokens), Len(bd2) = Len(bd) + 1,
           \A i \in 1..Len(bd) : bd2[i].kind = bd[i].kind /\ bd2[i].type = bd[i].type
    PROVE  /\ bd2[Len(bd) + 1].kind = "basic" => WT(bd2) = Append(WT(bd), bd2[Len(bd) + 1].type)
           /\ bd2[Len(bd) + 1].kind # "basic" => WT(bd2) = WT(bd)
<1> DEFINE L == Len(bd)
           S == BasicsUpTo(bd)[L]
<1>1. BasicsUpTo(bd2)[L] = S
  <2>1. L \in Nat /\ L <= Len(bd) /\ L <= Len(bd2) /\ \A i \in 1..L : bd[i].kind = bd2[i].kind
    OBVIOUS
  <2> QED
    BY <2>1, BasicsUpToAgree
<1>2. S \in Seq(Nat) /\ \A j \in 1..Len(S) : S[j] \in 1..L
  BY BasicsUpToType
<1>3. \A j \in 1..Len(S) : bd2[S[j]].type = bd[S[j]].type
  BY <1>2
<1>4. WT(bd) = [j \in 1..Len(S) |-> bd[S[j]].type]
  BY DEF WT
<1>5. L + 1 \in 1..Len(bd2) /\ Len(bd2) = L + 1
  OBVIOUS
<1>6. ASSUME bd2[L + 1].kind = "basic" PROVE WT(bd2) = Append(WT(bd), bd2[L + 1].type)
  <2>1. BasicsUpTo(bd2)[L + 1] = Append(S, L + 1)
    <3>1. BasicsUpTo(bd2)[L + 1] = Append(BasicsUpTo(bd2)[(L + 1) - 1], L + 1)
      BY <1>5, <1>6, BasicsUpToStep, Zenon
    <3>2. (L + 1) - 1 = L
      OBVIOUS
    <3> QED
      BY <1>1, <3>1, <3>2
  <2>2. Len(Append(S, L + 1)) = Len(S) + 1 /\ Append(S, L + 1)[Len(S) + 1] = L + 1
        /\ \A j \in 1..Len(S) : Append(S, L + 1)[j] = S[j]
    <3> HIDE DEF S
    <3> QED
      BY <1>2, AppendProperties
  <2>3. WT(bd2) = [j \in 1..Len(S) + 1 |-> bd2[Append(S, L + 1)[j]].type]
    <3> HIDE DEF S
    <3> QED
      BY <1>5, <2>1, <2>2 DEF WT
  <2> HIDE DEF S, WT
  <2> QED
    BY <1>2, <1>3, <1>4, <2>2, <2>3
<1>7. ASSUME bd2[L + 1].kind # "basic" PROVE WT(bd2) = WT(bd)
  <2>1. BasicsUpTo(bd2)[L + 1] = S
    <3>1. BasicsUpTo(bd2)[L + 1] = BasicsUpTo(bd2)[(L + 1) - 1]
      BY <1>5, <1>7, BasicsUpToStep, Zenon
    <3>2. (L + 1) - 1 = L
      OBVIOUS
    <3> QED
      BY <1>1, <3>1, <3>2
  <2>2. WT(bd2) = [j \in 1..Len(S) |-> bd2[S[j]].type]
    <3> HIDE DEF S
    <3> QED
      BY <1>5, <2>1 DEF WT
  <2> HIDE DEF S, WT
  <2> QED
    BY <1>3, <1>4, <2>2
<1> QED
  BY <1>6, <1>7

(* WrittenTypes is WT of the body, before and after a step.             *)
LEMMA WrittenTypesWT == WrittenTypes = WT(body) /\ WrittenTypes' = WT(body')
BY DEF WrittenTypes, BasicPositions, WT

-----------------------------------------------------------------------------
(* The refinement, step by step.                                         *)

(* The empty body has no basic values.                                   *)
LEMMA WTEmpty == WT(<< >>) = << >>
<1>1. << >> \in Seq(Tokens) /\ Len(<< >>) = 0
  OBVIOUS
<1>2. BasicsUpTo(<< >>)[0] = << >>
  <2>1. BasicsUpTo(<< >>) = [i \in 0..Len(<< >>) |-> BStep(<< >>, BasicsUpTo(<< >>), i)]
    BY <1>1, BasicsUpToDef, Zenon
  <2>2. BStep(<< >>, BasicsUpTo(<< >>), 0) = << >>
    BY DEF BStep
  <2> QED
    BY <1>1, <2>1, <2>2
<1> QED
  BY <1>1, <1>2 DEF WT

LEMMA RefineInit == CInit => Contract!AInit
<1> SUFFICES ASSUME CInit PROVE Contract!AInit
  OBVIOUS
<1>1. WrittenTypes = << >>
  BY WTEmpty, WrittenTypesWT DEF CInit
<1>2. ReadTypes = << >> /\ ReadCursor = 0
  BY DEF CInit, ReadTypes, ReadCursor
<1> QED
  BY <1>1, <1>2 DEF CInit, Contract!AInit

(* In the write phase nothing has been read and the contract's cursor is *)
(* at the start.                                                         *)
LEMMA WriteReadSide ==
    ASSUME CInv, phase = "write", UNCHANGED <<phase, rstack, decoded>>
    PROVE  ReadTypes' = ReadTypes /\ ReadCursor' = ReadCursor
<1>1. rstack = << >> /\ decoded = << >>
  BY DEF CInv, PhaseShape
<1>2. ReadTypes = << >> /\ ReadTypes' = << >>
  BY <1>1 DEF ReadTypes
<1> QED
  BY <1>1, <1>2 DEF ReadCursor

(* A write step that appends one token and keeps every earlier token's   *)
(* kind and type.                                                        *)
LEMMA WriteWT ==
    ASSUME CInv, CInv', Len(body') = Len(body) + 1,
           \A i \in 1..Len(body) : body'[i].kind = body[i].kind /\ body'[i].type = body[i].type
    PROVE  /\ body'[Len(body) + 1].kind = "basic" =>
                 WrittenTypes' = Append(WrittenTypes, body'[Len(body) + 1].type)
           /\ body'[Len(body) + 1].kind # "basic" => WrittenTypes' = WrittenTypes
<1>1. body \in Seq(Tokens) /\ body' \in Seq(Tokens)
  BY DEF CInv, CTypeOK
<1> QED
  BY <1>1, WTExtend, WrittenTypesWT

(* push_*: the contract's write of b.                                    *)
LEMMA RefinePush ==
    ASSUME CInv, CInv', NEW b \in Basics, PushBasic(b)
    PROVE  Contract!AWrite(b)
<1>1. body \in Seq(Tokens) /\ Tok("basic", b) \in Tokens /\ body' = Append(body, Tok("basic", b))
  BY DEF CInv, CTypeOK, PushBasic, Tok, Tokens
<1>2. /\ Len(body') = Len(body) + 1
      /\ body'[Len(body) + 1] = Tok("basic", b)
      /\ \A i \in 1..Len(body) : body'[i] = body[i]
  BY <1>1, AppendProperties
<1>3. body'[Len(body) + 1].kind = "basic" /\ body'[Len(body) + 1].type = b
      /\ \A i \in 1..Len(body) : body'[i].kind = body[i].kind /\ body'[i].type = body[i].type
  BY <1>2 DEF Tok
<1>5. WrittenTypes' = Append(WrittenTypes, b)
  BY <1>2, <1>3, WriteWT
<1>4. ReadTypes' = ReadTypes /\ ReadCursor' = ReadCursor
  BY WriteReadSide DEF PushBasic
<1> QED
  BY <1>5, <1>4 DEF PushBasic, Contract!AWrite

(* open_*: nothing the contract sees.                                    *)
LEMMA RefineOpen ==
    ASSUME CInv, CInv', NEW k \in Containers, NEW e \in Basics \cup {"any"}, OpenContainer(k, e)
    PROVE  UNCHANGED Contract!avars
<1>1. body \in Seq(Tokens) /\ Tok("open", k) \in Tokens /\ body' = Append(body, Tok("open", k))
  BY DEF CInv, CTypeOK, OpenContainer, Tok, Tokens
<1>2. /\ Len(body') = Len(body) + 1
      /\ body'[Len(body) + 1] = Tok("open", k)
      /\ \A i \in 1..Len(body) : body'[i] = body[i]
  BY <1>1, AppendProperties
<1>3. body'[Len(body) + 1].kind # "basic"
      /\ \A i \in 1..Len(body) : body'[i].kind = body[i].kind /\ body'[i].type = body[i].type
  BY <1>2 DEF Tok
<1>5. WrittenTypes' = WrittenTypes
  BY <1>2, <1>3, WriteWT
<1>4. ReadTypes' = ReadTypes /\ ReadCursor' = ReadCursor
  BY WriteReadSide DEF OpenContainer
<1> QED
  BY <1>5, <1>4 DEF OpenContainer, Contract!avars

(* close_*: the extent written into the open token is not something the  *)
(* contract sees, and the close token is not a value.                    *)
LEMMA RefineClose ==
    ASSUME CInv, CInv', CloseContainer
    PROVE  UNCHANGED Contract!avars
<1> DEFINE L == Len(body)
           a == Top(wstack).at
           X == Append(body, Tok("close", Top(wstack).k))
<1>1. wstack # <<>> /\ Top(wstack) \in OpenWriters
  BY DEF CloseContainer, CInv, CTypeOK, Top
<1>2. Tok("close", Top(wstack).k) \in Tokens
  BY <1>1 DEF Tok, Tokens, OpenWriters
<1>3. Len(X) = L + 1 /\ X[L + 1] = Tok("close", Top(wstack).k) /\ \A p \in 1..L : X[p] = body[p]
  <2> HIDE DEF a
  <2> QED
    BY <1>2, AppendProperties DEF CInv, CTypeOK
<1>4. body' = [X EXCEPT ![a].m = L + 1]
  BY DEF CloseContainer
<1>5. Len(body') = L + 1 /\ \A p \in 1..L + 1 : body'[p].kind = X[p].kind /\ body'[p].type = X[p].type
  <2> HIDE DEF X, a
  <2> QED
    BY <1>3, <1>4
<1>6. WrittenTypes' = WrittenTypes
  <2>1. \A i \in 1..L : body'[i].kind = body[i].kind /\ body'[i].type = body[i].type
    BY <1>3, <1>5
  <2>2. body'[L + 1].kind # "basic"
    BY <1>3, <1>5 DEF Tok
  <2> QED
    BY <1>5, <2>1, <2>2, WriteWT
<1>7. ReadTypes' = ReadTypes /\ ReadCursor' = ReadCursor
  BY WriteReadSide DEF CloseContainer
<1> QED
  BY <1>6, <1>7 DEF CloseContainer, Contract!avars

(* Message::reader(): the contract's start, or no Reader for a message   *)
(* without arguments.                                                    *)
LEMMA RefineGetReader ==
    ASSUME CInv, GetReader
    PROVE  Contract!AStart \/ Contract!ANoArguments
<1>1. phase = "write" /\ rstack = << >> /\ decoded = << >> /\ body \in Seq(Tokens)
  BY DEF GetReader, CInv, PhaseShape, CTypeOK
<1>2. WrittenTypes' = WrittenTypes /\ ReadTypes' = ReadTypes /\ ReadTypes = << >>
  BY <1>1, WrittenTypesWT DEF GetReader, ReadTypes
<1>3. ReadCursor = 0
  BY <1>1 DEF ReadCursor
<1>4. CASE body = << >>
  <2>1. WrittenTypes = << >>
    BY <1>4, WTEmpty, WrittenTypesWT
  <2>2. ReadCursor' = 0
    <3>1. rstack' = << >> /\ outcome' = "no_arguments"
      BY <1>1, <1>4 DEF GetReader
    <3> QED
      BY <3>1 DEF ReadCursor
  <2> QED
    BY <1>1, <1>2, <1>3, <1>4, <2>1, <2>2 DEF GetReader, Contract!ANoArguments
<1>5. CASE body # << >>
  <2>1. rstack' = <<[pos |-> 1, end |-> Len(body) + 1]>> /\ body' = body
    BY <1>5 DEF GetReader
  <2>2. BasicsUpTo(body)[0] = << >>
    BY <1>1, BasicsUpToDef DEF BStep
  <2>3. ReadCursor' = 0
    BY <1>1, <2>1, <2>2 DEF ReadCursor, Count, Top
  <2> QED
    BY <1>1, <1>2, <1>3, <1>5, <2>3 DEF GetReader, Contract!AStart
<1> QED
  BY <1>4, <1>5

(* A read step leaves the body, so the written values, alone.            *)
LEMMA ReadWritten ==
    ASSUME body' = body
    PROVE  WrittenTypes' = WrittenTypes
BY WrittenTypesWT

(* The contract's cursor while a Reader is in use: the basic values      *)
(* before that Reader's position.                                        *)
LEMMA CursorInUse ==
    ASSUME CInv, rstack # << >>
    PROVE  /\ Top(rstack) \in Cursors
           /\ 1 <= Top(rstack).pos /\ Top(rstack).pos <= Top(rstack).end
           /\ Top(rstack).end <= Len(body) + 1
           /\ ReadCursor = Len(BasicsUpTo(body)[Top(rstack).pos - 1])
<1>1. Top(rstack) \in Cursors /\ Top(rstack) = rstack[Len(rstack)] /\ Len(rstack) \in Nat \ {0}
  BY TopCursor
<1>2. /\ 1 <= Top(rstack).pos /\ Top(rstack).pos <= Top(rstack).end
      /\ Top(rstack).end <= Len(body) + 1
  BY <1>1 DEF CInv, Windows
<1> QED
  BY <1>1, <1>2 DEF ReadCursor, Count, Cursors

(* Reading one more position appends its type to the values read.        *)
LEMMA ReadTypesAppend ==
    ASSUME decoded \in Seq(Nat), NEW x \in Nat, decoded' = Append(decoded, x), body' = body
    PROVE  ReadTypes' = Append(ReadTypes, body[x].type)
<1>1. PICK D \in Nat : D = Len(decoded)
  OBVIOUS
<1>2. Len(decoded') = D + 1 /\ decoded'[D + 1] = x /\ \A j \in 1..D : decoded'[j] = decoded[j]
  BY <1>1, AppendProperties
<1>3. ReadTypes' = [j \in 1..D + 1 |-> body[decoded'[j]].type]
  BY <1>2 DEF ReadTypes
<1>4. ReadTypes = [j \in 1..D |-> body[decoded[j]].type]
  BY <1>1 DEF ReadTypes
<1> HIDE DEF ReadTypes
<1> QED
  BY <1>2, <1>3, <1>4

(* pop_* of a basic value: the contract's read of b, so the value handed *)
(* back is the next one written and has the type popped; or a failure.  *)
LEMMA RefinePopBasic ==
    ASSUME CInv, NEW b \in Basics, PopBasic(b)
    PROVE  Contract!ARead(b) \/ Contract!AFail
<1> DEFINE c == Top(rstack)
           L == Len(body)
<1>1. phase = "read" /\ rstack # << >> /\ body' = body /\ skipped' = skipped
      /\ body \in Seq(Tokens) /\ rstack \in Seq(Cursors) /\ decoded \in Seq(Nat)
  BY DEF PopBasic, CInv, CTypeOK
<1>2. c \in Cursors /\ 1 <= c.pos /\ c.pos <= c.end /\ c.end <= L + 1
      /\ ReadCursor = Len(BasicsUpTo(body)[c.pos - 1])
  BY <1>1, CursorInUse
<1>3. WrittenTypes' = WrittenTypes
  BY <1>1, ReadWritten
<1>4. CASE ArgType(c) = Tok("basic", b)
  <2>1. c.pos < c.end
    <3>1. SUFFICES ASSUME ~(c.pos < c.end) PROVE FALSE
      OBVIOUS
    <3>2. Tok("basic", b) = Tok("basic", "invalid")
      BY <1>4, <3>1 DEF ArgType
    <3>3. b # "invalid"
      BY BasicsAssumption
    <3> QED
      BY <3>2, <3>3 DEF Tok
  <2>2. c.pos \in 1..L /\ body[c.pos] = Tok("basic", b)
    BY <1>2, <1>4, <2>1 DEF ArgType, Cursors
  <2>3. decoded' = Append(decoded, c.pos) /\ rstack' = ReplaceTop(rstack, Next(c))
        /\ UNCHANGED <<phase, outcome>>
    BY <1>1, <1>4 DEF PopBasic
  <2> DEFINE C == Len(BasicsUpTo(body)[c.pos - 1])
  <2>4. /\ Len(BasicsUpTo(body)[c.pos]) = C + 1
        /\ C + 1 \in 1..Len(BasicsUpTo(body)[L])
        /\ BasicsUpTo(body)[L][C + 1] = c.pos
    <3>1. body \in Seq(Tokens) /\ c.pos \in 1..Len(body) /\ body[c.pos].kind = "basic"
      BY <1>1, <2>2 DEF Tok
    <3> QED
      BY <3>1, BasicAt, Zenon
  <2>5. ReadCursor' = C + 1
    <3>1. Next(c) = [pos |-> c.pos + 1, end |-> c.end] /\ Next(c) \in Cursors
      BY <1>2, CursorNext DEF Cursors
    <3>2. rstack' # << >> /\ Top(rstack') = Next(c)
      <4>1. ReplaceTop(rstack, Next(c)) \in Seq(Cursors)
            /\ Len(ReplaceTop(rstack, Next(c))) = Len(rstack)
            /\ ReplaceTop(rstack, Next(c))[Len(rstack)] = Next(c)
        <5> DEFINE nc == Next(c)
        <5>1. Len(rstack) \in 1..Len(rstack)
          BY <1>1, TopCursor
        <5>0. rstack \in Seq(Cursors) /\ rstack # << >> /\ nc \in Cursors
          BY <1>1, <3>1
        <5> HIDE DEF c, nc
        <5>2. /\ ReplaceTop(rstack, nc) \in Seq(Cursors)
              /\ Len(ReplaceTop(rstack, nc)) = Len(rstack)
              /\ \A i \in 1..Len(rstack) :
                    ReplaceTop(rstack, nc)[i] = IF i = Len(rstack) THEN nc ELSE rstack[i]
          BY <5>0, ReplaceTopProps
        <5>3. /\ ReplaceTop(rstack, nc) \in Seq(Cursors)
              /\ Len(ReplaceTop(rstack, nc)) = Len(rstack)
              /\ ReplaceTop(rstack, nc)[Len(rstack)] = nc
          BY <5>1, <5>2
        <5> QED
          BY <5>3 DEF nc
      <4> HIDE DEF c
      <4> QED
        BY <1>1, <2>3, <4>1 DEF Top
    <3>3. c.pos + 1 <= Len(body') + 1
      BY <1>1, <2>2
    <3>4. Top(rstack').pos = c.pos + 1 /\ c.pos + 1 - 1 = c.pos
      BY <2>2, <3>1, <3>2
    <3> HIDE DEF c
    <3>5. ReadCursor' = Len(BasicsUpTo(body')[Top(rstack').pos - 1])
      BY <3>2, <3>3, <3>4 DEF ReadCursor, Count
    <3>6. BasicsUpTo(body')[Top(rstack').pos - 1] = BasicsUpTo(body)[c.pos]
      <4>1. BasicsUpTo(body') = BasicsUpTo(body)
        BY <1>1, Zenon
      <4>2. Top(rstack').pos - 1 = c.pos
        BY <2>2, <3>1, <3>2
      <4> QED
        BY <4>1, <4>2, Zenon
    <3> QED
      BY <2>4, <3>5, <3>6
  <2>8. ReadCursor = C /\ C \in Nat
    <3>1. c.pos - 1 \in 0..Len(body)
      BY <2>2
    <3>2. BasicsUpTo(body)[c.pos - 1] \in Seq(Nat)
      BY <1>1, <3>1, BasicsUpToType
    <3> QED
      BY <1>2, <3>2
  <2>6. ReadCursor < Len(WrittenTypes) /\ WrittenTypes[ReadCursor + 1] = b
    <3>1. WrittenTypes = [j \in 1..Len(BasicsUpTo(body)[L]) |-> body[BasicsUpTo(body)[L][j]].type]
      BY WrittenTypesWT DEF WT
    <3>2. body[c.pos].type = b
      BY <2>2 DEF Tok
    <3> HIDE DEF c, C
    <3>3. C < Len(WrittenTypes) /\ WrittenTypes[C + 1] = body[c.pos].type
      BY <2>4, <2>8, <3>1
    <3> QED
      BY <2>8, <3>2, <3>3
  <2>7. ReadTypes' = Append(ReadTypes, b)
    <3>1. c.pos \in Nat
      BY <2>2
    <3> HIDE DEF c
    <3> QED
      BY <1>1, <2>2, <2>3, <3>1, ReadTypesAppend DEF Tok
  <2> QED
    <3>1. ReadCursor' = ReadCursor + 1
      BY <2>5, <2>8
    <3> HIDE DEF c, C
    <3>2. Contract!ARead(b)
      BY <1>1, <1>3, <2>3, <2>6, <2>7, <3>1 DEF Contract!ARead
    <3> QED
      BY <3>2
<1>5. CASE ArgType(c) # Tok("basic", b)
  <2>1. phase' = "done" /\ outcome' = "type_mismatch" /\ UNCHANGED <<rstack, decoded>>
    BY <1>1, <1>5 DEF PopBasic
  <2>2. ReadCursor' = ReadCursor /\ ReadTypes' = ReadTypes
    BY <1>1, <2>1 DEF ReadCursor, Count, ReadTypes, BasicPositions
  <2> QED
    BY <1>1, <1>3, <2>1, <2>2 DEF Contract!AFail
<1> QED
  BY <1>4, <1>5

(* With the body left alone and a Reader in use at q + 1 after the step, *)
(* the contract's cursor is the number of basic values up to q.          *)
LEMMA CursorAt ==
    ASSUME body \in Seq(Tokens), body' = body, rstack' # << >>,
           NEW q \in 0..Len(body), Top(rstack').pos = q + 1
    PROVE  ReadCursor' = Len(BasicsUpTo(body)[q])
<1>1. Len(body') = Len(body) /\ BasicsUpTo(body') = BasicsUpTo(body)
  BY Zenon
<1>2. Top(rstack').pos <= Len(body') + 1 /\ Top(rstack').pos - 1 = q
  BY <1>1
<1>3. ReadCursor' = Len(BasicsUpTo(body')[Top(rstack').pos - 1])
  BY <1>2 DEF ReadCursor, Count
<1> QED
  BY <1>1, <1>2, <1>3, Zenon

(* With the body left alone, returning from decoding puts the contract's *)
(* cursor after every basic value.                                       *)
LEMMA CursorDone ==
    ASSUME body' = body, rstack' = << >>, phase' = "done", outcome' = "ok"
    PROVE  ReadCursor' = Len(BasicsUpTo(body)[Len(body)])
<1>1. Len(body') = Len(body) /\ BasicsUpTo(body') = BasicsUpTo(body)
  BY Zenon
<1>2. ReadCursor' = Len(BasicsUpTo(body')[Len(body')])
  BY DEF ReadCursor, BasicPositions
<1> QED
  BY <1>1, <1>2, Zenon

(* pop_array, pop_structure, pop_variant: the new Reader starts after    *)
(* the open token, which is not a value, so the contract sees nothing;   *)
(* or the pop fails.                                                     *)
LEMMA RefinePopContainer ==
    ASSUME CInv, NEW k \in Containers, PopContainer(k)
    PROVE  UNCHANGED Contract!avars \/ Contract!AFail
<1> DEFINE c == Top(rstack)
           L == Len(body)
<1>1. phase = "read" /\ rstack # << >> /\ body' = body /\ decoded' = decoded /\ skipped' = skipped
      /\ body \in Seq(Tokens) /\ rstack \in Seq(Cursors)
  BY DEF PopContainer, CInv, CTypeOK
<1>2. c \in Cursors /\ 1 <= c.pos /\ c.pos <= c.end /\ c.end <= L + 1
      /\ ReadCursor = Len(BasicsUpTo(body)[c.pos - 1])
  BY <1>1, CursorInUse
<1>3. WrittenTypes' = WrittenTypes /\ ReadTypes' = ReadTypes
  BY <1>1, ReadWritten DEF ReadTypes
<1>4. CASE ArgType(c).kind = "open"
  <2>1. c.pos < c.end
    <3>1. SUFFICES ASSUME ~(c.pos < c.end) PROVE FALSE
      OBVIOUS
    <3> QED
      BY <1>4, <3>1 DEF ArgType, Tok
  <2>2. c.pos \in 1..L /\ body[c.pos].kind = "open" /\ body[c.pos].m \in Nat
    BY <1>1, <1>2, <1>4, <2>1, BodyFacts DEF ArgType, Cursors, CInv
  <2>3. rstack' = Append(ReplaceTop(rstack, Skipped(c)), Recursed(c))
        /\ UNCHANGED <<phase, outcome>>
    BY <1>1, <1>4 DEF PopContainer
  <2>4. rstack' # << >> /\ Top(rstack').pos = c.pos + 1
    <3>1. Skipped(c) \in Cursors /\ Recursed(c) \in Cursors
      BY <1>2, <2>2, CursorSkipped DEF Cursors, Recursed, Match
    <3>2. ReplaceTop(rstack, Skipped(c)) \in Seq(Cursors)
      <4> HIDE DEF c
      <4> QED
        BY <1>1, <3>1, ReplaceTopProps
    <3>3. Len(rstack') = Len(ReplaceTop(rstack, Skipped(c))) + 1 /\ rstack' # << >>
          /\ rstack'[Len(ReplaceTop(rstack, Skipped(c))) + 1] = Recursed(c)
      <4> HIDE DEF c
      <4> QED
        BY <2>3, <3>1, <3>2, AppendProperties
    <3> HIDE DEF c
    <3> QED
      BY <3>3 DEF Top, Recursed
  <2>5. BasicsUpTo(body)[c.pos] = BasicsUpTo(body)[c.pos - 1]
    BY <1>1, <2>2, BasicsUpToStep
  <2>6. ReadCursor' = ReadCursor
    <3>1. c.pos \in 0..Len(body)
      BY <2>2
    <3> HIDE DEF c
    <3>2. ReadCursor' = Len(BasicsUpTo(body)[c.pos])
      BY <1>1, <2>4, <3>1, CursorAt
    <3> QED
      BY <1>2, <2>5, <3>2
  <2> QED
    BY <1>1, <1>3, <2>3, <2>6 DEF Contract!avars
<1>5. CASE ArgType(c).kind # "open"
  <2>1. phase' = "done" /\ outcome' = "undefined" /\ UNCHANGED rstack
    BY <1>1, <1>5 DEF PopContainer
  <2>2. ReadCursor' = ReadCursor
    BY <1>1, <2>1 DEF ReadCursor, Count, BasicPositions
  <2> QED
    BY <1>1, <1>3, <2>1, <2>2 DEF Contract!AFail
<1> QED
  BY <1>4, <1>5

(* Dropping the message's Reader returns from decoding, passing over     *)
(* what it had not read; dropping a nested Reader hands back to the one  *)
(* below it, which stands past the container's close token, so the       *)
(* contract's cursor moves over exactly what the dropped Reader left.    *)
LEMMA RefineDropReader ==
    ASSUME CInv, DropReader
    PROVE  Contract!AFinish \/ Contract!APass
<1> DEFINE c == Top(rstack)
           L == Len(body)
           nr == Len(rstack)
           sk == c.pos < c.end
<1>1. phase = "read" /\ rstack # << >> /\ body' = body /\ decoded' = decoded
      /\ skipped' = (skipped \/ sk) /\ rstack' = Pop(rstack)
      /\ body \in Seq(Tokens) /\ rstack \in Seq(Cursors) /\ skipped \in BOOLEAN
  BY DEF DropReader, CInv, CTypeOK
<1>2. c \in Cursors /\ 1 <= c.pos /\ c.pos <= c.end /\ c.end <= L + 1
      /\ ReadCursor = Len(BasicsUpTo(body)[c.pos - 1])
      /\ nr \in Nat \ {0} /\ c = rstack[nr]
  BY <1>1, CursorInUse, TopCursor
<1>3. WrittenTypes' = WrittenTypes /\ ReadTypes' = ReadTypes
  BY <1>1, ReadWritten DEF ReadTypes
<1>4. Len(WrittenTypes) = Len(BasicsUpTo(body)[L])
  BY WrittenTypesWT DEF WT
<1>5. Pop(rstack) \in Seq(Cursors) /\ Len(Pop(rstack)) = nr - 1
      /\ \A i \in 1..nr - 1 : Pop(rstack)[i] = rstack[i]
  <2> HIDE DEF nr
  <2> QED
    BY <1>1, PopProps DEF nr
<1>6. c.pos \in 1..L + 1 /\ c.end \in c.pos..L + 1 /\ L \in Nat
  BY <1>1, <1>2 DEF Cursors
<1>10. body \in Seq(Tokens)
  BY <1>1
<1>11. PICK pp \in Nat, ee \in Nat : pp = c.pos /\ ee = c.end /\ pp \in 1..L + 1 /\ ee \in pp..L + 1
  BY <1>6
<1>7. ReadCursor \in 0..Len(WrittenTypes)
  <2>1. c.pos - 1 \in 0..L /\ L \in (c.pos - 1)..L
    BY <1>6
  <2>2. Len(BasicsUpTo(body)[c.pos - 1]) <= Len(BasicsUpTo(body)[L])
    <3>1. pp - 1 \in 0..Len(body) /\ Len(body) \in (pp - 1)..Len(body)
      BY <1>11
    <3>2. Len(BasicsUpTo(body)[pp - 1]) <= Len(BasicsUpTo(body)[Len(body)])
      BY <1>10, <3>1, CountMono, Zenon
    <3> QED
      BY <1>11, <3>2
  <2>3. BasicsUpTo(body)[c.pos - 1] \in Seq(Nat)
    BY <1>10, <2>1, BasicsUpToType, Zenon
  <2> QED
    BY <1>2, <1>4, <2>2, <2>3
<1>8. CASE nr = 1
  <2>1. phase' = "done" /\ outcome' = "ok" /\ rstack' = << >>
    <3>1. Len(Pop(rstack)) = 0 /\ Pop(rstack) \in Seq(Cursors)
      BY <1>2, <1>5, <1>8
    <3>2. Pop(rstack) = << >>
      BY <3>1
    <3> QED
      BY <1>1, <1>8, <3>2 DEF DropReader
  <2>2. ReadCursor' = Len(WrittenTypes)
    BY <1>1, <1>4, <2>1, CursorDone
  <2>3. ~sk => ReadCursor = Len(WrittenTypes)
    <3>1. SUFFICES ASSUME ~sk PROVE ReadCursor = Len(WrittenTypes)
      OBVIOUS
    <3>2. c.end = L + 1
      <4>1. rstack[1].end = L + 1
        BY <1>1 DEF CInv, Nested
      <4> QED
        BY <1>2, <1>8, <4>1
    <3>3. c.pos - 1 = L
      BY <1>6, <3>1, <3>2
    <3> QED
      BY <1>2, <1>4, <3>3
  <2>4. \E sv \in BOOLEAN : (ReadCursor < Len(WrittenTypes) => sv) /\ skipped' = (skipped \/ sv)
    <3>1. (ReadCursor < Len(WrittenTypes) => sk) /\ sk \in BOOLEAN
      BY <1>7, <2>3
    <3> HIDE DEF c, sk
    <3> QED
      BY <1>1, <3>1
  <2> QED
    <3> HIDE DEF c, sk
    <3>1. Contract!AFinish
      BY <1>1, <1>3, <2>1, <2>2, <2>4 DEF Contract!AFinish
    <3> QED
      BY <3>1
<1>9. CASE nr # 1
  <2> DEFINE d == rstack[nr - 1]
  <2>1. nr - 1 \in 1..Len(rstack) - 1 /\ nr - 1 \in 1..Len(rstack)
    <3>1. nr \in Nat \ {0, 1} /\ nr = Len(rstack)
      BY <1>2, <1>9
    <3> HIDE DEF c, nr
    <3> QED
      BY <3>1
  <2>2. d.pos = c.end + 1 /\ body[c.end].kind = "close"
    <3>1. rstack[nr - 1].pos = rstack[nr - 1 + 1].end + 1 /\ body[rstack[nr - 1 + 1].end].kind = "close"
      BY <1>1, <2>1 DEF CInv, Nested
    <3>2. nr - 1 + 1 = nr
      BY <1>2
    <3> QED
      BY <1>2, <3>1, <3>2
  <2>3. d.pos <= d.end /\ d.end <= L + 1
    BY <1>1, <2>1 DEF CInv, Windows
  <2>4. c.end \in 1..L
    <3>1. d \in Cursors
      BY <1>1, <2>1
    <3> HIDE DEF c, d
    <3> QED
      BY <1>6, <2>2, <2>3, <3>1 DEF Cursors
  <2>5. rstack' # << >> /\ Top(rstack') = d /\ UNCHANGED <<phase, outcome>>
    <3>1. rstack' = Pop(rstack) /\ Len(rstack') = nr - 1 /\ rstack'[nr - 1] = d
      BY <1>1, <1>5, <2>1
    <3>2. UNCHANGED <<phase, outcome>>
      BY <1>9 DEF DropReader
    <3>3. rstack' # << >>
      BY <2>1, <3>1
    <3> QED
      BY <3>1, <3>2, <3>3 DEF Top
  <2>6. ReadCursor' = Len(BasicsUpTo(body)[c.end])
    <3>1. c.end \in 0..Len(body) /\ Top(rstack').pos = c.end + 1
      BY <2>2, <2>4, <2>5
    <3> HIDE DEF c, d
    <3> QED
      BY <1>1, <2>5, <3>1, CursorAt
  <2>7. BasicsUpTo(body)[c.end] = BasicsUpTo(body)[c.end - 1]
    <3>1. ee \in 1..Len(body) /\ body[ee].kind = "close"
      BY <1>11, <2>2, <2>4
    <3>2. BasicsUpTo(body)[ee] = BasicsUpTo(body)[ee - 1]
      BY <1>10, <3>1, BasicsUpToStep
    <3> QED
      BY <1>11, <3>2
  <2>8. Len(BasicsUpTo(body)[c.pos - 1]) <= Len(BasicsUpTo(body)[c.end - 1])
    <3>1. pp - 1 \in 0..Len(body) /\ ee - 1 \in (pp - 1)..Len(body)
      BY <1>11, <2>4
    <3>2. Len(BasicsUpTo(body)[pp - 1]) <= Len(BasicsUpTo(body)[ee - 1])
      BY <1>10, <3>1, CountMono, Zenon
    <3> QED
      BY <1>11, <3>2
  <2>9. Len(BasicsUpTo(body)[c.end]) <= Len(BasicsUpTo(body)[L])
    <3>1. ee \in 0..Len(body) /\ Len(body) \in ee..Len(body)
      BY <1>11, <2>4
    <3>2. Len(BasicsUpTo(body)[ee]) <= Len(BasicsUpTo(body)[Len(body)])
      BY <1>10, <3>1, CountMono, Zenon
    <3> QED
      BY <1>11, <3>2
  <2>10. BasicsUpTo(body)[c.end] \in Seq(Nat) /\ BasicsUpTo(body)[c.pos - 1] \in Seq(Nat)
    <3>1. ee \in 0..Len(body) /\ pp - 1 \in 0..Len(body)
      BY <1>11, <2>4
    <3>2. BasicsUpTo(body)[ee] \in Seq(Nat) /\ BasicsUpTo(body)[pp - 1] \in Seq(Nat)
      BY <1>10, <3>1, BasicsUpToType, Zenon
    <3> QED
      BY <1>11, <3>2
  <2>11. ~sk => c.end - 1 = c.pos - 1
    BY <1>6
  <2>12. ReadCursor' \in ReadCursor..Len(WrittenTypes) /\ (ReadCursor' > ReadCursor => sk)
    <3> HIDE DEF c, d, sk
    <3> QED
      BY <1>2, <1>4, <2>6, <2>7, <2>8, <2>9, <2>10, <2>11
  <2>13. \E k \in ReadCursor..Len(WrittenTypes), sv \in BOOLEAN :
            /\ k > ReadCursor => sv
            /\ ReadCursor' = k
            /\ skipped' = (skipped \/ sv)
    <3>1. sk \in BOOLEAN
      OBVIOUS
    <3> HIDE DEF c, d, sk
    <3> QED
      BY <1>1, <2>12, <3>1
  <2> QED
    <3> HIDE DEF c, d, sk
    <3>1. Contract!APass
      BY <1>1, <1>3, <2>5, <2>13 DEF Contract!APass
    <3> QED
      BY <3>1
<1> QED
  BY <1>8, <1>9

(* Every step of the Writer and Reader is a step of the contract or     *)
(* leaves everything the contract sees unchanged.                        *)
LEMMA RefineStep == CInv /\ [CNext]_cvars => [Contract!ANext]_Contract!avars
<1> SUFFICES ASSUME CInv, [CNext]_cvars PROVE [Contract!ANext]_Contract!avars
  OBVIOUS
<1>0. CInv'
  BY CInvStep
<1>1. CASE \E b \in Basics : PushBasic(b)
  BY <1>0, <1>1, RefinePush DEF Contract!ANext
<1>2. CASE \E b \in Basics : PopBasic(b)
  BY <1>2, RefinePopBasic DEF Contract!ANext
<1>3. CASE \E k \in Containers, e \in Basics \cup {"any"} : OpenContainer(k, e)
  BY <1>0, <1>3, RefineOpen
<1>4. CASE CloseContainer
  BY <1>0, <1>4, RefineClose
<1>5. CASE GetReader
  BY <1>5, RefineGetReader DEF Contract!ANext
<1>6. CASE \E k \in Containers : PopContainer(k)
  BY <1>6, RefinePopContainer DEF Contract!ANext
<1>7. CASE DropReader
  BY <1>7, RefineDropReader DEF Contract!ANext
<1>8. CASE UNCHANGED cvars
  BY <1>8, WrittenTypesWT DEF cvars, Contract!avars, ReadTypes, ReadCursor, Count, BasicPositions
<1> QED
  BY <1>1, <1>2, <1>3, <1>4, <1>5, <1>6, <1>7, <1>8 DEF CNext

(* The Writer and Reader implement the codec's contract                  *)
(* (CodecMeetsContract), for every set of basic types and every bound on *)
(* length and nesting: a pop_* that returns hands back the next value    *)
(* written (RefinePopBasic: pop_b maps to the contract's read of b, so   *)
(* that value has type b); pop_array, pop_structure and                  *)
(* pop_variant and the Readers' windows pass over no value unless a       *)
(* Reader is dropped before its end, which skipped records; and a        *)
(* decode returns, fails, or has no Reader only as the contract allows.  *)
THEOREM ContractRefinement == CSpec => CodecMeetsContract
<1>1. CSpec => []CInv
  BY CInvInit, CInvStep, PTL DEF CSpec
<1> QED
  BY <1>1, RefineInit, RefineStep, PTL DEF CSpec, CodecMeetsContract, Contract!ASpec

=====
