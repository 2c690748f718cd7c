------------------------- MODULE CredentialParserProofs -------------------------
(***************************************************************************)
(* Proofs about parse_bbs_credential, for every base, signature length,    *)
(* word size and set of credentials that the assumptions allow.            *)
(***************************************************************************)
EXTENDS CredentialParser, SequenceTheorems, TLAPS

\* usize is wider than the length prefix, as on the 64-bit targets.
Wide == UsizeMod >= 2 * U32Mod

\* A sum of two machine integers wraps at most once.
LEMMA WrapsOnce ==
    ASSUME NEW a \in Nat, NEW b \in Nat, NEW m \in Nat, m > 0, a + b < 2 * m
    PROVE  /\ a + b < m => (a + b) % m = a + b
           /\ a + b >= m => (a + b) % m = a + b - m
  OBVIOUS

\* Digits below Base make a number below Base * (the number of prefixes).
LEMMA AppendDigit ==
    ASSUME NEW x \in Nat, NEW n \in Nat, x < n, NEW d \in 0 .. Base - 1
    PROVE  x * Base + d \in Nat /\ x * Base + d < n * Base
  <1>1. Base \in Nat /\ Base >= 2 BY BaseAssumption
  <1>2. (x + 1) * Base <= n * Base BY <1>1
  <1> QED BY <1>1, <1>2

\* The length prefix is a u32.
LEMMA U32Bounded ==
    ASSUME NEW c \in Seq(0 .. Base - 1), NEW at \in Nat, at + 4 <= Len(c)
    PROVE  U32At(c, at) \in Nat /\ U32At(c, at) < U32Mod
  <1> DEFINE n1 == c[at + 1]
             n2 == n1 * Base + c[at + 2]
             n3 == n2 * Base + c[at + 3]
             n4 == n3 * Base + c[at + 4]
  <1>1. Base \in Nat /\ Base >= 2 BY BaseAssumption
  <1>2. \A i \in 1 .. Len(c) : c[i] \in 0 .. Base - 1
    BY ElementOfSeq
  <1>3. \A i \in 1 .. 4 : at + i \in 1 .. Len(c)
    OBVIOUS
  <1>4. n1 \in Nat /\ n1 < Base BY <1>1, <1>2, <1>3
  <1>5. n2 \in Nat /\ n2 < Base * Base
    <2>1. c[at + 2] \in 0 .. Base - 1 BY <1>2, <1>3
    <2> HIDE DEF n1
    <2> QED BY <1>1, <1>4, <2>1, AppendDigit
  <1>6. n3 \in Nat /\ n3 < Base * Base * Base
    <2>1. c[at + 3] \in 0 .. Base - 1 BY <1>2, <1>3
    <2>2. Base * Base \in Nat BY <1>1
    <2> HIDE DEF n2
    <2> QED BY <1>5, <2>1, <2>2, AppendDigit
  <1>7. n4 \in Nat /\ n4 < Base * Base * Base * Base
    <2>1. c[at + 4] \in 0 .. Base - 1 BY <1>2, <1>3
    <2>2. Base * Base * Base \in Nat BY <1>1
    <2> HIDE DEF n3
    <2> QED BY <1>6, <2>1, <2>2, AppendDigit
  <1> QED BY <1>7 DEF U32At, U32Mod

LEMMA U32ModBounds == U32Mod \in Nat /\ U32Mod >= 16 /\ UsizeMod \in Nat /\ UsizeMod >= 16
  <1>1. Base \in Nat /\ Base >= 2 BY BaseAssumption
  <1>2. Base * Base \in Nat /\ Base * Base >= 4 BY <1>1
  <1>3. Base * Base * Base \in Nat /\ Base * Base * Base >= 8 BY <1>1, <1>2
  <1>4. U32Mod \in Nat /\ U32Mod >= 16 BY <1>1, <1>3 DEF U32Mod
  <1> QED BY <1>4, UsizeAssumption

-----------------------------------------------------------------------------
(* The inductive invariant: nothing is pushed before the loop starts. *)

NothingYet == status = "start" => messages = <<>>

IInv == TypeOK /\ Tiling /\ NothingYet

\* What is known of a credential.
LEMMA CredFacts ==
    ASSUME TypeOK
    PROVE  /\ cred \in Seq(0 .. Base - 1)
           /\ Len(cred) \in Nat
           /\ Len(cred) + 5 <= UsizeMod
           /\ offset \in Nat
  <1>1. cred \in Seq(0 .. Base - 1) /\ Len(cred) <= UsizeMod \div 2 - 1
    BY CredentialsAssumption DEF TypeOK, IsizeMax
  <1>2. Len(cred) \in Nat BY <1>1, LenProperties
  <1>3. Len(cred) + 5 <= UsizeMod BY <1>1, <1>2, U32ModBounds
  <1> QED BY <1>1, <1>2, <1>3 DEF TypeOK

\* The arithmetic of one turn of the loop: skipping the prefix never wraps;
\* adding the length may, and then the end lies before the start.
LEMMA LoopArithmetic ==
    ASSUME TypeOK, InLoop
    PROVE  /\ DataStart = offset + 4
           /\ HasLength <=> offset + 4 <= Len(cred)
           /\ HasLength =>
                /\ U32At(cred, offset) \in Nat
                /\ DataEnd \in Nat /\ DataEnd < UsizeMod
                /\ \/ DataEnd = DataStart + U32At(cred, offset)
                   \/ DataEnd < DataStart /\ DataStart + U32At(cred, offset) >= UsizeMod
                /\ Wide => DataEnd = DataStart + U32At(cred, offset)
  <1>1. /\ cred \in Seq(0 .. Base - 1)
        /\ Len(cred) \in Nat /\ offset \in Nat
        /\ offset < Len(cred) /\ Len(cred) + 5 <= UsizeMod
    BY CredFacts DEF InLoop
  <1>2. UsizeMod \in Nat /\ UsizeMod >= U32Mod /\ UsizeMod >= 16 /\ U32Mod \in Nat
    BY U32ModBounds, UsizeAssumption
  <1>3. (offset + 4) % UsizeMod = offset + 4
    <2>1. offset + 4 \in Nat /\ offset + 4 < UsizeMod BY <1>1, <1>2
    <2> QED BY <1>1, <1>2, <2>1, WrapsOnce
  <1>4. DataStart = offset + 4 BY <1>3 DEF DataStart, Plus
  <1>5. HasLength <=> offset + 4 <= Len(cred) BY <1>3 DEF HasLength, Plus
  <1>6. ASSUME HasLength
        PROVE  /\ U32At(cred, offset) \in Nat
               /\ DataEnd \in Nat /\ DataEnd < UsizeMod
               /\ \/ DataEnd = DataStart + U32At(cred, offset)
                  \/ DataEnd < DataStart /\ DataStart + U32At(cred, offset) >= UsizeMod
               /\ Wide => DataEnd = DataStart + U32At(cred, offset)
    <2> DEFINE u == U32At(cred, offset)
    <2>1. u \in Nat /\ u < U32Mod BY <1>1, <1>5, <1>6, U32Bounded
    <2>2. DataEnd = (DataStart + u) % UsizeMod BY DEF DataEnd, Plus
    <2> HIDE DEF u
    <2>3. DataStart \in Nat /\ DataStart < UsizeMod BY <1>1, <1>4, <1>2
    <2>4. DataStart + u < 2 * UsizeMod BY <1>2, <2>1, <2>3
    <2>5. /\ DataStart + u < UsizeMod => DataEnd = DataStart + u
          /\ DataStart + u >= UsizeMod => DataEnd = DataStart + u - UsizeMod
      BY <1>2, <2>1, <2>2, <2>3, <2>4, WrapsOnce
    <2>6. Wide => DataStart + u < UsizeMod
      <3>1. DataStart < UsizeMod - U32Mod \/ ~Wide
        <4> SUFFICES ASSUME UsizeMod >= 2 * U32Mod
                     PROVE  DataStart < UsizeMod - U32Mod
          BY DEF Wide
        <4>1. Len(cred) <= UsizeMod \div 2 - 1
          BY CredentialsAssumption DEF TypeOK, IsizeMax
        <4>2. DataStart <= Len(cred) BY <1>4, <1>5, <1>6
        <4>3. DataStart < UsizeMod \div 2 BY <1>1, <1>2, <2>3, <4>1, <4>2
        <4>4. UsizeMod \div 2 <= UsizeMod - U32Mod BY <1>2
        <4> QED BY <1>2, <2>3, <4>3, <4>4
      <3> QED BY <1>2, <2>1, <2>3, <3>1
    <2>7. u \in Nat /\ DataEnd \in Nat /\ DataEnd < UsizeMod
          /\ \/ DataEnd = DataStart + u
             \/ DataEnd < DataStart /\ DataStart + u >= UsizeMod
          /\ (Wide => DataEnd = DataStart + u)
      BY <1>1, <1>2, <2>1, <2>3, <2>5, <2>6
    <2> QED BY <2>7 DEF u
  <1> QED BY <1>4, <1>5, <1>6

-----------------------------------------------------------------------------
(* The initial states and each action. *)

LEMMA InitIInv == Init => IInv
  <1> SUFFICES ASSUME Init PROVE IInv OBVIOUS
  <1>1. cred \in Seq(0 .. Base - 1) /\ Len(cred) \in Nat
    BY CredentialsAssumption, LenProperties DEF Init
  <1>2. TypeOK
    <2>1. offset \in 0 .. Len(cred) BY <1>1 DEF Init
    <2>2. messages \in Seq(Slices) BY EmptySeq DEF Init
    <2> QED BY <2>1, <2>2 DEF Init, TypeOK
  <1>3. Tiling BY DEF Init, Tiling, Tiles, Consumed
  <1> QED BY <1>2, <1>3 DEF Init, IInv, NothingYet

\* A step that pushes nothing and does not move the offset, or ends in an error.
LEMMA QuietStep ==
    ASSUME IInv, UNCHANGED <<cred, messages>>,
           offset' \in 0 .. Len(cred), status # "start" \/ messages = <<>>,
           status' \in {"Err", "Panic"} \/ UNCHANGED status
             \/ (status' = "loop" /\ messages = <<>> /\ offset' = SigLen)
             \/ (status' = "Ok" /\ status = "loop" /\ offset = Len(cred)),
           UNCHANGED status => UNCHANGED offset,
           status' = "Ok" => UNCHANGED offset
    PROVE  IInv'
  <1>1. TypeOK' BY DEF IInv, TypeOK
  <1>2. Tiles' BY DEF IInv, Tiling, Tiles, PrefixStart
  <1>3. Consumed'
    <2>1. Len(<<>>) = 0 OBVIOUS
    <2> QED BY <2>1 DEF IInv, Tiling, Consumed, PrefixStart
  <1>4. NothingYet' BY DEF IInv, NothingYet
  <1> QED BY <1>1, <1>2, <1>3, <1>4 DEF IInv, Tiling

LEMMA TakeMessageIInv ==
    ASSUME IInv, TakeMessage
    PROVE  IInv'
  <1> DEFINE slice == [from |-> DataStart, to |-> DataEnd]
             n == Len(messages)
  <1>1. TypeOK BY DEF IInv
  <1>2. /\ InLoop /\ HasLength
        /\ messages' = Append(messages, slice)
        /\ offset' = DataEnd
        /\ cred' = cred /\ status' = status /\ status = "loop"
        /\ DataStart <= DataEnd /\ DataEnd <= Len(cred)
    BY DEF TakeMessage, InLoop
  <1>3. /\ DataStart = offset + 4 /\ offset \in Nat
        /\ U32At(cred, offset) \in Nat
        /\ DataStart \in Nat /\ DataEnd \in Nat /\ Len(cred) \in Nat
        /\ DataEnd = DataStart + U32At(cred, offset)
    BY <1>1, <1>2, LoopArithmetic, CredFacts
  <1>4. offset = PrefixStart(n + 1) BY <1>2 DEF IInv, Tiling, Consumed
  <1>5. slice \in Slices BY <1>3 DEF Slices
  <1>6. messages \in Seq(Slices) BY <1>1 DEF TypeOK
  <1>7. /\ messages' \in Seq(Slices)
        /\ Len(messages') = n + 1
        /\ \A i \in 1 .. n : messages'[i] = messages[i]
        /\ messages'[n + 1] = slice
        /\ DOMAIN messages = 1 .. n /\ DOMAIN messages' = 1 .. n + 1
        /\ n \in Nat
    BY <1>2, <1>5, <1>6, AppendProperties, LenProperties
  <1>8. TypeOK'
    <2>1. offset' \in 0 .. Len(cred') BY <1>2, <1>3
    <2> QED BY <1>1, <1>2, <1>7, <2>1 DEF TypeOK
  <1>9. \A i \in 1 .. n + 1 : PrefixStart(i)' = PrefixStart(i)
    <2> TAKE i \in 1 .. n + 1
    <2>1. CASE i = 1 BY <2>1 DEF PrefixStart
    <2>2. CASE i # 1
      <3>1. i - 1 \in 1 .. n BY <1>7, <2>2
      <3> QED BY <1>7, <2>2, <3>1 DEF PrefixStart
    <2> QED BY <2>1, <2>2
  <1>10. Tiles'
    <2> SUFFICES ASSUME NEW i \in 1 .. n + 1
                 PROVE  /\ messages'[i].from = PrefixStart(i)' + 4
                        /\ messages'[i].to = messages'[i].from + U32At(cred, PrefixStart(i)')
                        /\ messages'[i].to <= Len(cred)
      BY <1>2, <1>7 DEF Tiles, U32At
    <2>1. PrefixStart(i)' = PrefixStart(i) BY <1>9
    <2>2. CASE i \in 1 .. n
      BY <1>7, <2>1, <2>2 DEF IInv, Tiling, Tiles
    <2>3. CASE i = n + 1
      BY <1>2, <1>3, <1>4, <1>7, <2>1, <2>3
    <2> QED BY <1>7, <2>2, <2>3
  <1>11. Consumed'
    <2>1. PrefixStart(Len(messages) + 1)' = DataEnd
      <3>1. Len(messages') + 1 # 1 /\ Len(messages') + 1 - 1 = n + 1 BY <1>7
      <3> QED BY <1>7, <3>1 DEF PrefixStart
    <2> QED BY <1>2, <2>1 DEF Consumed
  <1>12. NothingYet' BY <1>2 DEF NothingYet
  <1> QED BY <1>8, <1>10, <1>11, <1>12 DEF IInv, Tiling

LEMMA NextIInv == IInv /\ [Next]_vars => IInv'
  <1> SUFFICES ASSUME IInv, [Next]_vars PROVE IInv' OBVIOUS
  <1>1. /\ Len(cred) \in Nat /\ SigLen \in Nat /\ offset \in 0 .. Len(cred)
        /\ offset \in Nat /\ cred \in Seq(0 .. Base - 1)
        /\ status = "start" => messages = <<>>
    BY CredFacts, SigLenAssumption DEF IInv, TypeOK, NothingYet
  <1>2. CASE TooShort BY <1>1, <1>2, QuietStep DEF TooShort
  <1>3. CASE BadSignature BY <1>1, <1>3, QuietStep DEF BadSignature
  <1>4. CASE GoodSignature
    <2>1. SigLen \in 0 .. Len(cred) BY <1>1, <1>4 DEF GoodSignature
    <2> QED BY <1>1, <1>4, <2>1, QuietStep DEF GoodSignature
  <1>5. CASE Finish
    <2>1. offset = Len(cred) BY <1>1, <1>5 DEF Finish
    <2> QED BY <1>1, <1>5, <2>1, QuietStep DEF Finish
  <1>6. CASE TruncatedLength
    BY <1>1, <1>6, QuietStep DEF TruncatedLength, InLoop
  <1>7. CASE TruncatedData
    <2>1. DataStart \in 0 .. Len(cred)
      BY <1>1, <1>7, LoopArithmetic DEF IInv, TruncatedData
    <2> QED BY <1>1, <1>7, <2>1, QuietStep DEF TruncatedData, InLoop
  <1>8. CASE BadSlice
    <2>1. DataStart \in 0 .. Len(cred)
      BY <1>1, <1>8, LoopArithmetic DEF IInv, BadSlice
    <2> QED BY <1>1, <1>8, <2>1, QuietStep DEF BadSlice, InLoop
  <1>9. CASE TakeMessage BY <1>9, TakeMessageIInv
  <1>10. CASE UNCHANGED vars BY <1>1, <1>10, QuietStep DEF vars
  <1> QED
    BY <1>2, <1>3, <1>4, <1>5, <1>6, <1>7, <1>8, <1>9, <1>10 DEF Next

-----------------------------------------------------------------------------
\* The offset stays inside the credential (the invariant lines 815-837 keep).
THEOREM TypeCorrect == Spec => []TypeOK
  <1>1. IInv => TypeOK BY DEF IInv
  <1> QED BY <1>1, InitIInv, NextIInv, PTL DEF Spec

\* On every build, 32-bit ones included, what has been pushed tiles the
\* credential, and a successful parse has consumed all of it.
THEOREM TilingCorrect == Spec => []Tiling
  <1>1. IInv => Tiling BY DEF IInv
  <1> QED BY <1>1, InitIInv, NextIInv, PTL DEF Spec

\* When usize is wider than the length prefix, no input makes the slice of
\* line 835 panic.
THEOREM WideNeverPanics == Wide /\ Spec => []NoPanic
  <1> DEFINE Inv == IInv /\ NoPanic
  <1> SUFFICES ASSUME Wide PROVE Spec => []NoPanic OBVIOUS
  <1>1. Init => Inv BY InitIInv DEF Init, NoPanic
  <1>2. Inv /\ [Next]_vars => Inv'
    <2> SUFFICES ASSUME Inv, [Next]_vars PROVE NoPanic'
      BY NextIInv
    <2>1. ~BadSlice
      <3> SUFFICES ASSUME BadSlice PROVE FALSE OBVIOUS
      <3>1. TypeOK /\ InLoop /\ HasLength /\ DataStart > DataEnd
        BY DEF IInv, BadSlice
      <3>2. /\ DataStart = offset + 4 /\ offset \in Nat
            /\ U32At(cred, offset) \in Nat
            /\ DataEnd = DataStart + U32At(cred, offset)
        BY <3>1, LoopArithmetic, CredFacts
      <3> QED BY <3>1, <3>2
    <2> QED
      BY <2>1 DEF Next, NoPanic, vars, TooShort, BadSignature, GoodSignature,
                  Finish, TruncatedLength, TruncatedData, TakeMessage
  <1>3. Inv => NoPanic OBVIOUS
  <1> QED BY <1>1, <1>2, <1>3, PTL DEF Spec

\* On any build a panic has one cause: the start of a message and the length
\* before it add up to more than a usize can hold.  The offset is the start.
PanicIsWrap ==
    status = "Panic" =>
        /\ offset >= SigLen + 4 /\ offset <= Len(cred)
        /\ offset + U32At(cred, offset - 4) >= UsizeMod

THEOREM PanicsOnlyWhenWrapping == Spec => []PanicIsWrap
  <1> DEFINE Started == status = "loop" => offset >= SigLen
             Inv == IInv /\ Started /\ PanicIsWrap
  <1>1. Init => Inv BY InitIInv DEF Init, PanicIsWrap
  <1>2. Inv /\ [Next]_vars => Inv'
    <2> SUFFICES ASSUME Inv, [Next]_vars PROVE Started' /\ PanicIsWrap' BY NextIInv
    <2>1. TypeOK BY DEF IInv
    <2>2. SigLen \in Nat /\ offset \in Nat /\ Len(cred) \in Nat
      BY <2>1, SigLenAssumption, CredFacts
    <2>3. CASE BadSlice
      <3>1. InLoop /\ HasLength /\ DataStart > DataEnd /\ offset' = DataStart
            /\ cred' = cred /\ offset >= SigLen
        BY <2>3 DEF BadSlice, InLoop
      <3>2. /\ DataStart = offset + 4 /\ offset + 4 <= Len(cred)
            /\ U32At(cred, offset) \in Nat /\ DataEnd \in Nat
            /\ DataEnd = DataStart + U32At(cred, offset)
                 \/ DataStart + U32At(cred, offset) >= UsizeMod
        BY <2>1, <3>1, LoopArithmetic
      <3>3. DataStart + U32At(cred, offset) >= UsizeMod BY <2>2, <3>1, <3>2
      <3>4. offset' - 4 = offset /\ offset' >= SigLen + 4 /\ offset' <= Len(cred)
        BY <2>2, <3>1, <3>2
      <3>5. offset' + U32At(cred', offset' - 4) >= UsizeMod
        <4>1. U32At(cred', offset' - 4) = U32At(cred, offset) BY <3>1, <3>4
        <4> QED BY <3>1, <3>3, <4>1
      <3> QED BY <2>3, <3>1, <3>4, <3>5 DEF BadSlice, PanicIsWrap, U32At
    <2>4. CASE TakeMessage
      <3>1. InLoop /\ HasLength /\ DataStart <= DataEnd /\ offset' = DataEnd
            /\ status' = "loop" /\ offset >= SigLen
        BY <2>4 DEF TakeMessage, InLoop
      <3>2. DataStart = offset + 4 /\ DataEnd \in Nat BY <2>1, <3>1, LoopArithmetic
      <3> QED BY <2>2, <3>1, <3>2 DEF PanicIsWrap
    <2>5. CASE GoodSignature BY <2>2, <2>5 DEF GoodSignature, PanicIsWrap
    <2> QED
      BY <2>3, <2>4, <2>5 DEF Next, vars, PanicIsWrap, TooShort, BadSignature,
                             Finish, TruncatedLength, TruncatedData, U32At
  <1> QED BY <1>1, <1>2, PTL DEF Spec

\* And that does make it panic: a length that wraps has no other answer.
WrapPanics ==
    [][InLoop /\ HasLength /\ DataStart + U32At(cred, offset) >= UsizeMod
         => status' = "Panic"]_vars

THEOREM WrappingAlwaysPanics == Spec => WrapPanics
  <1>1. IInv /\ [Next]_vars =>
          [InLoop /\ HasLength /\ DataStart + U32At(cred, offset) >= UsizeMod
             => status' = "Panic"]_vars
    <2> SUFFICES ASSUME IInv, Next, InLoop, HasLength,
                        DataStart + U32At(cred, offset) >= UsizeMod
                 PROVE  status' = "Panic"
      OBVIOUS
    <2>1. /\ DataEnd \in Nat /\ DataEnd < UsizeMod /\ UsizeMod \in Nat
          /\ DataEnd = DataStart + U32At(cred, offset) \/ DataEnd < DataStart
          /\ DataStart = offset + 4 /\ offset + 4 <= Len(cred)
          /\ offset \in Nat /\ Len(cred) \in Nat /\ U32At(cred, offset) \in Nat
      BY LoopArithmetic, CredFacts, UsizeAssumption DEF IInv
    <2>2. DataEnd < DataStart /\ ~(DataStart <= DataEnd) /\ ~(DataEnd > Len(cred))
      BY <2>1
    <2>3. BadSlice
      BY <2>2 DEF Next, InLoop, TooShort, BadSignature, GoodSignature, Finish,
                  TruncatedLength, TruncatedData, TakeMessage
    <2> QED BY <2>3 DEF BadSlice
  <1> QED BY <1>1, InitIInv, NextIInv, PTL DEF Spec, WrapPanics

\* The measure behind Terminates, on 32-bit builds too: every turn of the loop
\* ends it or moves the offset past a prefix.
THEOREM EveryTurnConsumes == Spec => TurnsConsume
  <1>1. IInv /\ [Next]_vars => [InLoop => status' # "loop" \/ offset + 4 <= offset']_vars
    <2> SUFFICES ASSUME IInv, Next, InLoop, status' = "loop" PROVE offset + 4 <= offset'
      OBVIOUS
    <2>1. TakeMessage
      BY DEF Next, InLoop, TooShort, BadSignature, GoodSignature, Finish,
             TruncatedLength, TruncatedData, BadSlice
    <2>2. HasLength /\ DataStart <= DataEnd /\ offset' = DataEnd BY <2>1 DEF TakeMessage
    <2>3. DataStart = offset + 4 BY LoopArithmetic DEF IInv
    <2> QED BY <2>2, <2>3
  <1> QED BY <1>1, InitIInv, NextIInv, PTL DEF Spec, TurnsConsume
=============================================================================
