---------------------------- MODULE ParserProofs ----------------------------
(***************************************************************************)
(* What holds of a call of cJSON_ParseWithOpts for every text, every limit *)
(* and every allocation that fails, proved of module Parser.               *)
(*                                                                         *)
(* PositionInv says where the offset may be, PointerInv who holds which    *)
(* block, and ReportInv what has been reported.  The first is inductive by *)
(* itself, the others given the first.                                     *)
(***************************************************************************)
EXTENDS Parser, WellFoundedInduction, TLAPS

Decoding == {"decodeValue", "decodeName"}

(* The item that is being filled is allocated in these phases. *)
Filling == {"value", "name", "swap"} \cup Decoding

(* The three parts of TypeOK.                                               *)
Frame == [kind : {"array", "object"}, item : Nat]

ControlTyped ==
    /\ text \in Seq(Byte)
    /\ requireNul \in BOOLEAN /\ wantEnd \in BOOLEAN
    /\ pc \in {"start", "value", "decodeValue", "element", "name", "decodeName",
               "swap", "ok", "no", "parsed", "failed"}
    /\ offset \in Int /\ depth \in Nat /\ item \in Nat /\ ending \in Nat
    /\ stack \in Seq(Frame)

BlocksTyped ==
    /\ heap \subseteq Nat /\ fresh \in Nat /\ starved \in BOOLEAN
    /\ holds \subseteq [slot : Slot, block : Nat]

ReportTyped ==
    globalError \in Int \cup {None} /\ parseEnd \in Int \cup {None}

(* Where the offset, the end of the string and the depth are.               *)
Place ==
    /\ text \in Texts
    /\ pc \notin {"start", "no", "failed"} => text # <<>>
    /\ pc = "start" => offset = 0 /\ depth = 0 /\ stack = <<>>
    /\ pc = "element" => stack # <<>>
    /\ pc \in {"parsed", "failed"} => stack = <<>>
    /\ pc \in Decoding => ending \in offset + 1 .. length - 2
    /\ ReadsInside
    /\ DepthBounded

PositionInv == TypeOK /\ Place

(* The pointers form a forest: every block has one pointer to it, and one   *)
(* in a field belongs to an item that is allocated and older.               *)
IsField(slot) == slot.at \in {"child", "string", "valuestring"}

Forest ==
    /\ \A b \in heap : b < fresh
    /\ \A b \in heap : \E h \in holds : h.block = b /\ \A g \in holds : g.block = b => g = h
    /\ \A h \in holds :
          /\ h.block \in heap
          /\ IsField(h.slot) => h.slot.of \in heap /\ h.slot.of < h.block
          /\ h.slot.at \in {"root", "output"} => h.slot.of = 0

(* The list in `head' is younger than the item it will go into.             *)
Heads ==
    \A h \in holds : h.slot.at = "head" =>
        h.slot.of \in 1 .. Len(stack) /\ stack[h.slot.of].item < h.block

Outputs ==
    \A h \in holds : h.slot.at = "output" => pc \in Decoding /\ item < h.block

(* What a frame fills, and what parse_value fills, is allocated.            *)
Items ==
    /\ pc \notin {"no", "failed"} => \A d \in 1 .. Len(stack) : stack[d].item \in heap
    /\ pc \in Filling => item \in heap

PointerInv ==
    /\ Forest /\ Heads /\ Outputs /\ Items
    /\ pc = "start" => heap = {} /\ holds = {}
    /\ FailureKeepsNothing

(* Nothing is reported before the call ends.                                *)
ReportInv ==
    /\ pc \notin {"start", "failed"} => globalError = None
    /\ pc \notin {"parsed", "failed"} => parseEnd = None
    /\ ErrorReported

-----------------------------------------------------------------------------
(* Numbers.  A set of them that is not empty has a least one, and when it   *)
(* is bounded a greatest one: the induction every search rests on.          *)
Below == {ss \in Nat \X Nat : ss[1] < ss[2]}

LEMMA NumbersGrow == IsWellFoundedOn(Below, Nat)
  BY NatLessThanWellFounded DEF OpToRel, Below

LEMMA LeastFound ==
    ASSUME NEW S \in SUBSET Nat, S # {}
    PROVE  Least(S) \in S /\ \A j \in S : Least(S) =< j
  <1>1. PICK i \in S : \A j \in S : <<j, i>> \notin Below
    BY NumbersGrow, WFMin
  <1>2. \A j \in S : /\ j \in Nat /\ i \in Nat /\ <<j, i>> \in Nat \X Nat
                     /\ <<j, i>>[1] = j /\ <<j, i>>[2] = i
    OBVIOUS
  <1>3. \A j \in S : ~(j < i)
    BY <1>1, <1>2 DEF Below
  <1>4. \A j \in S : i =< j
    BY <1>2, <1>3
  <1>5. QED BY <1>4 DEF Least

LEMMA GreatestFound ==
    ASSUME NEW n \in Nat, NEW S \in SUBSET (0 .. n), S # {}
    PROVE  \E i \in S : \A j \in S : j =< i
  <1> DEFINE T == {m \in 0 .. n : n - m \in S}
  <1>1. T \in SUBSET Nat /\ T # {}
    <2>1. PICK i \in S : TRUE
      OBVIOUS
    <2>2. PICK m \in 0 .. n : n - m = i
      OBVIOUS
    <2>3. m \in T
      BY <2>2
    <2>4. QED BY <2>3
  <1>2. PICK m \in T : \A k \in T : m =< k
    BY <1>1, LeastFound
  <1>3. \A j \in S : n - j \in T /\ m =< n - j
    <2>1. \A j \in S : n - j \in 0 .. n /\ n - (n - j) = j
      OBVIOUS
    <2>2. QED BY <1>2, <2>1
  <1>4. \A j \in S : j =< n - m
    BY <1>3
  <1>5. QED BY <1>2, <1>4

-----------------------------------------------------------------------------
(* Reading.                                                                 *)

(* A text ends with its only terminator.                                    *)
LEMMA TerminatorLast ==
    ASSUME text \in Texts, text # <<>>
    PROVE  /\ text \in Seq(Byte) /\ length \in Nat \ {0}
           /\ At(length - 1) = "nul"
           /\ \A i \in 0 .. length - 2 : At(i) # "nul"
  <1>1. text \in Seq(Byte) /\ length \in Nat /\ length # 0
    BY TextsAreStrings DEF length
  <1>2. \A i \in 0 .. length - 2 : i + 1 \in 1 .. Len(text) - 1
    BY <1>1 DEF length
  <1>3. QED BY <1>1, <1>2, TextsAreStrings DEF At, length

(* A byte that is not the terminator lies before it.                        *)
LEMMA BeforeTerminator ==
    ASSUME text \in Texts, text # <<>>, NEW i \in 0 .. length - 1, At(i) # "nul"
    PROVE  i \in 0 .. length - 2
  <1>1. length \in Nat \ {0} /\ i # length - 1
    BY TerminatorLast
  <1>2. QED BY <1>1

(* buffer_skip_whitespace goes forward and stays in the text.               *)
LEMMA SkipPlace ==
    ASSUME text \in Texts, text # <<>>, NEW o \in 0 .. length
    PROVE  Skip(o) \in 0 .. length - 1 /\ (o < length => o =< Skip(o))
  <1> DEFINE Dark == {i \in o .. length - 1 : At(i) \notin {"blank", "nul"}}
  <1>1. length \in Nat \ {0}
    BY TerminatorLast
  <1>2. CASE Dark # {}
    <2>1. Dark \in SUBSET Nat
      BY <1>1
    <2>2. Least(Dark) \in Dark
      BY <1>2, <2>1, LeastFound
    <2>3. Skip(o) = Least(Dark)
      BY <1>2 DEF Skip
    <2>4. QED BY <1>1, <2>2, <2>3
  <1>3. CASE Dark = {}
    BY <1>1, <1>3 DEF Skip
  <1>4. QED BY <1>2, <1>3

LEMMA SkipBomPlace ==
    ASSUME text \in Texts, text # <<>>
    PROVE  SkipBom \in 0 .. length
  BY TerminatorLast DEF SkipBom, Can

(* parse_number ends before the terminator.                                 *)
LEMMA NumberEndPlace ==
    ASSUME text \in Texts, text # <<>>, NEW o \in 0 .. length - 1
    PROVE  NumberEnd(o) \in o .. length - 1
  <1>1. length \in Nat \ {0}
    BY TerminatorLast
  <1>2. Taken(o) \subseteq o .. length - 2
    <2>1. \A i \in Taken(o) : /\ i \in o .. length - 1
                              /\ At(i) \in {"digit", "minus"}
      BY <1>1 DEF Taken, NumberBytes
    <2>2. QED BY <1>1, <2>1, BeforeTerminator
  <1>3. CASE \E i \in Taken(o) : At(i) = "digit"
    <2>1. Taken(o) \in SUBSET (0 .. length) /\ Taken(o) # {}
      BY <1>1, <1>2, <1>3
    <2>2. \E i \in Taken(o) : \A j \in Taken(o) : j =< i
      BY <1>1, <2>1, GreatestFound
    <2>3. PICK i \in Taken(o) : NumberEnd(o) = 1 + i
      BY <1>3, <2>2 DEF NumberEnd
    <2>4. QED BY <1>1, <1>2, <2>3
  <1>4. CASE ~\E i \in Taken(o) : At(i) = "digit"
    BY <1>1, <1>4 DEF NumberEnd
  <1>5. QED BY <1>3, <1>4

(* A closing quote lies after the opening one and before the terminator,    *)
(* and a bad escape between the two quotes.                                 *)
LEMMA ClosingPlace ==
    ASSUME text \in Texts, text # <<>>, NEW o \in 0 .. length - 1, Closing(o) # {}
    PROVE  Least(Closing(o)) \in o + 1 .. length - 2
  <1>1. length \in Nat \ {0}
    BY TerminatorLast
  <1>2. \A i \in Closing(o) : i \in o + 1 .. length - 1 /\ At(i) = "quote"
    BY DEF Closing
  <1>3. Closing(o) \in SUBSET Nat
    BY <1>1, <1>2
  <1>4. Least(Closing(o)) \in Closing(o)
    BY <1>3, LeastFound
  <1>5. QED BY <1>1, <1>2, <1>4, BeforeTerminator

LEMMA BadEscapePlace ==
    ASSUME NEW o \in Nat, NEW end \in Nat, BadEscapes(o, end) # {}
    PROVE  Least(BadEscapes(o, end)) \in o + 1 .. end - 1
  <1>1. BadEscapes(o, end) \subseteq o + 1 .. end - 1
    BY DEF BadEscapes
  <1>2. BadEscapes(o, end) \in SUBSET Nat
    BY <1>1
  <1>3. QED BY <1>1, <1>2, LeastFound

-----------------------------------------------------------------------------
(* Types.                                                                   *)

LEMMA TypeParts == TypeOK <=> ControlTyped /\ BlocksTyped /\ ReportTyped
  BY DEF TypeOK, ControlTyped, BlocksTyped, ReportTyped, Frame

LEMMA TopTyped ==
    ASSUME TypeOK
    PROVE  /\ Len(stack) \in Nat
           /\ stack # <<>> => /\ Len(stack) \in 1 .. Len(stack)
                              /\ Top.item \in Nat /\ Top.kind \in {"array", "object"}
  <1>1. stack \in Seq(Frame)
    BY TypeParts DEF ControlTyped
  <1>2. Len(stack) \in Nat
    BY <1>1
  <1>3. stack # <<>> => Len(stack) \in 1 .. Len(stack)
    BY <1>1, <1>2
  <1>4. stack # <<>> => Top \in Frame
    BY <1>1, <1>3 DEF Top
  <1>5. QED BY <1>2, <1>3, <1>4 DEF Frame

LEMMA FrontOf ==
    ASSUME NEW S, NEW s \in Seq(S), s # <<>>
    PROVE  /\ SubSeq(s, 1, Len(s) - 1) \in Seq(S)
           /\ Len(SubSeq(s, 1, Len(s) - 1)) = Len(s) - 1
           /\ \A d \in 1 .. Len(s) - 1 : SubSeq(s, 1, Len(s) - 1)[d] = s[d]
           /\ Len(s) \in Nat \ {0}
  <1> DEFINE front == SubSeq(s, 1, Len(s) - 1)
  <1>1. Len(s) \in Nat \ {0} /\ \A d \in 1 .. Len(s) : s[d] \in S
    OBVIOUS
  <1>2. front = [d \in 1 .. Len(s) - 1 |-> s[d]]
    BY <1>1
  <1>3. front \in Seq(S)
    BY <1>1
  <1> HIDE DEF front
  <1>4. DOMAIN front = 1 .. Len(s) - 1
    BY <1>2
  <1>5. Len(front) = Len(s) - 1
    BY <1>1, <1>3, <1>4
  <1>6. QED BY <1>1, <1>2, <1>3, <1>5 DEF front

LEMMA PoppedTyped ==
    ASSUME TypeOK, stack # <<>>
    PROVE  /\ Popped \in Seq(Frame) /\ Len(Popped) = Len(stack) - 1
           /\ Len(stack) \in Nat \ {0}
           /\ \A d \in 1 .. Len(stack) - 1 : Popped[d] = stack[d]
  <1>1. stack \in Seq(Frame)
    BY TypeParts DEF ControlTyped
  <1>2. QED BY <1>1, FrontOf DEF Popped

LEMMA SlotsTyped ==
    ASSUME NEW n \in Nat
    PROVE  /\ Local("root", n) \in Slot /\ Local("head", n) \in Slot
           /\ Local("output", n) \in Slot /\ Field(n, "child") \in Slot
           /\ Field(n, "valuestring") \in Slot /\ Field(n, "string") \in Slot
  BY DEF Local, Field, Slot

LEMMA AllocateTyped ==
    ASSUME BlocksTyped, NEW slot \in Slot, Allocate(slot)
    PROVE  BlocksTyped'
  <1>1. [slot |-> slot, block |-> fresh] \in [slot : Slot, block : Nat]
    BY DEF BlocksTyped
  <1>2. QED BY <1>1 DEF BlocksTyped, Allocate

LEMMA ReleaseTyped ==
    ASSUME BlocksTyped, NEW slot, Release(slot), UNCHANGED <<fresh, starved>>
    PROVE  BlocksTyped'
  <1>1. heap' \subseteq heap /\ holds' \subseteq holds
    BY DEF Release
  <1>2. QED BY <1>1 DEF BlocksTyped

LEMMA MoveTyped ==
    ASSUME BlocksTyped, NEW from, NEW to \in Slot, Move(from, to),
           UNCHANGED <<heap, fresh, starved>>
    PROVE  BlocksTyped'
  <1>1. \A b \in Held(from) : b \in Nat
    BY DEF BlocksTyped, Held
  <1>2. \A b \in Held(from) : [slot |-> to, block |-> b] \in [slot : Slot, block : Nat]
    BY <1>1
  <1>3. QED BY <1>2 DEF BlocksTyped, Move

LEMMA AllocateFailsTyped ==
    ASSUME BlocksTyped, AllocateFails PROVE BlocksTyped'
  BY DEF BlocksTyped, AllocateFails

LEMMA BlocksStep == TypeOK /\ [Next]_vars => BlocksTyped'
  <1> SUFFICES ASSUME TypeOK, [Next]_vars PROVE BlocksTyped'
    OBVIOUS
  <1>t. BlocksTyped /\ item \in Nat /\ Len(stack) \in Nat
    BY TypeParts, TopTyped DEF ControlTyped
  <1>u. ASSUME UNCHANGED blocks PROVE BlocksTyped'
    BY <1>t, <1>u DEF BlocksTyped, blocks
  <1>1. CASE Start
    BY <1>1, <1>t, <1>u, SlotsTyped, AllocateTyped, AllocateFailsTyped DEF Start
  <1>2. ASSUME NEW decode, ScanString(decode) PROVE BlocksTyped'
    BY <1>2, <1>t, <1>u, SlotsTyped, AllocateTyped, AllocateFailsTyped DEF ScanString
  <1>3. CASE BadString
    BY <1>3, <1>t, ReleaseTyped DEF BadString
  <1>4. CASE DecodeValue
    BY <1>4, <1>t, SlotsTyped, MoveTyped DEF DecodeValue
  <1>5. CASE NewItem
    BY <1>5, <1>t, SlotsTyped, AllocateTyped, AllocateFailsTyped DEF NewItem
  <1>6. CASE MemberName
    BY <1>2, <1>6, <1>u DEF MemberName
  <1>7. CASE DecodeName
    BY <1>7, <1>t, SlotsTyped, MoveTyped DEF DecodeName
  <1>8. CASE SwapName
    BY <1>8, <1>t, SlotsTyped, MoveTyped DEF SwapName
  <1>9. CASE AfterElement
    <2>1. CASE UNCHANGED holds
      BY <1>9, <1>t, <2>1 DEF AfterElement, BlocksTyped
    <2>2. CASE Move(Local("head", Len(stack)), Field(Top.item, "child")) /\ stack # <<>>
      <3>1. Top.item \in Nat
        BY <2>2, TopTyped
      <3>2. QED BY <1>9, <1>t, <2>2, <3>1, SlotsTyped, MoveTyped DEF AfterElement
    <2>3. QED BY <1>9, <2>1, <2>2 DEF AfterElement
  <1>10. CASE FailFrame
    BY <1>10, <1>t, ReleaseTyped DEF FailFrame
  <1>11. CASE Fail
    BY <1>11, <1>t, ReleaseTyped DEF Fail
  <1>12. CASE \/ Scalar \/ Open("array") \/ Open("object") \/ Finish \/ UNCHANGED vars
    BY <1>12, <1>u DEF Scalar, Open, Finish, vars, blocks
  <1>13. CASE StringValue
    BY <1>2, <1>13 DEF StringValue
  <1>14. QED
    BY <1>1, <1>3, <1>4, <1>5, <1>6, <1>7, <1>8, <1>9, <1>10, <1>11, <1>12, <1>13
       DEF Next

LEMMA ReportStep ==
    ASSUME PositionInv, [Next]_vars PROVE ReportTyped'
  <1>1. ReportTyped /\ offset \in Int /\ text \in Seq(Byte)
    BY TypeParts DEF ControlTyped, PositionInv
  <1>2. length \in Int /\ ErrorPosition \in Int
    BY <1>1 DEF length, ErrorPosition
  <1>3. CASE Start
    BY <1>1, <1>3 DEF Start, ReportTyped
  <1>4. CASE Fail
    BY <1>1, <1>2, <1>4 DEF Fail, ReportTyped, results
  <1>5. CASE Finish
    <2>1. text \in Texts /\ text # <<>> /\ offset \in 0 .. length
      BY <1>2, <1>5 DEF Finish, PositionInv, Place, ReadsInside
    <2>2. Skip(offset) \in Int
      BY <1>2, <2>1, SkipPlace
    <2>3. QED BY <1>1, <1>5, <2>2 DEF Finish, ReportTyped
  <1>6. CASE UNCHANGED results
    BY <1>1, <1>6 DEF ReportTyped, results
  <1>7. QED
    BY <1>3, <1>4, <1>5, <1>6
       DEF Next, Scalar, StringValue, BadString, DecodeValue, Open, NewItem, MemberName,
           DecodeName, SwapName, AfterElement, FailFrame, vars, results

-----------------------------------------------------------------------------
(* The offset.                                                              *)

LEMMA PositionInit == Init => PositionInv
  <1> SUFFICES ASSUME Init PROVE PositionInv
    OBVIOUS
  <1>1. text \in Seq(Byte) /\ text \in Texts
    BY TextsAreStrings DEF Init
  <1>2. <<>> \in Seq(Frame) /\ stack = <<>>
    BY DEF Init
  <1>3. ControlTyped
    BY <1>1, <1>2 DEF Init, ControlTyped
  <1>4. BlocksTyped
    BY DEF Init, BlocksTyped
  <1>5. ReportTyped
    BY DEF Init, ReportTyped
  <1>6. ReadsInside
    BY DEF Init, ReadsInside
  <1>7. DepthBounded
    BY LimitsAreNumbers DEF Init, DepthBounded
  <1>8. QED
    BY <1>1, <1>3, <1>4, <1>5, <1>6, <1>7, TypeParts DEF Init, PositionInv, Place, Decoding

LEMMA PlaceStep ==
    ASSUME PositionInv, Next PROVE ControlTyped' /\ Place'
  <1>t. /\ ControlTyped /\ Place /\ ReadsInside /\ DepthBounded
        /\ text \in Texts /\ text \in Seq(Byte) /\ TypeOK
    BY TypeParts DEF PositionInv, Place, ControlTyped
  <1>l. text # <<>> => length \in Nat \ {0}
    BY <1>t, TerminatorLast
  <1>c. UNCHANGED call => text' = text /\ length' = length
    BY DEF call, length
  <1> DEFINE Arrives ==
               /\ offset' \in Int
               /\ pc' \in {"value", "name", "swap", "ok", "no"}
               /\ pc' # "no" => text # <<>>
               /\ pc' \in {"value", "name", "swap"} => offset' \in 0 .. length - 1
               /\ pc' = "ok" => offset' \in 1 .. length - 1
               /\ pc' = "no" /\ text # <<>> => offset' \in 0 .. length
             Stays == UNCHANGED <<call, depth, stack>> /\ item' \in Nat /\ ending' \in Nat
  \* Most actions stay in their frame and arrive somewhere in the text.
  <1>k. ASSUME Stays, Arrives, pc \in {"no", "failed"} => pc' = "no"
        PROVE  ControlTyped' /\ Place'
    <2>1. ControlTyped'
      BY <1>k, <1>t DEF ControlTyped, call
    <2>2. Place'
      BY <1>k, <1>t, <1>l, <1>c
         DEF Place, Decoding, ReadsInside, DepthBounded, ControlTyped
    <2>3. QED BY <2>1, <2>2
  <1>1. CASE Start
    <2>1. text # <<>> => Skip(SkipBom) \in 0 .. length - 1
      BY <1>t, SkipPlace, SkipBomPlace
    <2>2. Arrives /\ Stays
      <3>1. pc = "start" /\ offset = 0
        BY <1>1, <1>t DEF Start, Place
      <3>2. fresh \in Nat
        BY <1>t DEF TypeOK
      <3>3. QED BY <1>1, <1>t, <1>l, <2>1, <3>1, <3>2 DEF Start, ControlTyped
    <2>3. QED BY <1>1, <1>k, <2>2 DEF Start
  <1>2. CASE Scalar
    <2>1. offset \in 0 .. length - 1 /\ text # <<>>
      BY <1>2, <1>t DEF Scalar, ReadsInside, Place
    <2>2. \/ pc' = "no" /\ offset' = offset
          \/ pc' = "ok" /\ offset' \in offset + 1 .. length - 1
      <3>1. Can(offset + 1) /\ At(offset + 1) = "t" => offset + 2 \in offset + 1 .. length - 1
        BY <1>t, <1>l, <2>1, BeforeTerminator DEF Can
      <3>2. NumberEnd(offset) \in offset .. length - 1
        BY <1>t, <2>1, NumberEndPlace
      <3>3. QED BY <1>2, <1>l, <2>1, <3>1, <3>2 DEF Scalar
    <2>3. Arrives /\ Stays
      BY <1>2, <1>t, <1>l, <2>1, <2>2 DEF Scalar, ControlTyped
    <2>4. QED BY <1>2, <1>k, <2>3 DEF Scalar
  \* parse_string: either the end is found, or it fails on the next byte.
  <1>3. ASSUME NEW decode \in Decoding, ScanString(decode), pc \in {"value", "name"},
               UNCHANGED <<call, depth, stack, item>>
        PROVE  ControlTyped' /\ Place'
    <2>1. offset \in 0 .. length - 1 /\ text # <<>>
      BY <1>3, <1>t DEF ReadsInside, Place
    <2>2. CASE pc' = "no"
      <3>1. offset' = offset + 1 /\ UNCHANGED ending
        BY <1>3, <2>2 DEF ScanString, Decoding
      <3>2. Arrives /\ Stays
        BY <1>3, <1>t, <1>l, <2>1, <2>2, <3>1 DEF ControlTyped
      <3>3. QED BY <1>k, <2>2, <3>2
    <2>3. CASE pc' = decode
      <3>1. UNCHANGED offset /\ ending' \in offset + 1 .. length - 2
        BY <1>3, <1>t, <2>1, <2>3, ClosingPlace DEF ScanString, Decoding
      <3>2. ControlTyped'
        BY <1>3, <1>t, <1>l, <2>1, <2>3, <3>1 DEF ControlTyped, call, Decoding
      <3>3. Place'
        BY <1>3, <1>t, <1>l, <1>c, <2>1, <2>3, <3>1
           DEF Place, Decoding, ReadsInside, DepthBounded
      <3>4. QED BY <3>2, <3>3
    <2>4. QED BY <1>3, <2>2, <2>3 DEF ScanString
  <1>4. CASE StringValue
    BY <1>3, <1>4 DEF StringValue, Decoding
  <1>d. pc \in Decoding => /\ offset \in 0 .. length - 1 /\ text # <<>>
                           /\ ending \in offset + 1 .. length - 2
    BY <1>t DEF Decoding, Place, ReadsInside
  <1>5. CASE BadString
    <2>1. /\ pc \in Decoding /\ pc' = "no"
          /\ offset' = Least(BadEscapes(offset, ending)) /\ BadEscapes(offset, ending) # {}
          /\ UNCHANGED <<call, depth, stack, item, ending>>
      BY <1>5 DEF BadString, Decoding
    <2>2. offset' \in offset + 1 .. ending - 1
      <3>1. offset \in Nat /\ ending \in Nat
        BY <1>d, <1>l, <2>1
      <3>2. QED BY <2>1, <3>1, BadEscapePlace
    <2>3. Arrives /\ Stays
      BY <1>d, <1>t, <1>l, <2>1, <2>2 DEF ControlTyped
    <2>4. QED BY <1>k, <2>1, <2>3
  <1>6. CASE DecodeValue
    <2>1. /\ pc \in Decoding /\ pc' = "ok" /\ offset' = ending + 1
          /\ UNCHANGED <<call, depth, stack, item, ending>>
      BY <1>6 DEF DecodeValue, Decoding
    <2>2. Arrives /\ Stays
      BY <1>d, <1>t, <1>l, <2>1 DEF ControlTyped
    <2>3. QED BY <1>6, <1>k, <2>2 DEF DecodeValue
  <1>7. ASSUME NEW kind \in {"array", "object"}, Open(kind) PROVE ControlTyped' /\ Place'
    <2>1. /\ pc = "value" /\ UNCHANGED <<call, item, ending>>
          /\ At(offset) \in {"lbracket", "lbrace"}
      BY <1>7 DEF Open
    <2>2. offset \in 0 .. length - 2 /\ text # <<>>
      BY <1>t, <1>l, <2>1, BeforeTerminator DEF ReadsInside, Place
    <2> DEFINE o == Skip(offset + 1)
    <2>3. o \in offset + 1 .. length - 1 /\ Can(o)
      BY <1>t, <1>l, <2>2, SkipPlace DEF Can
    <2>4. CASE pc' = "no" /\ UNCHANGED <<offset, depth, stack>>
      <3>1. Arrives /\ Stays
        BY <1>t, <1>l, <2>1, <2>2, <2>4 DEF ControlTyped
      <3>2. QED BY <1>k, <2>4, <3>1
    <2>5. CASE /\ At(o) = Closer(kind) /\ offset' = Past(o) /\ pc' = "ok"
               /\ UNCHANGED <<depth, stack>>
      <3>1. o \in 0 .. length - 2
        BY <1>t, <1>l, <2>2, <2>3, <2>5, BeforeTerminator DEF Closer
      <3>2. Arrives /\ Stays
        BY <1>t, <1>l, <2>1, <2>2, <2>5, <3>1 DEF ControlTyped, Past
      <3>3. QED BY <1>k, <2>1, <3>2
    <2>6. CASE /\ ~TooDeep /\ offset' = o - 1 /\ depth' = depth + 1 /\ pc' = "element"
               /\ stack' = Append(stack, [kind |-> kind, item |-> item])
      <3>1. /\ stack' \in Seq(Frame) /\ stack' # <<>> /\ Len(stack') = Len(stack) + 1
            /\ Len(stack) \in Nat
        <4>1. stack \in Seq(Frame) /\ [kind |-> kind, item |-> item] \in Frame
          BY <1>t DEF ControlTyped, Frame
        <4>2. QED BY <2>6, <4>1
      <3>2. depth' \in Nat /\ depth' = Len(stack') /\ depth' =< NestingLimit
        <4>1. depth = Len(stack) /\ depth \in Nat /\ NestingLimit \in Nat
          BY <1>t, <2>1, LimitsAreNumbers DEF DepthBounded, ControlTyped
        <4>2. QED BY <2>6, <3>1, <4>1 DEF TooDeep
      <3>3. ControlTyped'
        BY <1>t, <1>l, <2>1, <2>2, <2>3, <2>6, <3>1, <3>2 DEF ControlTyped, call
      <3>4. Place'
        BY <1>t, <1>l, <1>c, <2>1, <2>2, <2>3, <2>6, <3>1, <3>2
           DEF Place, Decoding, ReadsInside, DepthBounded
      <3>5. QED BY <3>3, <3>4
    <2>7. QED BY <1>7, <2>3, <2>4, <2>5, <2>6 DEF Open
  <1>8. CASE NewItem
    <2>1. /\ pc = "element" /\ offset \in 0 .. length - 2 /\ text # <<>>
          /\ UNCHANGED <<call, depth, stack, ending>>
      BY <1>8, <1>t DEF NewItem, ReadsInside, Place
    <2>2. Skip(offset + 1) \in 0 .. length - 1
      BY <1>t, <1>l, <2>1, SkipPlace
    <2>3. fresh \in Nat
      BY <1>t DEF TypeOK
    <2>4. Arrives /\ Stays
      BY <1>8, <1>t, <1>l, <2>1, <2>2, <2>3 DEF NewItem, ControlTyped
    <2>5. QED BY <1>k, <2>1, <2>4
  <1>9. CASE MemberName
    <2>1. CASE ScanString("decodeName")
      BY <1>3, <1>9, <2>1 DEF MemberName, Decoding
    <2>2. CASE pc' = "no" /\ offset' = offset + 1 /\ UNCHANGED ending
      <3>1. pc = "name" /\ offset \in 0 .. length - 1 /\ UNCHANGED <<call, depth, stack, item>>
        BY <1>9, <1>t DEF MemberName, ReadsInside
      <3>2. text # <<>>
        BY <1>t, <3>1 DEF Place
      <3>3. Arrives /\ Stays
        BY <1>t, <1>l, <2>2, <3>1, <3>2 DEF ControlTyped
      <3>4. QED BY <1>k, <2>2, <3>3
    <2>3. QED BY <1>9, <2>1, <2>2 DEF MemberName
  <1>10. CASE DecodeName
    <2>1. /\ pc \in Decoding /\ pc' = "swap" /\ offset' = Skip(ending + 1) /\ pc = "decodeName"
          /\ UNCHANGED <<call, depth, stack, item, ending>>
      BY <1>10 DEF DecodeName, Decoding
    <2>2. offset' \in 0 .. length - 1
      BY <1>d, <1>t, <1>l, <2>1, SkipPlace
    <2>3. Arrives /\ Stays
      BY <1>d, <1>t, <1>l, <2>1, <2>2 DEF ControlTyped
    <2>4. QED BY <1>k, <2>1, <2>3
  <1>11. CASE SwapName
    <2>1. /\ pc = "swap" /\ offset \in 0 .. length - 1 /\ text # <<>>
          /\ UNCHANGED <<call, depth, stack, item, ending>>
      BY <1>11, <1>t DEF SwapName, ReadsInside, Place
    <2>2. At(offset) = "colon" => Skip(offset + 1) \in 0 .. length - 1
      BY <1>t, <1>l, <2>1, SkipPlace
    <2>3. Arrives /\ Stays
      BY <1>11, <1>t, <1>l, <2>1, <2>2 DEF SwapName, ControlTyped
    <2>4. QED BY <1>k, <2>1, <2>3
  <1>12. CASE AfterElement
    <2> DEFINE o == Skip(offset)
    <2>1. /\ pc = "ok" /\ offset \in 1 .. length - 1 /\ text # <<>> /\ stack # <<>>
          /\ UNCHANGED <<call, item, ending>>
      BY <1>12, <1>t DEF AfterElement, ReadsInside, Place
    <2>2. o \in 1 .. length - 1
      BY <1>t, <1>l, <2>1, SkipPlace
    <2>3. CASE pc' = "element" /\ At(o) = "comma" /\ offset' = o /\ UNCHANGED <<depth, stack>>
      <3>1. o \in 0 .. length - 2
        BY <1>t, <1>l, <2>1, <2>2, <2>3, BeforeTerminator
      <3>2. ControlTyped'
        BY <1>t, <1>l, <2>1, <2>3, <3>1 DEF ControlTyped, call
      <3>3. Place'
        BY <1>t, <1>l, <1>c, <2>1, <2>3, <3>1
           DEF Place, Decoding, ReadsInside, DepthBounded
      <3>4. QED BY <3>2, <3>3
    <2>4. CASE /\ pc' = "ok" /\ At(o) = Closer(Top.kind) /\ offset' = Past(o)
               /\ depth' = DepthLeft /\ stack' = Popped
      <3>1. o \in 0 .. length - 2
        BY <1>t, <1>l, <2>1, <2>2, <2>4, BeforeTerminator DEF Closer
      <3>2. stack' \in Seq(Frame) /\ Len(stack') = Len(stack) - 1 /\ Len(stack) \in Nat \ {0}
        BY <1>t, <2>1, <2>4, PoppedTyped
      <3>3. depth' \in Nat /\ depth' = Len(stack') /\ depth' =< NestingLimit
        <4>1. depth = Len(stack) /\ depth =< NestingLimit /\ NestingLimit \in Nat
          BY <1>t, <2>1, LimitsAreNumbers DEF DepthBounded
        <4>2. QED BY <2>4, <3>2, <4>1 DEF DepthLeft
      <3>4. offset' \in 1 .. length - 1
        BY <1>l, <2>1, <2>4, <3>1 DEF Past
      <3>5. ControlTyped'
        BY <1>t, <1>l, <2>1, <2>4, <3>2, <3>3, <3>4 DEF ControlTyped, call
      <3>6. Place'
        BY <1>t, <1>c, <2>1, <2>4, <3>3, <3>4
           DEF Place, Decoding, ReadsInside, DepthBounded
      <3>7. QED BY <3>5, <3>6
    <2>5. CASE pc' = "no" /\ offset' = o /\ UNCHANGED <<depth, stack>>
      <3>1. Arrives /\ Stays
        BY <1>t, <1>l, <2>1, <2>2, <2>5 DEF ControlTyped
      <3>2. QED BY <1>k, <2>5, <3>1
    <2>6. QED BY <1>12, <2>3, <2>4, <2>5 DEF AfterElement
  <1>13. CASE FailFrame
    <2>1. pc = "no" /\ stack # <<>> /\ stack' = Popped
          /\ UNCHANGED <<call, pc, offset, depth, item, ending>>
      BY <1>13 DEF FailFrame
    <2>2. stack' \in Seq(Frame) /\ Len(stack') = Len(stack) - 1 /\ Len(stack) \in Nat \ {0}
      BY <1>t, <2>1, PoppedTyped
    <2>3. Len(stack') =< depth'
      BY <1>t, <2>1, <2>2 DEF DepthBounded, ControlTyped
    <2>4. ControlTyped'
      BY <1>t, <2>1, <2>2 DEF ControlTyped, call
    <2>5. Place'
      BY <1>t, <1>c, <2>1, <2>3 DEF Place, Decoding, ReadsInside, DepthBounded
    <2>6. QED BY <2>4, <2>5
  <1>14. CASE Finish
    <2>1. /\ pc = "ok" /\ offset \in 1 .. length - 1 /\ text # <<>> /\ stack = <<>>
          /\ UNCHANGED <<call, depth, stack, item, ending>>
      BY <1>14, <1>t DEF Finish, ReadsInside, Place
    <2>2. offset' \in 1 .. length - 1
      <3>1. Skip(offset) \in 1 .. length - 1
        BY <1>t, <1>l, <2>1, SkipPlace
      <3>2. QED BY <1>14, <2>1, <3>1 DEF Finish
    <2>3. CASE pc' = "no"
      <3>1. Arrives /\ Stays
        BY <1>t, <1>l, <2>1, <2>2, <2>3 DEF ControlTyped
      <3>2. QED BY <1>k, <2>3, <3>1
    <2>4. CASE pc' = "parsed"
      <3>1. ControlTyped'
        BY <1>t, <1>l, <2>1, <2>2, <2>4 DEF ControlTyped, call
      <3>2. Place'
        BY <1>t, <1>c, <2>1, <2>2, <2>4 DEF Place, Decoding, ReadsInside, DepthBounded
      <3>3. QED BY <3>1, <3>2
    <2>5. QED BY <1>14, <2>3, <2>4 DEF Finish
  <1>15. CASE Fail
    <2>1. /\ pc = "no" /\ stack = <<>> /\ pc' = "failed"
          /\ UNCHANGED <<call, offset, depth, stack, item, ending>>
      BY <1>15 DEF Fail
    <2>2. ControlTyped'
      BY <1>t, <2>1 DEF ControlTyped, call
    <2>3. Place'
      BY <1>t, <1>c, <2>1 DEF Place, Decoding, ReadsInside, DepthBounded
    <2>4. QED BY <2>2, <2>3
  <1>16. QED
    BY <1>1, <1>2, <1>4, <1>5, <1>6, <1>7, <1>8, <1>9, <1>10, <1>11, <1>12, <1>13, <1>14, <1>15
       DEF Next

LEMMA PositionStep == PositionInv /\ [Next]_vars => PositionInv'
  <1> SUFFICES ASSUME PositionInv, [Next]_vars PROVE PositionInv'
    OBVIOUS
  <1>1. BlocksTyped' /\ ReportTyped'
    BY BlocksStep, ReportStep DEF PositionInv
  <1>2. CASE Next
    <2>1. ControlTyped' /\ Place'
      BY <1>2, PlaceStep
    <2>2. TypeOK'
      BY <1>1, <2>1
         DEF TypeOK, ControlTyped, BlocksTyped, ReportTyped, Frame
    <2>3. QED BY <2>1, <2>2 DEF PositionInv
  <1>3. CASE UNCHANGED vars
    <2>1. TypeOK'
      BY <1>3 DEF vars, PositionInv, TypeOK
    <2>2. Place'
      BY <1>3 DEF vars, PositionInv, Place, ReadsInside, DepthBounded, length
    <2>3. QED BY <2>1, <2>2 DEF PositionInv
  <1>4. QED BY <1>2, <1>3

-----------------------------------------------------------------------------
(* Owned.                                                                   *)

(* What a pointer holds itself, or through an older block in T.             *)
Leads(T, slot, b) ==
    \E h \in holds :
       /\ h.block = b
       /\ \/ h.slot = slot
          \/ /\ h.slot.at \in {"child", "string", "valuestring"}
             /\ h.slot.of \in {a \in heap : a < b}
             /\ h.slot.of \in T

(* Owned(slot) is what its recursive definition says, a fixpoint of Leads:  *)
(* the least set that is closed under Leads gives the function.             *)
LEMMA OwnedFixed ==
    ASSUME NEW slot
    PROVE  /\ Owned(slot) \subseteq heap
           /\ \A b \in heap : b \in Owned(slot) <=> Leads(Owned(slot), slot, b)
  <1> DEFINE Says(f, b) ==
                 \E h \in holds :
                    /\ h.block = b
                    /\ \/ h.slot = slot
                       \/ /\ h.slot.at \in {"child", "string", "valuestring"}
                          /\ h.slot.of \in {a \in heap : a < b}
                          /\ f[h.slot.of]
             Solves(f) == f = [b \in heap |-> Says(f, b)]
             Closed == {T \in SUBSET heap : \A b \in heap : Leads(T, slot, b) => b \in T}
             L == {b \in heap : \A T \in Closed : b \in T}
             l == [b \in heap |-> b \in L]
  <1>1. \A b \in heap : b \in L <=> Leads(L, slot, b)
    <2>1. ASSUME NEW b \in heap, Leads(L, slot, b) PROVE b \in L
      BY <2>1 DEF Leads
    <2>2. ASSUME NEW b \in heap, b \in L PROVE Leads(L, slot, b)
      <3> DEFINE M == {c \in heap : Leads(L, slot, c)}
      <3>1. M \subseteq L
        BY <2>1
      <3>2. ASSUME NEW c \in heap, Leads(M, slot, c) PROVE c \in M
         BY <3>1, <3>2 DEF Leads
      <3>3. M \in Closed
        BY <3>2
      <3>4. QED BY <2>2, <3>3
    <2>3. QED BY <2>1, <2>2
  <1>2. Solves(l)
    <2> HIDE DEF L
    <2>1. \A b \in heap : Leads(L, slot, b) <=> Says(l, b)
       BY DEF Leads
    <2>2. \A b \in heap : b \in L <=> Says(l, b)
      BY <1>1, <2>1
    <2>3. l = [b \in heap |-> b \in L]
      OBVIOUS
    <2> HIDE DEF l
    <2>4. ASSUME NEW b \in heap PROVE (b \in L) = Says(l, b)
      <3>1. CASE b \in L
        <4>1. (b \in L) = TRUE
          BY <3>1, Zenon
        <4>2. Says(l, b) = TRUE
          BY <2>2, <3>1, Zenon
        <4>3. QED BY <4>1, <4>2, Zenon
      <3>2. CASE b \notin L
        <4>1. (b \in L) = FALSE
          BY <3>2
        <4>2. Says(l, b) = FALSE
          BY <2>2, <3>2, Zenon
        <4>3. QED BY <4>1, <4>2, Zenon
      <3>3. QED BY <3>1, <3>2
    <2>5. [b \in heap |-> b \in L] = [b \in heap |-> Says(l, b)]
      BY <2>4, Zenon
    <2>6. QED BY <2>3, <2>5, Zenon
  <1> DEFINE owned == CHOOSE f : Solves(f)
  <1>3. Solves(owned)
    BY <1>2
  <1>4. Owned(slot) = {b \in heap : owned[b]}
    BY DEF Owned
  <1>5. \A b \in heap : owned[b] <=> Says(owned, b)
    BY <1>3
  <1> HIDE DEF owned
  <1>6. \A b \in heap : b \in Owned(slot) <=> Leads(Owned(slot), slot, b)
    BY <1>4, <1>5 DEF Leads
  <1>7. QED BY <1>4, <1>6

-----------------------------------------------------------------------------
(* The three ways in which pointers change keep the forest.                 *)

LEMMA AllocateForest ==
    ASSUME TypeOK, Forest, NEW slot \in Slot, Allocate(slot), ~IsField(slot),
           slot.at \in {"root", "output"} => slot.of = 0
    PROVE  /\ Forest' /\ heap \subseteq heap' /\ fresh \in heap'
           /\ \A h \in holds' : h \in holds \/ (h.slot = slot /\ h.block = fresh)
           /\ \A b \in heap : b < fresh
  <1> DEFINE new == [slot |-> slot, block |-> fresh]
  <1>1. /\ heap' = heap \cup {fresh} /\ holds' = holds \cup {new} /\ fresh' = fresh + 1
        /\ new.slot = slot /\ new.block = fresh
    BY DEF Allocate
  <1>2. heap \subseteq Nat /\ fresh \in Nat /\ \A b \in heap : b < fresh
    BY DEF TypeOK, Forest
  <1>3. fresh \notin heap
    BY <1>2
  <1> HIDE DEF new
  <1>4. \A b \in heap' : b < fresh'
    BY <1>1, <1>2
  <1>5. ASSUME NEW b \in heap'
        PROVE  \E h \in holds' : h.block = b /\ \A g \in holds' : g.block = b => g = h
    <2>1. CASE b = fresh
      <3>1. \A g \in holds : g.block # fresh
        BY <1>3 DEF Forest
      <3>2. \A g \in holds' : g.block = b => g = new
        BY <1>1, <2>1, <3>1
      <3>3. new \in holds' /\ new.block = b
        BY <1>1, <2>1
      <3>4. QED BY <3>2, <3>3
    <2>2. CASE b \in heap
      <3>1. b # fresh
        BY <1>3, <2>2
      <3>2. PICK h \in holds : h.block = b /\ \A g \in holds : g.block = b => g = h
        BY <2>2 DEF Forest
      <3>3. QED BY <1>1, <3>1, <3>2
    <2>3. QED BY <1>1, <2>1, <2>2
  <1>6. \A h \in holds' :
          /\ h.block \in heap'
          /\ IsField(h.slot) => h.slot.of \in heap' /\ h.slot.of < h.block
          /\ h.slot.at \in {"root", "output"} => h.slot.of = 0
    BY <1>1 DEF Forest
  <1>7. Forest'
    BY <1>4, <1>5, <1>6 DEF Forest, IsField
  <1>8. \A h \in holds' : h \in holds \/ (h.slot = slot /\ h.block = fresh)
    <2>1. ASSUME NEW h \in holds', h \notin holds PROVE h = new
      BY <1>1, <2>1
    <2>2. QED BY <1>1, <2>1
  <1>9. heap \subseteq heap' /\ fresh \in heap'
    BY <1>1
  <1>10. QED BY <1>2, <1>7, <1>8, <1>9

LEMMA ReleaseForest ==
    ASSUME TypeOK, Forest, NEW slot, Release(slot), UNCHANGED fresh
    PROVE  /\ Forest' /\ heap' \subseteq heap /\ holds' \subseteq holds
           /\ \A h \in holds' : h.slot # slot
  <1>1. heap' = heap \ Owned(slot) /\ holds' = {h \in holds : h.block \notin Owned(slot)}
    BY DEF Release
  <1>2. ASSUME NEW h \in holds' PROVE h.slot # slot
    <2>1. h \in holds /\ h.block \in heap /\ h.block \notin Owned(slot)
      BY <1>1, <1>2 DEF Forest
    <2>2. ~Leads(Owned(slot), slot, h.block)
      BY <2>1, OwnedFixed
    <2>3. QED BY <2>1, <2>2 DEF Leads
  <1>3. ASSUME NEW h \in holds', IsField(h.slot) PROVE h.slot.of \in heap'
    <2>1. h \in holds /\ h.block \in heap /\ h.block \notin Owned(slot)
      BY <1>1, <1>3 DEF Forest
    <2>2. h.slot.of \in heap /\ h.slot.of < h.block
      BY <1>3, <2>1 DEF Forest
    <2>3. ~Leads(Owned(slot), slot, h.block)
      BY <2>1, OwnedFixed
    <2>4. h.slot.of \notin Owned(slot)
      BY <1>3, <2>1, <2>2, <2>3 DEF Leads, IsField
    <2>5. QED BY <1>1, <2>2, <2>4
  <1>4. \A b \in heap' : b < fresh'
    BY <1>1 DEF Forest
  <1>5. ASSUME NEW b \in heap'
        PROVE  \E h \in holds' : h.block = b /\ \A g \in holds' : g.block = b => g = h
    BY <1>1 DEF Forest
  <1>6. \A h \in holds' :
          /\ h.block \in heap'
          /\ IsField(h.slot) => h.slot.of \in heap' /\ h.slot.of < h.block
          /\ h.slot.at \in {"root", "output"} => h.slot.of = 0
    BY <1>1, <1>3 DEF Forest
  <1>7. Forest'
    BY <1>4, <1>5, <1>6 DEF Forest, IsField
  <1>8. QED BY <1>1, <1>2, <1>7

LEMMA MoveForest ==
    ASSUME TypeOK, Forest, NEW from, NEW to, Move(from, to), UNCHANGED <<heap, fresh>>,
           IsField(to), to.of \in heap, \A b \in Held(from) : to.of < b
    PROVE  /\ Forest'
           /\ \A h \in holds' : \/ h \in holds /\ h.slot # from
                                \/ h.slot = to
  <1> DEFINE moved == {[slot |-> to, block |-> b] : b \in Held(from)}
  <1>1. holds' = {h \in holds : h.slot # from} \cup moved
    BY DEF Move
  <1>2. \A h \in moved : h.slot = to /\ h.block \in Held(from)
    OBVIOUS
  <1>3. \A b \in Held(from) : \E h \in holds : h.slot = from /\ h.block = b
    BY DEF Held
  <1>4. ASSUME NEW b \in Held(from)
        PROVE  \E h \in moved : h.block = b /\ \A g \in moved : g.block = b => g = h
    <2>1. [slot |-> to, block |-> b] \in moved
      OBVIOUS
    <2>2. \A g \in moved : g.block = b => g = [slot |-> to, block |-> b]
      OBVIOUS
    <2>3. QED BY <2>1, <2>2
  <1>5. \A h \in holds : h.slot = from => h.block \in Held(from)
    BY DEF Held
  <1> HIDE DEF moved
  <1>6. ASSUME NEW b \in heap'
        PROVE  \E h \in holds' : h.block = b /\ \A g \in holds' : g.block = b => g = h
    <2>1. PICK h \in holds : h.block = b /\ \A g \in holds : g.block = b => g = h
      BY DEF Forest
    <2>2. CASE h.slot = from
      <3>1. b \in Held(from)
        BY <1>5, <2>1, <2>2
      <3>2. PICK m \in moved : m.block = b /\ \A g \in moved : g.block = b => g = m
        BY <1>4, <3>1
      <3>3. \A g \in holds' : g.block = b => g = m
        BY <1>1, <2>1, <2>2, <3>2
      <3>4. QED BY <1>1, <3>2, <3>3
    <2>3. CASE h.slot # from
      <3>1. b \notin Held(from)
        BY <1>3, <2>1, <2>3
      <3>2. QED BY <1>1, <1>2, <2>1, <2>3, <3>1
    <2>4. QED BY <2>2, <2>3
  <1>7. ASSUME NEW h \in holds'
        PROVE  /\ h.block \in heap'
               /\ IsField(h.slot) => h.slot.of \in heap' /\ h.slot.of < h.block
               /\ h.slot.at \in {"root", "output"} => h.slot.of = 0
    <2>1. CASE h \in holds
      BY <2>1 DEF Forest
    <2>2. CASE h \in moved
      <3>1. h.slot = to /\ h.block \in Held(from)
        BY <1>2, <2>2
      <3>2. h.block \in heap
        BY <1>3, <3>1 DEF Forest
      <3>3. to.at \notin {"root", "output"}
        BY DEF IsField
      <3>4. QED BY <3>1, <3>2, <3>3
    <2>3. QED BY <1>1, <2>1, <2>2
  <1>8. Forest'
    <2>1. \A b \in heap' : b < fresh'
      BY DEF Forest
    <2>2. QED BY <1>6, <1>7, <2>1 DEF Forest, IsField
  <1>9. QED BY <1>1, <1>2, <1>8

(* Only `head' of the frame that is left refers to it, and there is only    *)
(* one `output'.                                                            *)
LEMMA OnlySlot ==
    ASSUME TypeOK, NEW h \in holds
    PROVE  /\ h.block \in Nat /\ h.slot.of \in Nat
           /\ \A n : h.slot.of = n =>
                 /\ h.slot.at = "head" => h.slot = Local("head", n)
                 /\ h.slot.at = "root" => h.slot = Local("root", n)
                 /\ h.slot.at = "output" => h.slot = Local("output", n)
           /\ \/ h.slot.at = "head" \/ h.slot.at = "root" \/ h.slot.at = "output"
              \/ IsField(h.slot)
  <1>1. h \in [slot : Slot, block : Nat]
    BY DEF TypeOK
  <1>2. h.block \in Nat /\ h.slot \in Slot
    BY <1>1
  <1>3. /\ h.slot = [at |-> h.slot.at, of |-> h.slot.of] /\ h.slot.of \in Nat
        /\ h.slot.at \in {"head", "output", "root", "child", "string", "valuestring"}
    BY <1>2 DEF Slot
  <1>4. QED BY <1>2, <1>3 DEF Local, IsField

LEMMA PointerStep ==
    ASSUME PositionInv, PointerInv, Next PROVE PointerInv'
  <1>t. /\ TypeOK /\ Forest /\ Heads /\ Outputs /\ Items
        /\ stack \in Seq(Frame) /\ Len(stack) \in Nat
        /\ pc = "start" => heap = {} /\ holds = {} /\ stack = <<>>
    BY TypeParts, TopTyped DEF PositionInv, Place, PointerInv, ControlTyped
  \* Actions that leave the pointers alone.
  <1>k. ASSUME UNCHANGED <<heap, holds, fresh, stack>>, pc \notin Decoding,
               pc' \notin {"start", "failed"}, pc' = "no" \/ pc \notin {"no", "failed"},
               pc' \in Filling => item' \in heap
        PROVE  PointerInv'
    <2>1. Forest' /\ Heads'
      BY <1>k, <1>t DEF Forest, Heads
    <2>2. Outputs'
      BY <1>k, <1>t DEF Outputs
    <2>3. Items'
      BY <1>k, <1>t DEF Items
    <2>4. QED BY <1>k, <2>1, <2>2, <2>3 DEF PointerInv, FailureKeepsNothing
  \* Actions that allocate.
  <1>a. ASSUME NEW slot \in Slot, Allocate(slot), slot.at \in {"root", "head", "output"},
               slot.at \in {"root", "output"} => slot.of = 0,
               slot.at = "head" => slot.of \in 1 .. Len(stack) /\ stack[slot.of].item \in heap,
               slot.at = "output" => pc' \in Decoding /\ item' \in heap,
               UNCHANGED stack, pc \notin Decoding \cup {"no", "failed"},
               pc' \notin {"start", "failed"}, pc' \in Filling => item' \in heap'
        PROVE  PointerInv'
    <2>1. /\ Forest' /\ heap \subseteq heap' /\ fresh \in heap'
          /\ \A h \in holds' : h \in holds \/ (h.slot = slot /\ h.block = fresh)
          /\ \A b \in heap : b < fresh
      <3>1. ~IsField(slot)
        BY <1>a DEF IsField
      <3>2. QED BY <1>a, <1>t, <3>1, AllocateForest
    <2>2. Heads'
      BY <1>a, <1>t, <2>1 DEF Heads
    <2>3. Outputs'
      BY <1>a, <1>t, <2>1 DEF Outputs
    <2>4. Items'
      BY <1>a, <1>t, <2>1 DEF Items
    <2>5. QED BY <1>a, <2>1, <2>2, <2>3, <2>4 DEF PointerInv, FailureKeepsNothing
  \* Actions that move a pointer into an item.
  <1>m. ASSUME NEW from, NEW to, Move(from, to), IsField(to), to.of \in heap,
               \A b \in Held(from) : to.of < b,
               UNCHANGED <<heap, fresh, stack>>, pc \notin {"no", "failed"},
               pc \in Decoding => from = Local("output", 0),
               pc' \notin {"start", "failed"} \cup Decoding, pc' \in Filling => item' \in heap
        PROVE  PointerInv'
    <2>1. /\ Forest'
          /\ \A h \in holds' : (h \in holds /\ h.slot # from) \/ h.slot = to
      BY <1>m, <1>t, MoveForest
    <2>2. to.at \notin {"head", "output"}
      BY <1>m DEF IsField
    <2>3. Heads'
      BY <1>m, <1>t, <2>1, <2>2 DEF Heads
    <2>4. Outputs'
      <3> SUFFICES ASSUME NEW h \in holds', h.slot.at = "output" PROVE FALSE
        BY DEF Outputs
      <3>1. h \in holds /\ h.slot # from
        BY <2>1, <2>2
      <3>2. h.slot = Local("output", 0)
        BY <1>t, <3>1, OnlySlot DEF Forest
      <3>3. QED BY <1>m, <1>t, <3>1, <3>2 DEF Outputs
    <2>5. Items'
      BY <1>m, <1>t DEF Items
    <2>6. QED BY <1>m, <2>1, <2>3, <2>4, <2>5 DEF PointerInv, FailureKeepsNothing
  <1>1. CASE Start
    <2>1. CASE UNCHANGED <<heap, holds, fresh>> /\ pc' = "no"
      BY <1>1, <1>k, <2>1 DEF Start, Decoding, Filling
    <2>2. CASE Allocate(Local("root", 0)) /\ item' = fresh /\ pc' = "value"
      <3>1. /\ Local("root", 0) \in Slot /\ Local("root", 0).at = "root"
            /\ Local("root", 0).of = 0
        BY SlotsTyped DEF Local
      <3>2. fresh \in heap'
        BY <2>2 DEF Allocate
      <3>3. pc = "start" /\ UNCHANGED stack
        BY <1>1 DEF Start
      <3>4. QED BY <1>a, <2>2, <3>1, <3>2, <3>3 DEF Decoding
    <2>3. QED BY <1>1, <2>1, <2>2 DEF Start, AllocateFails, blocks
  <1>2. CASE Scalar
    <2>1. pc = "value" /\ pc' \in {"ok", "no"} /\ UNCHANGED <<heap, holds, fresh, stack>>
      BY <1>2 DEF Scalar, blocks
    <2>2. QED BY <1>k, <2>1 DEF Decoding, Filling
  <1>3. ASSUME NEW decode \in Decoding, ScanString(decode), pc \in {"value", "name"},
               UNCHANGED <<stack, item>>
        PROVE  PointerInv'
    <2>1. item \in heap
      BY <1>3, <1>t DEF Items, Filling
    <2>2. CASE Allocate(Local("output", 0)) /\ pc' = decode
      <3>1. /\ Local("output", 0) \in Slot /\ Local("output", 0).at = "output"
            /\ Local("output", 0).of = 0
        BY SlotsTyped DEF Local
      <3>2. item' \in heap'
        BY <1>3, <2>1, <2>2 DEF Allocate
      <3>3. QED BY <1>3, <1>a, <2>1, <2>2, <3>1, <3>2 DEF Decoding
    <2>3. CASE UNCHANGED <<heap, holds, fresh>> /\ pc' = "no"
      BY <1>3, <1>k, <2>3 DEF Decoding, Filling
    <2>4. QED BY <1>3, <2>2, <2>3 DEF ScanString, AllocateFails, blocks
  <1>4. CASE StringValue
    BY <1>3, <1>4 DEF StringValue, Decoding
  <1>5. CASE BadString
    <2>1. /\ pc' = "no" /\ Release(Local("output", 0)) /\ UNCHANGED <<stack, item, fresh>>
      BY <1>5 DEF BadString
    <2>2. /\ Forest' /\ holds' \subseteq holds
          /\ \A h \in holds' : h.slot # Local("output", 0)
      BY <1>t, <2>1, ReleaseForest
    <2>3. Heads'
      BY <1>t, <2>1, <2>2 DEF Heads
    <2>4. Outputs'
      BY <1>t, <2>2, OnlySlot DEF Outputs, Forest
    <2>5. Items'
      BY <2>1 DEF Items, Filling, Decoding
    <2>6. QED BY <2>1, <2>2, <2>3, <2>4, <2>5 DEF PointerInv, FailureKeepsNothing
  <1>6. ASSUME pc \in Decoding, Move(Local("output", 0), Field(item, "valuestring")),
               UNCHANGED <<heap, fresh, stack, item>>, pc' \in {"ok", "swap"}
        PROVE  PointerInv'
    <2>1. item \in heap
      BY <1>6, <1>t DEF Items, Filling
    <2>2. \A b \in Held(Local("output", 0)) : item < b
      BY <1>t DEF Held, Outputs, Local
    <2>3. IsField(Field(item, "valuestring")) /\ Field(item, "valuestring").of = item
      BY DEF IsField, Field
    <2>4. QED BY <1>6, <1>m, <2>1, <2>2, <2>3 DEF Decoding
  <1>7. CASE DecodeValue \/ DecodeName
    BY <1>6, <1>7 DEF DecodeValue, DecodeName, Decoding
  <1>8. CASE SwapName
    <2>1. /\ pc = "swap" /\ pc' \in {"value", "no"} /\ UNCHANGED <<heap, fresh, stack, item>>
          /\ Move(Field(item, "valuestring"), Field(item, "string"))
      BY <1>8 DEF SwapName
    <2>2. item \in heap
      BY <1>t, <2>1 DEF Items, Filling
    <2>3. \A b \in Held(Field(item, "valuestring")) : item < b
      BY <1>t DEF Held, Forest, Field, IsField
    <2>4. IsField(Field(item, "string")) /\ Field(item, "string").of = item
      BY DEF IsField, Field
    <2>5. QED BY <1>m, <2>1, <2>2, <2>3, <2>4 DEF Decoding
  <1>9. ASSUME NEW kind \in {"array", "object"}, Open(kind) PROVE PointerInv'
    <2>1. /\ pc = "value" /\ UNCHANGED <<heap, holds, fresh, item>>
      BY <1>9 DEF Open, blocks
    <2>2. CASE pc' \in {"no", "ok"} /\ UNCHANGED stack
      BY <1>k, <2>1, <2>2 DEF Decoding, Filling
    <2>3. CASE /\ pc' \in {"element", "no"}
               /\ stack' = Append(stack, [kind |-> kind, item |-> item])
      <3>1. item \in heap
        BY <1>t, <2>1 DEF Items, Filling
      <3>2. /\ Len(stack') = Len(stack) + 1
            /\ \A d \in 1 .. Len(stack) : stack'[d] = stack[d]
            /\ stack'[Len(stack) + 1].item = item
        <4>1. [kind |-> kind, item |-> item] \in Frame
          BY <1>t DEF TypeOK, Frame
        <4>2. QED BY <1>t, <2>3, <4>1
      <3>3. Forest'
        BY <1>t, <2>1 DEF Forest
      <3>4. Heads'
        BY <1>t, <2>1, <3>2 DEF Heads
      <3>5. Outputs'
        BY <1>t, <2>1 DEF Outputs, Decoding
      <3>6. Items'
        BY <1>t, <2>1, <2>3, <3>1, <3>2 DEF Items, Filling, Decoding
      <3>7. QED BY <2>3, <3>3, <3>4, <3>5, <3>6 DEF PointerInv, FailureKeepsNothing
    <2>4. QED BY <1>9, <2>2, <2>3 DEF Open
  <1>10. CASE NewItem
    <2>1. pc = "element" /\ UNCHANGED stack /\ stack # <<>>
      BY <1>10 DEF NewItem, PositionInv, Place
    <2>2. CASE UNCHANGED <<heap, holds, fresh>> /\ pc' = "no"
      BY <1>k, <2>1, <2>2 DEF Decoding, Filling
    <2>3. CASE /\ Allocate(Local("head", Len(stack))) /\ item' = fresh
               /\ pc' \in {"value", "name"}
      <3>1. /\ Local("head", Len(stack)) \in Slot /\ Local("head", Len(stack)).at = "head"
            /\ Local("head", Len(stack)).of = Len(stack)
        BY <1>t, SlotsTyped DEF Local
      <3>2. Len(stack) \in 1 .. Len(stack)
        BY <1>t, <2>1, TopTyped
      <3>3. stack[Len(stack)].item \in heap
        BY <1>t, <2>1, <3>2 DEF Items
      <3>4. fresh \in heap'
        BY <2>3 DEF Allocate
      <3>5. QED BY <1>a, <2>1, <2>3, <3>1, <3>2, <3>3, <3>4 DEF Decoding
    <2>4. QED BY <1>10, <2>2, <2>3 DEF NewItem, AllocateFails
  <1>11. CASE MemberName
    <2>1. CASE ScanString("decodeName")
      BY <1>3, <1>11, <2>1 DEF MemberName, Decoding
    <2>2. CASE pc' = "no" /\ UNCHANGED blocks
      BY <1>11, <1>k, <2>2 DEF MemberName, Decoding, Filling, blocks
    <2>3. QED BY <1>11, <2>1, <2>2 DEF MemberName
  <1>12. CASE AfterElement
    <2>1. pc = "ok" /\ stack # <<>> /\ UNCHANGED <<heap, fresh, item>>
      BY <1>12 DEF AfterElement
    <2>2. CASE pc' \in {"element", "no"} /\ UNCHANGED <<stack, holds>>
      BY <1>k, <2>1, <2>2 DEF Decoding, Filling
    <2>3. CASE /\ Move(Local("head", Len(stack)), Field(Top.item, "child"))
               /\ stack' = Popped /\ pc' = "ok"
      <3> DEFINE from == Local("head", Len(stack))
                 to == Field(Top.item, "child")
      <3>1. /\ Popped \in Seq(Frame) /\ Len(Popped) = Len(stack) - 1
            /\ Len(stack) \in Nat \ {0}
            /\ \A d \in 1 .. Len(stack) - 1 : Popped[d] = stack[d]
        BY <1>t, <2>1, PoppedTyped
      <3>2. Top.item \in heap /\ Top = stack[Len(stack)]
        BY <1>t, <2>1, <3>1 DEF Items, Top
      <3>3. \A b \in Held(from) : Top.item < b
        BY <1>t, <3>2 DEF Held, Heads, Local
      <3>4. IsField(to) /\ to.of = Top.item /\ to.at = "child"
        BY DEF IsField, Field
      <3> HIDE DEF from, to
      <3>5. /\ Forest'
            /\ \A h \in holds' : (h \in holds /\ h.slot # from) \/ h.slot = to
        BY <1>t, <2>1, <2>3, <3>2, <3>3, <3>4, MoveForest DEF from, to
      <3>6. ASSUME NEW h \in holds', h.slot.at = "head"
            PROVE  h.slot.of \in 1 .. Len(stack') /\ stack'[h.slot.of].item < h.block
        <4>1. h \in holds /\ h.slot # from
          BY <3>4, <3>5, <3>6
        <4>2. h.slot.of # Len(stack)
          BY <1>t, <3>6, <4>1, OnlySlot DEF from
        <4>3. h.slot.of \in 1 .. Len(stack) - 1 /\ stack[h.slot.of].item < h.block
          BY <1>t, <3>1, <3>6, <4>1, <4>2 DEF Heads
        <4>4. QED BY <2>3, <3>1, <4>3
      <3>7. Heads'
        BY <3>6 DEF Heads
      <3>8. Outputs'
        BY <1>t, <2>1, <3>4, <3>5 DEF Outputs, Decoding
      <3>9. Items'
        BY <1>t, <2>1, <2>3, <3>1 DEF Items, Filling, Decoding
      <3>10. QED BY <2>3, <3>5, <3>7, <3>8, <3>9 DEF PointerInv, FailureKeepsNothing
    <2>4. QED BY <1>12, <2>2, <2>3 DEF AfterElement
  <1>13. CASE FailFrame
    <2>1. /\ pc = "no" /\ pc' = "no" /\ stack # <<>> /\ stack' = Popped
          /\ Release(Local("head", Len(stack))) /\ UNCHANGED <<item, fresh>>
      BY <1>13 DEF FailFrame
    <2>2. /\ Forest' /\ holds' \subseteq holds
          /\ \A h \in holds' : h.slot # Local("head", Len(stack))
      BY <1>t, <2>1, ReleaseForest
    <2>3. /\ Popped \in Seq(Frame) /\ Len(Popped) = Len(stack) - 1
          /\ Len(stack) \in Nat \ {0}
          /\ \A d \in 1 .. Len(stack) - 1 : Popped[d] = stack[d]
      BY <1>t, <2>1, PoppedTyped
    <2>4. ASSUME NEW h \in holds', h.slot.at = "head"
          PROVE  h.slot.of \in 1 .. Len(stack') /\ stack'[h.slot.of].item < h.block
      <3>1. h \in holds /\ h.slot.of # Len(stack)
        BY <1>t, <2>2, <2>4, OnlySlot
      <3>2. h.slot.of \in 1 .. Len(stack) - 1 /\ stack[h.slot.of].item < h.block
        BY <1>t, <2>3, <2>4, <3>1 DEF Heads
      <3>3. QED BY <2>1, <2>3, <3>2
    <2>5. Heads'
      BY <2>4 DEF Heads
    <2>6. Outputs'
      BY <1>t, <2>1, <2>2 DEF Outputs, Decoding
    <2>7. Items'
      BY <2>1 DEF Items, Filling, Decoding
    <2>8. QED BY <2>1, <2>2, <2>5, <2>6, <2>7 DEF PointerInv, FailureKeepsNothing
  <1>14. CASE Finish
    <2>1. pc = "ok" /\ pc' \in {"no", "parsed"} /\ UNCHANGED <<heap, holds, fresh, stack>>
      BY <1>14 DEF Finish, blocks
    <2>2. QED BY <1>k, <2>1 DEF Decoding, Filling
  <1>15. CASE Fail
    <2>1. /\ pc = "no" /\ pc' = "failed" /\ stack = <<>> /\ UNCHANGED <<stack, item, fresh>>
          /\ Release(Local("root", 0))
      BY <1>15 DEF Fail
    <2>2. /\ Forest' /\ holds' \subseteq holds
          /\ \A h \in holds' : h.slot # Local("root", 0)
      BY <1>t, <2>1, ReleaseForest
    <2>3. heap' = {}
      <3> SUFFICES ASSUME heap' # {} PROVE FALSE
        OBVIOUS
      <3>1. heap' \in SUBSET Nat /\ heap' \subseteq heap
        BY <1>t, <2>1 DEF TypeOK, Release
      <3>2. PICK b \in heap' : \A c \in heap' : b =< c
        BY <3>1, LeastFound
      <3>3. PICK h \in holds' : h.block = b
        BY <2>2 DEF Forest
      <3>4. h \in holds /\ h.slot # Local("root", 0)
        BY <2>2
      <3>5. h.slot.at \notin {"root", "output", "head"}
        <4>1. Len(stack) = 0
          BY <2>1
        <4>2. h.slot.at # "head"
          BY <1>t, <3>4, <4>1 DEF Heads
        <4>3. h.slot.at # "output"
          BY <1>t, <2>1, <3>4 DEF Outputs, Decoding
        <4>4. h.slot.at = "root" => h.slot.of = 0
          BY <1>t, <3>4 DEF Forest
        <4>5. h.slot.at # "root"
          BY <1>t, <3>4, <4>4, OnlySlot
        <4>6. QED BY <4>2, <4>3, <4>5
      <3>6. IsField(h.slot) /\ h.slot.of \in Nat /\ h.block \in Nat
        BY <1>t, <3>4, <3>5, OnlySlot
      <3>7. h.slot.of \in heap' /\ h.slot.of < b
        BY <2>2, <3>3, <3>6 DEF Forest, IsField
      <3>8. b =< h.slot.of /\ b \in Nat /\ h.slot.of \in Nat
        BY <3>1, <3>2, <3>6, <3>7
      <3>9. QED BY <3>7, <3>8
    <2>4. Heads'
      BY <1>t, <2>1, <2>2 DEF Heads
    <2>5. Outputs'
      BY <1>t, <2>1, <2>2 DEF Outputs, Decoding
    <2>6. Items'
      BY <2>1 DEF Items, Filling, Decoding
    <2>7. QED BY <2>1, <2>2, <2>3, <2>4, <2>5, <2>6 DEF PointerInv, FailureKeepsNothing
  <1>16. QED
    BY <1>1, <1>2, <1>4, <1>5, <1>7, <1>8, <1>9, <1>10, <1>11, <1>12, <1>13, <1>14, <1>15
       DEF Next

LEMMA PointerInit == Init => PointerInv
  <1> SUFFICES ASSUME Init PROVE PointerInv
    OBVIOUS
  <1>1. Len(stack) = 0
    BY DEF Init
  <1>2. QED
    BY <1>1
       DEF Init, PointerInv, Forest, Heads, Outputs, Items, Filling, Decoding,
           FailureKeepsNothing

LEMMA PointerNext == PositionInv /\ PointerInv /\ [Next]_vars => PointerInv'
  <1> SUFFICES ASSUME PositionInv, PointerInv, [Next]_vars PROVE PointerInv'
    OBVIOUS
  <1>1. CASE Next
    BY <1>1, PointerStep
  <1>2. CASE UNCHANGED vars
    BY <1>2
       DEF vars, PointerInv, Forest, Heads, Outputs, Items, FailureKeepsNothing
  <1>3. QED BY <1>1, <1>2

(* A forest is held once: what HeldOnce says besides is in Heads and        *)
(* Outputs.                                                                 *)
LEMMA ForestHeld == PositionInv /\ PointerInv => HeldOnce
  <1> SUFFICES ASSUME PositionInv, PointerInv PROVE HeldOnce
    OBVIOUS
  <1>1. Forest /\ Heads /\ Outputs
    BY DEF PointerInv
  <1>2. \A h \in holds :
          /\ h.block \in heap
          /\ h.slot.at \in {"child", "string", "valuestring"} => h.slot.of \in heap
    BY <1>1 DEF Forest, IsField
  <1>3. QED BY <1>1, <1>2 DEF Forest, Heads, Outputs, HeldOnce, Decoding

-----------------------------------------------------------------------------
(* What is reported.                                                        *)

LEMMA ReportInit == Init => ReportInv
  BY DEF Init, ReportInv, ErrorReported

LEMMA ReportNext == PositionInv /\ ReportInv /\ [Next]_vars => ReportInv'
  <1> SUFFICES ASSUME PositionInv, ReportInv, [Next]_vars PROVE ReportInv'
    OBVIOUS
  <1>t. /\ TypeOK /\ ReadsInside /\ text \in Texts /\ ErrorReported
        /\ text # <<>> => length \in Nat \ {0}
    BY TerminatorLast DEF PositionInv, Place, ReportInv
  <1>1. CASE Start
    BY <1>1 DEF Start, ReportInv, ErrorReported
  <1>2. CASE Finish
    <2>1. /\ pc = "ok" /\ text # <<>> /\ offset \in 1 .. length - 1
          /\ UNCHANGED <<call, globalError>> /\ globalError = None /\ parseEnd = None
      BY <1>2, <1>t DEF Finish, ReportInv, PositionInv, Place, ReadsInside
    <2>2. Skip(offset) \in 1 .. length - 1
      BY <1>t, <2>1, SkipPlace
    <2>3. CASE pc' = "no" /\ UNCHANGED parseEnd
      BY <2>1, <2>3 DEF ReportInv, ErrorReported
    <2>4. CASE /\ pc' = "parsed"
               /\ parseEnd' = IF wantEnd
                              THEN IF requireNul THEN Skip(offset) ELSE offset
                              ELSE parseEnd
      <3>1. length' = length /\ wantEnd' = wantEnd
        BY <2>1 DEF call, length
      <3>2. QED BY <2>1, <2>2, <2>4, <3>1 DEF ReportInv, ErrorReported
    <2>5. QED BY <1>2, <2>3, <2>4 DEF Finish
  <1>3. CASE Fail
    <2>1. /\ pc = "no" /\ pc' = "failed" /\ UNCHANGED <<call, offset>>
          /\ globalError = None /\ parseEnd = None
      BY <1>3 DEF Fail, ReportInv
    <2>2. text' = text /\ length' = length /\ wantEnd' = wantEnd
      BY <2>1 DEF call, length
    <2>3. text # <<>> => ErrorPosition \in 0 .. length - 1
      BY <1>t, <2>1 DEF ErrorPosition, ReadsInside
    <2>4. QED BY <1>3, <2>1, <2>2, <2>3 DEF Fail, results, ReportInv, ErrorReported
  <1>4. CASE /\ UNCHANGED results /\ pc \notin {"start", "parsed", "failed"}
             /\ pc' \notin {"start", "parsed", "failed"}
    BY <1>4 DEF ReportInv, ErrorReported, results
  <1>5. CASE UNCHANGED vars
    BY <1>5 DEF vars, ReportInv, ErrorReported, length
  <1>6. QED
    BY <1>1, <1>2, <1>3, <1>4, <1>5
       DEF Next, Scalar, StringValue, BadString, DecodeValue, Open, NewItem, MemberName,
           DecodeName, SwapName, AfterElement, FailFrame, ScanString

-----------------------------------------------------------------------------
(* The theorems.                                                            *)

Inv == PositionInv /\ PointerInv /\ ReportInv

LEMMA Invariant == Spec => []Inv
  <1>1. Init => Inv
    BY PositionInit, PointerInit, ReportInit DEF Inv
  <1>2. Inv /\ [Next]_vars => Inv'
    BY PositionStep, PointerNext, ReportNext DEF Inv
  <1>3. QED BY <1>1, <1>2, PTL DEF Spec

(* Every variable keeps its type, for every text.                           *)
THEOREM TypeCorrect == Spec => []TypeOK
  <1>1. Inv => TypeOK
    BY DEF Inv, PositionInv
  <1>2. QED BY <1>1, Invariant, PTL

(* The parser never reads beyond the terminator of the text, whatever the   *)
(* text: buffer_at_offset is dereferenced without a check in parse_value    *)
(* and parse_string.                                                        *)
THEOREM NeverReadsOutside == Spec => []ReadsInside
  <1>1. Inv => ReadsInside
    BY DEF Inv, PositionInv, Place
  <1>2. QED BY <1>1, Invariant, PTL

(* CJSON_NESTING_LIMIT, whatever it is, bounds the frames of parse_array    *)
(* and parse_object, and the depth is right until the parse fails.          *)
THEOREM NestingLimited == Spec => []DepthBounded
  <1>1. Inv => DepthBounded
    BY DEF Inv, PositionInv, Place
  <1>2. QED BY <1>1, Invariant, PTL

(* At every step of a parse every block has exactly one pointer to it, in   *)
(* an active frame or in an item that is allocated.                         *)
THEOREM OnePointer == Spec => []HeldOnce
  <1>1. Inv => HeldOnce
    BY ForestHeld DEF Inv
  <1>2. QED BY <1>1, Invariant, PTL

(* A parse that fails, wherever it fails and whatever allocation failed,    *)
(* has freed all it allocated.                                              *)
THEOREM FailureFreesAll == Spec => []FailureKeepsNothing
  <1>1. Inv => FailureKeepsNothing
    BY DEF Inv, PointerInv
  <1>2. QED BY <1>1, Invariant, PTL

(* A failed parse reports a position inside the text in one place only, and *)
(* a successful one clears the global error.                                *)
THEOREM ErrorPlaceRight == Spec => []ErrorReported
  <1>1. Inv => ErrorReported
    BY DEF Inv, ReportInv
  <1>2. QED BY <1>1, Invariant, PTL
=============================================================================
