----------------------------- MODULE TextProofs -----------------------------
(***************************************************************************)
(* Proofs about the work in place of cJSON_Minify and about the block that *)
(* parse_string measures beforehand, for every text.                       *)
(***************************************************************************)
EXTENDS TextPipeline, FiniteSetTheorems, TLAPS

IsSequence(s) == \E R : s \in Seq(R)

-----------------------------------------------------------------------------
(* Minify *)

MinifyInv ==
    phase = "minify" =>
        /\ IsSequence(text) /\ Len(text) > 0
        /\ json \in Nat /\ into \in Nat /\ 1 =< into /\ into =< json
        /\ loop # "done" /\ json =< Len(text) => text[Len(text)] = Nul
        /\ loop = "done" => json =< Len(text)

InPlaceInv == MinifiedInPlace /\ (given.task = "minify" => phase = "minify")

-----------------------------------------------------------------------------
(* parse_string *)

(* e[i] counts the escapes before i in a text of which the first pass has    *)
(* read what comes before n and met k escapes: two of them never touch.     *)
Counts(e, t, n, k) ==
    /\ e \in [Nat -> Nat] /\ e[2] = 0 /\ e[n] = k
    /\ \A i \in Nat : i >= 2 =>
          /\ e[i] =< e[i + 1] /\ e[i + 1] =< e[i] + 1 /\ e[i + 2] =< e[i] + 1
          /\ t[i] # Backslash => e[i + 1] = e[i]
    /\ \A i, j \in Nat : 2 =< i /\ i =< j => e[i] =< e[j] /\ e[j] =< e[i] + (j - i)
    /\ \A i \in Nat : i >= n => e[i] = e[n]

ScanInv ==
    phase = "scan" =>
        /\ end \in Nat /\ 2 =< end /\ end =< Len(text) + 1
        /\ pos = 2 /\ output = <<>>
        /\ \E e : Counts(e, text, end, skipped) /\ (end > 2 => e[end - 1] = e[end])

DecodeInv ==
    phase = "decode" =>
        /\ end \in Nat /\ 2 =< end /\ end =< Len(text)
        /\ pos \in Nat /\ 2 =< pos /\ pos =< end + 1
        /\ room = end - skipped
        /\ IsSequence(output)
        /\ \E e : Counts(e, text, end, skipped) /\ Len(output) + e[pos] =< pos - 2

StartInv ==
    phase \in {"minify", "begin"} => skipped = 0 /\ output = <<>>

ParseInv ==
    /\ phase # "minify" => IsSequence(text) /\ Len(text) > 0
    /\ StartInv /\ ScanInv /\ DecodeInv /\ OutputFits

-----------------------------------------------------------------------------
LEMMA SequenceLen ==
    ASSUME NEW s, IsSequence(s)
    PROVE  Len(s) \in Nat /\ s = [i \in 1..Len(s) |-> s[i]]
  BY DEF IsSequence

LEMMA AppendLen ==
    ASSUME NEW s, IsSequence(s), NEW x
    PROVE  IsSequence(Append(s, x)) /\ Len(Append(s, x)) = Len(s) + 1
  <1>1. PICK R : s \in Seq(R)
    BY DEF IsSequence
  <1>2. s \in Seq(R \cup {x}) /\ x \in R \cup {x}
    BY <1>1
  <1>3. Append(s, x) \in Seq(R \cup {x}) /\ Len(Append(s, x)) = Len(s) + 1
    BY <1>2
  <1>4. QED BY <1>3 DEF IsSequence

LEMMA ConcatLen ==
    ASSUME NEW s, IsSequence(s), NEW t, IsSequence(t)
    PROVE  IsSequence(s \o t) /\ Len(s \o t) = Len(s) + Len(t)
           /\ \A i \in 1..Len(t) : (s \o t)[Len(s) + i] = t[i]
  <1>1. PICK R : s \in Seq(R)
    BY DEF IsSequence
  <1>2. PICK Q : t \in Seq(Q)
    BY DEF IsSequence
  <1>3. s \in Seq(R \cup Q) /\ t \in Seq(R \cup Q)
    BY <1>1, <1>2
  <1>4. /\ s \o t \in Seq(R \cup Q) /\ Len(s \o t) = Len(s) + Len(t)
        /\ \A i \in 1..Len(t) : (s \o t)[Len(s) + i] = t[i]
    BY <1>3
  <1>5. QED BY <1>4 DEF IsSequence

(* Any list of n values. *)
LEMMA ListLen ==
    ASSUME NEW n \in Nat, NEW s, DOMAIN s = 1..n, s = [i \in 1..n |-> s[i]]
    PROVE  IsSequence(s) /\ Len(s) = n
  <1> DEFINE R == {s[i] : i \in 1..n}
  <1>1. s \in [1..n -> R]
    OBVIOUS
  <1> HIDE DEF R
  <1>2. s \in Seq(R) /\ Len(s) = n
    BY <1>1
  <1>3. QED BY <1>2 DEF IsSequence

(* utf16_literal_to_utf8 writes no more than four bytes, three for a single *)
(* literal.                                                                 *)
LEMMA Utf8Len ==
    ASSUME NEW codepoint
    PROVE  /\ IsSequence(Utf8(codepoint)) /\ Len(Utf8(codepoint)) \in 1..4
           /\ codepoint < 65536 => Len(Utf8(codepoint)) =< 3
  <1> DEFINE length == CASE codepoint < 128   -> 1
                         [] codepoint < 2048  -> 2
                         [] codepoint < 65536 -> 3
                         [] OTHER -> 4
  <1>1. length \in 1..4 /\ (codepoint < 65536 => length =< 3)
    OBVIOUS
  <1>2. DOMAIN Utf8(codepoint) = 1..length
        /\ Utf8(codepoint) = [i \in 1..length |-> Utf8(codepoint)[i]]
    BY DEF Utf8
  <1> HIDE DEF length
  <1>3. IsSequence(Utf8(codepoint)) /\ Len(Utf8(codepoint)) = length
    BY <1>1, <1>2, ListLen
  <1>4. QED BY <1>1, <1>3

LEMMA HexBound ==
    ASSUME NEW i
    PROVE  ParseHex4(i) \in Nat /\ ParseHex4(i) < 65536
  <1> DEFINE d == [k \in 0..3 |-> HexDigit(text[i + k])]
  <1>1. \A byte : HexDigit(byte) \in 0..16
    <2> SUFFICES ASSUME NEW byte PROVE HexDigit(byte) \in 0..16
      OBVIOUS
    <2>1. CASE byte \in 48..57
      BY <2>1 DEF HexDigit
    <2>2. CASE byte \in 65..70
      BY <2>2 DEF HexDigit
    <2>3. CASE byte \in 97..102
      BY <2>3 DEF HexDigit
    <2>4. CASE byte \notin 48..57 /\ byte \notin 65..70 /\ byte \notin 97..102
      BY <2>4 DEF HexDigit
    <2>5. QED BY <2>1, <2>2, <2>3, <2>4
  <1>2. d \in [0..3 -> 0..16]
    BY <1>1
  <1>3. ParseHex4(i) = IF \E k \in 0..3 : d[k] = 16 THEN 0
                       ELSE 4096 * d[0] + 256 * d[1] + 16 * d[2] + d[3]
    BY DEF ParseHex4
  <1> HIDE DEF d
  <1>4. CASE \E k \in 0..3 : d[k] = 16
    BY <1>3, <1>4
  <1>5. CASE ~ \E k \in 0..3 : d[k] = 16
    <2>1. \A k \in 0..3 : d[k] \in 0..15
      BY <1>2, <1>5
    <2>2. d[0] \in 0..15 /\ d[1] \in 0..15 /\ d[2] \in 0..15 /\ d[3] \in 0..15
      BY <2>1
    <2>3. /\ 4096 * d[0] \in Nat /\ 4096 * d[0] =< 61440
          /\ 256 * d[1] \in Nat /\ 256 * d[1] =< 3840
          /\ 16 * d[2] \in Nat /\ 16 * d[2] =< 240
      BY <2>2
    <2>4. QED BY <1>3, <1>5, <2>2, <2>3
  <1>6. QED BY <1>4, <1>5

(* A literal that is accepted lies before the closing quote.                *)
LEMMA Utf16Len ==
    ASSUME NEW i \in Nat, end \in Nat, i < end
    PROVE  \/ Utf16(i).length = 0
           \/ /\ Utf16(i).length = 6 /\ i + 6 =< end
              /\ IsSequence(Utf16(i).bytes) /\ Len(Utf16(i).bytes) \in 1..3
           \/ /\ Utf16(i).length = 12 /\ i + 12 =< end
              /\ IsSequence(Utf16(i).bytes) /\ Len(Utf16(i).bytes) \in 1..4
  <1> DEFINE first == ParseHex4(i + 2)
             second == ParseHex4(i + 8)
             single == Literal(6, Utf8(first))
             pair == Literal(12, Utf8(Pair(first, second)))
  <1>1. \/ Utf16(i) = BadLiteral
        \/ Utf16(i) = single /\ ~ (end - i < 6)
        \/ Utf16(i) = pair /\ ~ (end - i < 12)
    BY DEF Utf16
  <1>2. BadLiteral.length = 0
    BY DEF BadLiteral, Literal
  <1>3. single.length = 6 /\ single.bytes = Utf8(first)
        /\ pair.length = 12 /\ pair.bytes = Utf8(Pair(first, second))
    BY DEF Literal
  <1>4. IsSequence(Utf8(first)) /\ Len(Utf8(first)) \in 1..3
    <2>1. first < 65536
      BY HexBound
    <2>2. QED BY <2>1, Utf8Len
  <1>5. IsSequence(Utf8(Pair(first, second))) /\ Len(Utf8(Pair(first, second))) \in 1..4
    BY Utf8Len
  <1> HIDE DEF first, second, single, pair
  <1>6. QED BY <1>1, <1>2, <1>3, <1>4, <1>5

-----------------------------------------------------------------------------
(* How many escapes can lie in a few bytes.                                 *)
LEMMA CountsFew ==
    ASSUME NEW t, NEW n, NEW k, NEW e, Counts(e, t, n, k), NEW i \in Nat, i >= 2
    PROVE  /\ e[i] \in Nat
           /\ t[i] # Backslash => e[i + 1] = e[i]
           /\ e[i + 1] \in Nat /\ e[i] =< e[i + 1] /\ e[i + 1] =< e[i] + 1
           /\ e[i + 2] \in Nat /\ e[i + 2] =< e[i] + 1
           /\ e[i + 6] \in Nat /\ e[i + 6] =< e[i] + 3
           /\ e[i + 12] \in Nat /\ e[i + 12] =< e[i] + 6
  <1>1. \A j \in Nat : e[j] \in Nat
    BY DEF Counts
  <1>2. \A j \in Nat : j >= 2 => e[j + 2] =< e[j] + 1
    BY DEF Counts
  <1>3. e[i + 2] =< e[i] + 1 /\ e[i + 4] =< e[i + 2] + 1 /\ e[i + 6] =< e[i + 4] + 1
        /\ e[i + 8] =< e[i + 6] + 1 /\ e[i + 10] =< e[i + 8] + 1 /\ e[i + 12] =< e[i + 10] + 1
    <2>1. \A j \in {i, i + 2, i + 4, i + 6, i + 8, i + 10} : j \in Nat /\ j >= 2
      OBVIOUS
    <2>2. (i + 2) + 2 = i + 4 /\ (i + 4) + 2 = i + 6 /\ (i + 6) + 2 = i + 8
          /\ (i + 8) + 2 = i + 10 /\ (i + 10) + 2 = i + 12
      OBVIOUS
    <2>3. QED BY <1>2, <2>1, <2>2
  <1>4. e[i] \in Nat /\ e[i + 1] \in Nat /\ e[i + 2] \in Nat /\ e[i + 4] \in Nat
        /\ e[i + 6] \in Nat /\ e[i + 8] \in Nat /\ e[i + 10] \in Nat /\ e[i + 12] \in Nat
    BY <1>1
  <1>5. e[i] =< e[i + 1] /\ e[i + 1] =< e[i] + 1 /\ (t[i] # Backslash => e[i + 1] = e[i])
    BY DEF Counts
  <1>6. QED BY <1>3, <1>4, <1>5

(* The first byte of a string: nothing was counted.                         *)
LEMMA CountsNone ==
    ASSUME NEW t
    PROVE  Counts([i \in Nat |-> 0], t, 2, 0)
  BY DEF Counts

(* The first pass goes on by one byte, or meets an escape.                  *)
LEMMA CountsByte ==
    ASSUME NEW t, NEW n \in Nat, n >= 2, NEW k, NEW e, Counts(e, t, n, k)
    PROVE  Counts(e, t, n + 1, k) /\ e[n] = e[n + 1]
  <1>1. e[n + 1] = e[n]
    BY DEF Counts
  <1>2. \A i \in Nat : i >= n + 1 => e[i] = e[n + 1]
    BY <1>1 DEF Counts
  <1>3. Counts(e, t, n + 1, k)
    BY <1>1, <1>2 DEF Counts
  <1>4. QED BY <1>1, <1>3

LEMMA CountsEscape ==
    ASSUME NEW t, NEW n \in Nat, n >= 2, NEW k, NEW e, Counts(e, t, n, k),
           t[n] = Backslash, n > 2 => e[n - 1] = e[n]
    PROVE  \E f : Counts(f, t, n + 2, k + 1) /\ f[n + 1] = f[n + 2]
  <1> DEFINE f == [i \in Nat |-> IF i =< n THEN e[i] ELSE e[i] + 1]
  <1>1. e \in [Nat -> Nat]
    BY DEF Counts
  <1>2. f \in [Nat -> Nat]
    BY <1>1
  <1>3. \A i \in Nat : i =< n => f[i] = e[i]
    OBVIOUS
  <1>4. \A i \in Nat : i > n => f[i] = e[n] + 1
    BY DEF Counts
  <1> HIDE DEF f
  <1>5. e[n] \in Nat /\ e[n] = k
    BY <1>1 DEF Counts
  <1>6. f[2] = 0 /\ f[n + 2] = k + 1 /\ f[n + 1] = f[n + 2]
    <2>1. f[2] = 0
      BY <1>3 DEF Counts
    <2>2. f[n + 2] = e[n] + 1 /\ f[n + 1] = e[n] + 1
      BY <1>4
    <2>3. QED BY <1>5, <2>1, <2>2
  <1>7. ASSUME NEW i \in Nat, i >= 2
        PROVE  /\ f[i] =< f[i + 1] /\ f[i + 1] =< f[i] + 1 /\ f[i + 2] =< f[i] + 1
               /\ t[i] # Backslash => f[i + 1] = f[i]
    <2>1. /\ e[i] \in Nat /\ e[i + 1] \in Nat /\ e[i + 2] \in Nat
          /\ e[i] =< e[i + 1] /\ e[i + 1] =< e[i] + 1 /\ e[i + 2] =< e[i] + 1
          /\ t[i] # Backslash => e[i + 1] = e[i]
      BY <1>7, CountsFew
    <2>2. CASE i + 2 =< n
      <3>1. f[i] = e[i] /\ f[i + 1] = e[i + 1] /\ f[i + 2] = e[i + 2]
        BY <1>3, <2>2
      <3>2. QED BY <2>1, <3>1
    <2>3. CASE i + 1 = n
      <3>1. f[i] = e[i] /\ f[i + 1] = e[i + 1] /\ f[i + 2] = e[n] + 1 /\ e[i] = e[n]
            /\ e[i + 1] = e[n]
        <4>1. i = n - 1 /\ n > 2 /\ i =< n /\ i + 1 =< n /\ i + 2 > n
          BY <1>7, <2>3
        <4>2. QED BY <1>3, <1>4, <4>1
      <3>2. QED BY <1>5, <2>1, <3>1
    <2>4. CASE i = n
      <3>1. f[i] = e[n] /\ f[i + 1] = e[n] + 1 /\ f[i + 2] = e[n] + 1
        BY <1>3, <1>4, <2>4
      <3>2. QED BY <1>5, <2>4, <3>1
    <2>5. CASE i > n
      <3>1. f[i] = e[n] + 1 /\ f[i + 1] = e[n] + 1 /\ f[i + 2] = e[n] + 1
        BY <1>4, <2>5
      <3>2. QED BY <1>5, <3>1
    <2>6. QED BY <2>2, <2>3, <2>4, <2>5
  <1>8. ASSUME NEW i \in Nat, NEW j \in Nat, 2 =< i, i =< j
        PROVE  f[i] =< f[j] /\ f[j] =< f[i] + (j - i)
    <2>1. \A a, b \in Nat : 2 =< a /\ a =< b => e[a] =< e[b] /\ e[b] =< e[a] + (b - a)
      BY DEF Counts
    <2>2. e[i] \in Nat /\ e[j] \in Nat
      BY <1>1
    <2>3. CASE j =< n
      <3>1. f[i] = e[i] /\ f[j] = e[j]
        BY <1>3, <1>8, <2>3
      <3>2. QED BY <1>8, <2>1, <3>1
    <2>4. CASE i =< n /\ j > n
      <3>1. f[i] = e[i] /\ f[j] = e[n] + 1 /\ e[i] =< e[n] /\ e[n] =< e[i] + (n - i)
        BY <1>3, <1>4, <1>8, <2>1, <2>4
      <3>2. QED BY <1>5, <2>2, <2>4, <3>1
    <2>5. CASE i > n
      <3>1. f[i] = e[n] + 1 /\ f[j] = e[n] + 1
        BY <1>4, <1>8, <2>5
      <3>2. QED BY <1>5, <1>8, <3>1
    <2>6. QED BY <2>3, <2>4, <2>5
  <1>9. \A i \in Nat : i >= n + 2 => f[i] = f[n + 2]
    BY <1>4
  <1>10. Counts(f, t, n + 2, k + 1)
    <2>1. f \in [Nat -> Nat] /\ f[2] = 0 /\ f[n + 2] = k + 1
      BY <1>2, <1>6
    <2>2. \A i \in Nat : i >= 2 =>
          /\ f[i] =< f[i + 1] /\ f[i + 1] =< f[i] + 1 /\ f[i + 2] =< f[i] + 1
          /\ t[i] # Backslash => f[i + 1] = f[i]
      BY <1>7
    <2>3. \A i, j \in Nat : 2 =< i /\ i =< j => f[i] =< f[j] /\ f[j] =< f[i] + (j - i)
      BY <1>8
    <2>4. \A i \in Nat : i >= n + 2 => f[i] = f[n + 2]
      BY <1>9
    <2>5. QED BY <2>1, <2>2, <2>3, <2>4 DEF Counts
  <1>11. QED BY <1>6, <1>10

-----------------------------------------------------------------------------
(* The steps of cJSON_Minify.                                               *)

Unread(n) == \A i \in json + n..Len(text) : text'[i] = text[i]

(* What every turn of a loop does, n bytes further on.                      *)
Advances(n) ==
    /\ DOMAIN text' = DOMAIN text /\ IsSequence(text') /\ Len(text') = Len(text)
    /\ json' = json + n /\ into' \in Nat /\ 1 =< into' /\ into' =< json'
    /\ Unread(n)

LEMMA CopyAdvances ==
    ASSUME IsSequence(text), json \in Nat, into \in Nat, 1 =< into, into =< json,
           NEW n \in 1..2, M!CopyBytes(n)
    PROVE  Advances(n)
  <1>1. Len(text) \in Nat /\ DOMAIN text = 1..Len(text)
    BY SequenceLen DEF IsSequence
  <1>2. /\ text' = [i \in 1..Len(text) |-> IF i \in into..into + n - 1
                                           THEN text[json + i - into] ELSE text[i]]
        /\ into' = into + n /\ json' = json + n
    BY <1>1 DEF M!CopyBytes
  <1>3. DOMAIN text' = 1..Len(text) /\ text' = [i \in 1..Len(text) |-> text'[i]]
    BY <1>2
  <1>4. IsSequence(text') /\ Len(text') = Len(text)
    BY <1>1, <1>3, ListLen
  <1>5. Unread(n)
    <2> SUFFICES ASSUME NEW i \in json + n..Len(text)
                 PROVE  text'[i] = text[i]
      BY DEF Unread
    <2>1. i \in 1..Len(text) /\ i \notin into..into + n - 1
      BY <1>1
    <2>2. QED BY <1>2, <2>1
  <1>6. into' \in Nat /\ 1 =< into' /\ into' =< json'
    BY <1>2
  <1>7. QED BY <1>1, <1>2, <1>3, <1>4, <1>5, <1>6 DEF Advances

LEMMA SkipAdvances ==
    ASSUME IsSequence(text), json \in Nat, into \in Nat, 1 =< into, into =< json,
           NEW n \in Nat, json' = json + n, UNCHANGED <<text, into>>
    PROVE  Advances(n)
  BY DEF Advances, Unread

(* A turn of a loop goes on by up to two bytes; the last one stays.         *)
LEMMA StepAdvances ==
    ASSUME phase = "minify", MinifyInv, M!MinifyStep
    PROVE  /\ loop # "done"
           /\ \/ /\ json =< Len(text)
                 /\ \E n \in 0..2 : Advances(n) /\ (loop' = "done" => n = 0)
              \/ /\ ~(json =< Len(text))
                 /\ loop' = "outside" /\ UNCHANGED <<text, json, into>>
  <1>1. IsSequence(text) /\ json \in Nat /\ into \in Nat /\ 1 =< into /\ into =< json
    BY DEF MinifyInv
  <1> USE DEF M!Inside, M!Skip
  <1>2. CASE M!Blank
    BY <1>1, <1>2, SkipAdvances DEF M!Blank
  <1>3. CASE M!CommentStart
    <2>1. loop # "done" /\ loop' # "done" /\ json' = json + 0 /\ json =< Len(text)
          /\ UNCHANGED <<text, into>>
      BY <1>1, <1>3 DEF M!CommentStart
    <2>2. Advances(0)
      BY <1>1, <2>1, SkipAdvances
    <2>3. QED BY <2>1, <2>2
  <1>4. CASE M!LineComment
    <2>1. loop # "done" /\ loop' # "done" /\ json =< Len(text) /\ UNCHANGED <<text, into>>
          /\ (json' = json + 1 \/ json' = json + 0)
      BY <1>1, <1>4 DEF M!LineComment
    <2>2. Advances(0) \/ Advances(1)
      BY <1>1, <2>1, SkipAdvances
    <2>3. QED BY <2>1, <2>2
  <1>5. CASE M!BlockComment
    <2>1. loop # "done" /\ loop' # "done" /\ json =< Len(text) /\ UNCHANGED <<text, into>>
          /\ (json' = json + 1 \/ json' = json + 2)
      BY <1>1, <1>5 DEF M!BlockComment
    <2>2. Advances(1) \/ Advances(2)
      BY <1>1, <2>1, SkipAdvances
    <2>3. QED BY <2>1, <2>2
  <1>6. CASE M!StringStart \/ M!StringEnd \/ M!OtherByte
    <2>1. loop # "done" /\ loop' # "done" /\ json =< Len(text) /\ M!CopyBytes(1)
      BY <1>6 DEF M!StringStart, M!StringEnd, M!OtherByte
    <2>2. Advances(1)
      BY <1>1, <2>1, CopyAdvances
    <2>3. QED BY <2>1, <2>2
  <1>7. CASE M!StringByte
    <2>1. loop # "done" /\ loop' # "done" /\ json =< Len(text)
          /\ (M!CopyBytes(1) \/ M!CopyBytes(2))
      BY <1>7 DEF M!StringByte, M!CopiedAtOnce
    <2>2. Advances(1) \/ Advances(2)
      BY <1>1, <2>1, CopyAdvances
    <2>3. QED BY <2>1, <2>2
  <1>8. CASE M!Terminate
    <2>1. loop # "done" /\ json =< Len(text) /\ text' = [text EXCEPT ![into] = 0]
          /\ text[json] = 0 /\ UNCHANGED <<json, into>>
      BY <1>8 DEF M!Terminate, M!Byte
    <2>2. Len(text) \in Nat /\ DOMAIN text = 1..Len(text)
      BY <1>1, SequenceLen DEF IsSequence
    <2>3. DOMAIN text' = 1..Len(text) /\ text' = [i \in 1..Len(text) |-> text'[i]]
      BY <2>1, <2>2
    <2>4. IsSequence(text') /\ Len(text') = Len(text)
      BY <2>2, <2>3, ListLen
    <2>5. \A i \in json + 0..Len(text) : text'[i] = text[i]
      <3> SUFFICES ASSUME NEW i \in json + 0..Len(text)
                   PROVE  text'[i] = text[i]
        OBVIOUS
      <3>1. i \in 1..Len(text) /\ (i = into => i = json)
        BY <1>1, <2>2
      <3>2. QED BY <2>1, <2>2, <3>1
    <2>6. Advances(0)
      BY <1>1, <2>1, <2>2, <2>3, <2>4, <2>5 DEF Advances, Unread
    <2>7. QED BY <2>1, <2>6
  <1>9. CASE M!RunOver
    BY <1>9 DEF M!RunOver
  <1>10. QED BY <1>2, <1>3, <1>4, <1>5, <1>6, <1>7, <1>8, <1>9 DEF M!MinifyStep

LEMMA MinifyStepKeeps ==
    ASSUME MinifyInv, InPlaceInv, Minifying
    PROVE  MinifyInv' /\ InPlaceInv' /\ phase' = "minify"
  <1>1. phase = "minify" /\ phase' = "minify" /\ given' = given /\ M!MinifyStep
    BY DEF Minifying
  <1>2. /\ IsSequence(text) /\ Len(text) > 0 /\ Len(text) \in Nat
        /\ json \in Nat /\ into \in Nat /\ 1 =< into /\ into =< json
        /\ loop # "done" /\ json =< Len(text) => text[Len(text)] = Nul
    BY <1>1, SequenceLen DEF MinifyInv
  <1>3. loop # "done"
    BY <1>1, StepAdvances
  <1>4. CASE /\ json =< Len(text)
             /\ \E n \in 0..2 : Advances(n) /\ (loop' = "done" => n = 0)
    <2>1. PICK n \in 0..2 : Advances(n) /\ (loop' = "done" => n = 0)
      BY <1>4
    <2>2. /\ IsSequence(text') /\ Len(text') = Len(text) /\ json' = json + n
          /\ into' \in Nat /\ 1 =< into' /\ into' =< json' /\ json' \in Nat
          /\ \A i \in json'..Len(text') : text'[i] = text[i]
      BY <1>2, <2>1 DEF Advances, Unread
    <2>3. json' =< Len(text') => text'[Len(text')] = Nul
      BY <1>2, <1>3, <1>4, <2>2
    <2>4. loop' = "done" => json' =< Len(text')
      BY <1>2, <1>4, <2>1, <2>2
    <2>5. MinifyInv'
      BY <1>2, <2>2, <2>3, <2>4 DEF MinifyInv
    <2>6. ASSUME given.task = "minify"
          PROVE  LET original == Append(given.content, Nul)
                 IN  /\ Len(text') = Len(original)
                     /\ \A i \in json'..Len(text') : text'[i] = original[i]
      <3> DEFINE original == Append(given.content, Nul)
      <3>1. Len(text) = Len(original) /\ \A i \in json..Len(text) : text[i] = original[i]
        BY <2>6 DEF InPlaceInv, MinifiedInPlace
      <3>2. \A i \in json'..Len(text') : i \in json..Len(text)
        BY <1>2, <2>2
      <3> HIDE DEF original
      <3>3. Len(text') = Len(original) /\ \A i \in json'..Len(text') : text'[i] = original[i]
        BY <2>2, <3>1, <3>2
      <3>4. QED BY <3>3 DEF original
    <2>7. MinifiedInPlace'
      BY <1>1, <2>2, <2>6 DEF MinifiedInPlace
    <2>8. QED BY <1>1, <2>5, <2>7 DEF InPlaceInv
  <1>5. CASE /\ ~(json =< Len(text))
             /\ loop' = "outside" /\ UNCHANGED <<text, json, into>>
    BY <1>1, <1>2, <1>5 DEF MinifyInv, InPlaceInv, MinifiedInPlace
  <1>6. QED BY <1>1, <1>4, <1>5, StepAdvances

-----------------------------------------------------------------------------
(* The steps of parse_string.                                               *)

(* What every step of it starts from.                                       *)
LEMMA TextStays ==
    ASSUME ParseInv, phase # "minify", text' = text
    PROVE  IsSequence(text') /\ Len(text') > 0 /\ Len(text) \in Nat
  BY SequenceLen DEF ParseInv

LEMMA FailKeeps ==
    ASSUME ParseInv, phase # "minify", Fail
    PROVE  ParseInv' /\ phase' # "minify"
  BY TextStays DEF Fail, ParseInv, StartInv, ScanInv, DecodeInv, OutputFits

LEMMA FirstByteKeeps ==
    ASSUME ParseInv, FirstByte
    PROVE  ParseInv' /\ phase' # "minify"
  <1>1. phase # "minify"
    BY DEF FirstByte
  <1>2. CASE Fail
    BY <1>1, <1>2, FailKeeps
  <1>3. CASE /\ phase' = "scan" /\ pos' = 2 /\ end' = 2
             /\ UNCHANGED <<text, skipped, room, output>>
    <2>1. skipped' = 0 /\ output' = <<>>
      BY <1>3 DEF FirstByte, ParseInv, StartInv
    <2>2. \E e : Counts(e, text', end', skipped') /\ (end' > 2 => e[end' - 1] = e[end'])
      BY <1>3, <2>1, CountsNone
    <2>3. IsSequence(text') /\ Len(text') > 0 /\ Len(text') \in Nat
      BY <1>1, <1>3, TextStays
    <2>4. QED BY <1>3, <2>1, <2>2, <2>3 DEF ParseInv, StartInv, ScanInv, DecodeInv, OutputFits
  <1>4. QED BY <1>2, <1>3 DEF FirstByte

LEMMA ScanKeeps ==
    ASSUME ParseInv, Scan
    PROVE  ParseInv' /\ phase' # "minify"
  <1>1. phase = "scan" /\ end \in Nat /\ 2 =< end /\ end =< Len(text) /\ pos = 2 /\ output = <<>>
    BY DEF Scan, ParseInv, ScanInv
  <1>2. PICK e : Counts(e, text, end, skipped) /\ (end > 2 => e[end - 1] = e[end])
    BY <1>1 DEF ParseInv, ScanInv
  <1>3. CASE Fail
    BY <1>1, <1>3, FailKeeps
  <1>4. CASE /\ text[end] = Backslash /\ ~(end + 1 > Len(text))
             /\ end' = end + 2 /\ skipped' = skipped + 1
             /\ UNCHANGED <<text, phase, pos, room, output>>
    <2>1. IsSequence(text') /\ Len(text') > 0 /\ Len(text') \in Nat
      BY <1>1, <1>4, TextStays
    <2>2. PICK f : Counts(f, text, end + 2, skipped + 1) /\ f[end + 1] = f[end + 2]
      BY <1>1, <1>2, <1>4, CountsEscape
    <2>3. end' \in Nat /\ 2 =< end' /\ end' =< Len(text') + 1 /\ end' - 1 = end + 1
      BY <1>1, <1>4, <2>1
    <2>4. \E g : Counts(g, text', end', skipped') /\ (end' > 2 => g[end' - 1] = g[end'])
      BY <1>4, <2>2, <2>3
    <2>5. QED BY <1>1, <1>4, <2>1, <2>3, <2>4
              DEF ParseInv, StartInv, ScanInv, DecodeInv, OutputFits
  <1>5. CASE end' = end + 1 /\ UNCHANGED <<text, phase, pos, skipped, room, output>>
    <2>1. IsSequence(text') /\ Len(text') > 0 /\ Len(text') \in Nat
      BY <1>1, <1>5, TextStays
    <2>2. Counts(e, text, end + 1, skipped) /\ e[end] = e[end + 1]
      BY <1>1, <1>2, CountsByte
    <2>3. end' \in Nat /\ 2 =< end' /\ end' =< Len(text') + 1 /\ end' - 1 = end
      BY <1>1, <1>5, <2>1
    <2>4. \E g : Counts(g, text', end', skipped') /\ (end' > 2 => g[end' - 1] = g[end'])
      BY <1>5, <2>2, <2>3
    <2>5. QED BY <1>1, <1>5, <2>1, <2>3, <2>4
              DEF ParseInv, StartInv, ScanInv, DecodeInv, OutputFits
  <1>6. QED BY <1>3, <1>4, <1>5 DEF Scan

(* What the second pass has written fits as long as it is in the string.    *)
LEMMA RoomLeft ==
    ASSUME NEW e, NEW n \in Nat, n >= 2, NEW k, Counts(e, text, n, k),
           NEW p \in Nat, 2 =< p, p =< n + 1, NEW length \in Nat, length + e[p] =< p - 2
    PROVE  length < n - k
  <1>1. e[p] \in Nat /\ e[n] \in Nat /\ e[n] = k
    BY DEF Counts
  <1>2. \A a, b \in Nat : 2 =< a /\ a =< b => e[a] =< e[b] /\ e[b] =< e[a] + (b - a)
    BY DEF Counts
  <1>3. CASE p =< n
    <2>1. e[n] =< e[p] + (n - p)
      BY <1>2, <1>3
    <2>2. QED BY <1>1, <2>1
  <1>4. CASE p = n + 1
    <2>1. e[n] =< e[p]
      BY <1>2, <1>4
    <2>2. QED BY <1>1, <1>4, <2>1
  <1>5. QED BY <1>3, <1>4

LEMMA AllocateKeeps ==
    ASSUME ParseInv, NEW succeeds \in BOOLEAN, Allocate(succeeds)
    PROVE  ParseInv' /\ phase' # "minify"
  <1>1. phase = "scan" /\ end \in Nat /\ 2 =< end /\ end =< Len(text) /\ pos = 2 /\ output = <<>>
    BY DEF Allocate, ParseInv, ScanInv
  <1>2. CASE Fail
    BY <1>1, <1>2, FailKeeps
  <1>3. CASE /\ phase' = "decode" /\ room' = end - 1 - skipped + 1
             /\ UNCHANGED <<text, pos, end, skipped, output>>
    <2>1. PICK e : Counts(e, text, end, skipped)
      BY <1>1 DEF ParseInv, ScanInv
    <2>2. skipped \in Nat /\ e[2] = 0 /\ e[end] = skipped
      BY <1>1, <2>1 DEF Counts
    <2>3. skipped =< end - 2
      <3>1. \A a, b \in Nat : 2 =< a /\ a =< b => e[b] =< e[a] + (b - a)
        BY <2>1 DEF Counts
      <3>2. e[end] =< e[2] + (end - 2)
        BY <1>1, <3>1
      <3>3. QED BY <1>1, <2>2, <3>2
    <2>4. room' = end - skipped
      BY <1>1, <1>3, <2>2, <2>3
    <2>5. IsSequence(output) /\ Len(output) = 0 /\ Len(output) + e[2] =< 2 - 2
      <3>1. <<>> \in Seq({}) /\ Len(<<>>) = 0
        OBVIOUS
      <3>2. IsSequence(<<>>)
        BY <3>1 DEF IsSequence
      <3>3. QED BY <1>1, <2>2, <3>1, <3>2
    <2>6. Len(output) < end - skipped
      BY <1>1, <2>2, <2>3, <2>5
    <2>7. IsSequence(text') /\ Len(text') > 0
      BY <1>1, <1>3, TextStays
    <2>8. \E g : Counts(g, text', end', skipped') /\ Len(output') + g[pos'] =< pos' - 2
      BY <1>1, <1>3, <2>1, <2>5
    <2>9. OutputFits'
      BY <1>3, <2>4, <2>6 DEF OutputFits
    <2>10. DecodeInv'
      BY <1>1, <1>3, <2>4, <2>5, <2>8 DEF DecodeInv
    <2>11. QED BY <1>3, <2>7, <2>9, <2>10 DEF ParseInv, StartInv, ScanInv
  <1>4. QED BY <1>2, <1>3 DEF Allocate

(* Some bytes are written for some that are read, and no more than these    *)
(* less the escapes among them.                                             *)
LEMMA WritesKeep ==
    ASSUME ParseInv, phase = "decode", pos < end, NEW n \in Nat, NEW bytes, IsSequence(bytes),
           phase' = phase, output' = output \o bytes, pos' = pos + n, pos + n =< end + 1,
           UNCHANGED <<text, end, skipped, room>>,
           \A e : Counts(e, text, end, skipped) =>
                     e[pos + n] \in Nat /\ Len(bytes) + e[pos + n] =< n + e[pos]
    PROVE  ParseInv'
  <1>1. /\ end \in Nat /\ 2 =< end /\ end =< Len(text) /\ pos \in Nat /\ 2 =< pos
        /\ room = end - skipped /\ IsSequence(output)
    BY DEF ParseInv, DecodeInv
  <1>2. PICK e : Counts(e, text, end, skipped) /\ Len(output) + e[pos] =< pos - 2
    BY DEF ParseInv, DecodeInv
  <1>3. e[pos] \in Nat /\ Len(output) \in Nat /\ Len(bytes) \in Nat
    BY <1>1, <1>2, SequenceLen DEF Counts
  <1>4. IsSequence(output') /\ Len(output') = Len(output) + Len(bytes)
    BY <1>1, ConcatLen
  <1>5. e[pos + n] \in Nat /\ Len(bytes) + e[pos + n] =< n + e[pos]
    BY <1>2
  <1>6. Len(output') \in Nat /\ Len(output') + e[pos + n] =< (pos + n) - 2
    <2>1. ASSUME NEW a \in Nat, NEW b \in Nat, NEW c \in Nat, NEW d \in Nat, NEW p \in Nat,
                 p >= 2, a + c =< p - 2, b + d =< n + c
          PROVE  a + b \in Nat /\ (a + b) + d =< (p + n) - 2
      BY <2>1
    <2>2. Len(output) + Len(bytes) \in Nat
          /\ (Len(output) + Len(bytes)) + e[pos + n] =< (pos + n) - 2
      <3> DEFINE a == Len(output)
                 b == Len(bytes)
                 c == e[pos]
                 d == e[pos + n]
      <3>1. a \in Nat /\ b \in Nat /\ c \in Nat /\ d \in Nat /\ a + c =< pos - 2
            /\ b + d =< n + c
        BY <1>2, <1>3, <1>5
      <3> HIDE DEF a, b, c, d
      <3>2. a + b \in Nat /\ (a + b) + d =< (pos + n) - 2
        BY <1>1, <2>1, <3>1
      <3>3. QED BY <3>2 DEF a, b, d
    <2>3. QED BY <1>4, <2>2
  <1>7. Len(output') < end - skipped
    <2>1. pos + n \in Nat /\ 2 =< pos + n
      BY <1>1
    <2>2. QED BY <1>1, <1>2, <1>6, <2>1, RoomLeft
  <1>8. DecodeInv'
    <2>1. \E g : Counts(g, text', end', skipped') /\ Len(output') + g[pos'] =< pos' - 2
      BY <1>2, <1>6
    <2>2. QED BY <1>1, <1>4, <2>1 DEF DecodeInv
  <1>9. OutputFits'
    BY <1>1, <1>7 DEF OutputFits
  <1>10. IsSequence(text') /\ Len(text') > 0
    BY TextStays
  <1>11. QED BY <1>8, <1>9, <1>10 DEF ParseInv, StartInv, ScanInv

LEMMA Added ==
    ASSUME NEW a \in Nat, NEW b \in Nat, NEW m \in Nat, NEW length \in 1..m,
           NEW k \in Nat, b =< a + k
    PROVE  length + b =< (m + k) + a
  OBVIOUS

LEMMA DecodeKeeps ==
    ASSUME ParseInv, Decode
    PROVE  ParseInv' /\ phase' # "minify"
  <1>1. phase = "decode" /\ pos < end /\ UNCHANGED <<text, end, skipped, room>>
        /\ end \in Nat /\ 2 =< end /\ pos \in Nat /\ 2 =< pos /\ IsSequence(output)
    BY DEF Decode, ParseInv, DecodeInv
  <1> DEFINE u == Utf16(pos)
  <1>2. CASE phase' = "failed" /\ UNCHANGED <<pos, output>>
    <2>1. Fail
      BY <1>1, <1>2 DEF Fail
    <2>2. QED BY <1>1, <2>1, FailKeeps
  <1>3. ASSUME NEW x, output' = Append(output, x), NEW n \in 1..2, pos' = pos + n,
               UNCHANGED phase, n = 1 => text[pos] # Backslash
        PROVE  ParseInv'
    <2>1. IsSequence(<<x>>) /\ Len(<<x>>) = 1
      <3>1. <<x>> \in Seq({x}) /\ Len(<<x>>) = 1
        OBVIOUS
      <3>2. QED BY <3>1 DEF IsSequence
    <2>2. output' = output \o <<x>>
      <3>1. PICK R : output \in Seq(R)
        BY <1>1 DEF IsSequence
      <3>2. output \in Seq(R \cup {x}) /\ x \in R \cup {x}
        BY <3>1
      <3>3. QED BY <1>3, <3>2
    <2>3. ASSUME NEW e, Counts(e, text, end, skipped)
          PROVE  e[pos + n] \in Nat /\ Len(<<x>>) + e[pos + n] =< n + e[pos]
      <3>1. /\ e[pos] \in Nat /\ e[pos + 1] \in Nat /\ e[pos + 2] \in Nat
            /\ text[pos] # Backslash => e[pos + 1] = e[pos]
            /\ e[pos + 2] =< e[pos] + 1
        BY <1>1, <2>3, CountsFew
      <3>2. QED BY <1>3, <2>1, <3>1
    <2>4. pos + n =< end + 1
      BY <1>1
    <2> DEFINE bytes == <<x>>
    <2>5. /\ IsSequence(bytes) /\ output' = output \o bytes
          /\ \A e : Counts(e, text, end, skipped) =>
                     e[pos + n] \in Nat /\ Len(bytes) + e[pos + n] =< n + e[pos]
      BY <2>1, <2>2, <2>3
    <2> HIDE DEF bytes
    <2>6. n \in Nat /\ pos' = pos + n /\ phase' = phase
      BY <1>3
    <2>7. QED BY <1>1, <2>4, <2>5, <2>6, WritesKeep
  <1>4. CASE /\ u.length # 0 /\ output' = output \o u.bytes /\ pos' = pos + u.length
             /\ UNCHANGED phase
    <2>1. \/ /\ u.length = 6 /\ pos + 6 =< end
             /\ IsSequence(u.bytes) /\ Len(u.bytes) \in 1..3
          \/ /\ u.length = 12 /\ pos + 12 =< end
             /\ IsSequence(u.bytes) /\ Len(u.bytes) \in 1..4
      BY <1>1, <1>4, Utf16Len
    <2> DEFINE bytes == u.bytes
               n == u.length
    <2> HIDE DEF u
    <2>2. output' = output \o bytes /\ pos' = pos + n
          /\ \/ n = 6 /\ pos + 6 =< end /\ IsSequence(bytes) /\ Len(bytes) \in 1..3
             \/ n = 12 /\ pos + 12 =< end /\ IsSequence(bytes) /\ Len(bytes) \in 1..4
      BY <1>4, <2>1
    <2> HIDE DEF bytes, n
    <2>3. n \in Nat /\ pos + n =< end + 1 /\ IsSequence(bytes)
      BY <1>1, <2>2
    <2>4. ASSUME NEW e, Counts(e, text, end, skipped)
          PROVE  e[pos + n] \in Nat /\ Len(bytes) + e[pos + n] =< n + e[pos]
      <3>1. /\ e[pos] \in Nat
            /\ e[pos + 6] \in Nat /\ e[pos + 6] =< e[pos] + 3
            /\ e[pos + 12] \in Nat /\ e[pos + 12] =< e[pos] + 6
        BY <1>1, <2>4, CountsFew
      <3>2. CASE n = 6 /\ Len(bytes) \in 1..3
        <4>1. e[pos + n] = e[pos + 6]
          BY <3>2
        <4>2. Len(bytes) + e[pos + 6] =< (3 + 3) + e[pos]
          BY <3>1, <3>2, Added
        <4>3. QED BY <3>1, <3>2, <4>1, <4>2
      <3>3. CASE n = 12 /\ Len(bytes) \in 1..4
        <4>1. e[pos + n] = e[pos + 12]
          BY <3>3
        <4>2. Len(bytes) + e[pos + 12] =< (4 + 6) + e[pos]
          BY <3>1, <3>3, Added
        <4>3. QED BY <3>1, <3>3, <4>1, <4>2
      <3>4. QED BY <2>2, <3>2, <3>3
    <2>5. QED BY <1>1, <1>4, <2>2, <2>3, <2>4, WritesKeep
  <1>5. \/ output' = Append(output, text[pos]) /\ pos' = pos + 1 /\ UNCHANGED phase
           /\ text[pos] # Backslash
        \/ u.length # 0 /\ output' = output \o u.bytes /\ pos' = pos + u.length
           /\ UNCHANGED phase
        \/ output' = Append(output, Escape(text[pos + 1])) /\ pos' = pos + 2
           /\ UNCHANGED phase
        \/ phase' = "failed" /\ UNCHANGED <<pos, output>>
    BY DEF Decode
  <1> HIDE DEF u
  <1>6. QED BY <1>1, <1>2, <1>3, <1>4, <1>5

LEMMA ParsedKeeps ==
    ASSUME ParseInv, Parsed
    PROVE  ParseInv' /\ phase' # "minify"
  BY TextStays DEF Parsed, ParseInv, StartInv, ScanInv, DecodeInv, OutputFits

LEMMA ParseStepKeeps ==
    ASSUME ParseInv, ParseStep
    PROVE  ParseInv' /\ phase' # "minify"
  BY FirstByteKeeps, ScanKeeps, FailKeeps, AllocateKeeps, DecodeKeeps, ParsedKeeps
     DEF ParseStep, Unclosed

-----------------------------------------------------------------------------
(* The whole pipeline.                                                      *)

TextInv == MinifyInv /\ InPlaceInv /\ ParseInv

LEMMA CountedNat ==
    ASSUME NEW bytes \in Seq(0..255)
    PROVE  OutputLength(bytes) \in Nat
  <1> DEFINE all == (DOMAIN bytes) \X (1..5)
             some == {p \in all : p[2] =< Extra(bytes[p[1]])}
  <1>1. Len(bytes) \in Nat /\ DOMAIN bytes = 1..Len(bytes)
    OBVIOUS
  <1>2. IsFiniteSet(DOMAIN bytes) /\ IsFiniteSet(1..5)
    <2>1. 1 \in Int /\ 5 \in Int /\ Len(bytes) \in Int
      BY <1>1
    <2>2. IsFiniteSet(1..Len(bytes)) /\ IsFiniteSet(1..5)
      BY <2>1, FS_Interval
    <2>3. QED BY <1>1, <2>2
  <1>3. IsFiniteSet(all)
    BY <1>2, FS_Product
  <1>4. some \subseteq all
    OBVIOUS
  <1>5. IsFiniteSet(some)
    BY <1>3, <1>4, FS_Subset
  <1>6. Cardinality(some) \in Nat
    BY <1>5, FS_CardinalityType
  <1>7. EscapeCharacters(bytes) \in Nat
    BY <1>6 DEF EscapeCharacters
  <1>8. QED BY <1>1, <1>7 DEF OutputLength

LEMMA PrintedSequence ==
    ASSUME NEW bytes \in Seq(0..255)
    PROVE  IsSequence(Printed(bytes))
  <1>1. OutputLength(bytes) + 3 \in Nat /\ OutputLength(bytes) + 3 >= 1
    BY CountedNat
  <1>2. DOMAIN PrintString(bytes) = 1..OutputLength(bytes) + 3
        /\ PrintString(bytes) = [i \in 1..OutputLength(bytes) + 3 |-> PrintString(bytes)[i]]
    BY DEF PrintString
  <1>3. IsSequence(PrintString(bytes)) /\ Len(PrintString(bytes)) = OutputLength(bytes) + 3
    BY <1>1, <1>2, ListLen
  <1>4. PICK R : PrintString(bytes) \in Seq(R)
    BY <1>3 DEF IsSequence
  <1>5. Printed(bytes) \in Seq(R)
    BY <1>1, <1>3, <1>4 DEF Printed
  <1>6. QED BY <1>5 DEF IsSequence

(* A text with its terminator. *)
LEMMA Terminated ==
    ASSUME NEW s, IsSequence(s)
    PROVE  /\ IsSequence(s \o <<Nul>>) /\ Len(s \o <<Nul>>) > 0
           /\ (s \o <<Nul>>)[Len(s \o <<Nul>>)] = Nul
           /\ s \o <<Nul>> = Append(s, Nul)
  <1>1. PICK R : s \in Seq(R)
    BY DEF IsSequence
  <1>2. s \in Seq(R \cup {Nul}) /\ Nul \in R \cup {Nul} /\ <<Nul>> \in Seq(R \cup {Nul})
    BY <1>1
  <1>3. /\ s \o <<Nul>> \in Seq(R \cup {Nul}) /\ Len(s \o <<Nul>>) = Len(s) + 1
        /\ (s \o <<Nul>>)[Len(s) + 1] = Nul
        /\ s \o <<Nul>> = Append(s, Nul) /\ Len(s) \in Nat
    BY <1>2
  <1>4. QED BY <1>3 DEF IsSequence

LEMMA InitTextInv ==
    ASSUME PipelineInit
    PROVE  TextInv
  <1>1. json = 1 /\ into = 1 /\ skipped = 0 /\ output = <<>>
    BY DEF PipelineInit
  <1>2. ASSUME phase = "minify", loop = "text", NEW s, IsSequence(s), text = s \o <<Nul>>
        PROVE  MinifyInv /\ ParseInv
    <2>1. IsSequence(text) /\ Len(text) > 0 /\ text[Len(text)] = Nul
      BY <1>2, Terminated
    <2>2. QED BY <1>1, <1>2, <2>1
              DEF MinifyInv, ParseInv, StartInv, ScanInv, DecodeInv, OutputFits
  <1>3. ASSUME NEW bytes \in Strings, NEW before \in Paddings, NEW after \in Paddings,
               Begin("roundtrip", bytes, before \o Printed(bytes) \o after \o <<Nul>>)
        PROVE  TextInv
    <2>1. given.task = "roundtrip" /\ phase = "minify" /\ loop = "text"
          /\ text = ((before \o Printed(bytes)) \o after) \o <<Nul>>
      BY <1>3 DEF Begin
    <2>2. bytes \in Seq(0..255) /\ before \in Seq(0..255) /\ after \in Seq(0..255)
      BY TextsAreBytes
    <2>3. IsSequence(before) /\ IsSequence(Printed(bytes)) /\ IsSequence(after)
      BY <2>2, PrintedSequence DEF IsSequence
    <2>4. IsSequence((before \o Printed(bytes)) \o after)
      BY <2>3, ConcatLen
    <2>5. MinifyInv /\ ParseInv
      BY <1>2, <2>1, <2>4
    <2>6. InPlaceInv
      BY <1>1, <2>1 DEF InPlaceInv, MinifiedInPlace
    <2>7. QED BY <2>5, <2>6 DEF TextInv
  <1>4. ASSUME NEW t \in Texts, Begin("minify", t, t \o <<Nul>>)
        PROVE  TextInv
    <2>1. given.task = "minify" /\ given.content = t /\ phase = "minify" /\ loop = "text"
          /\ text = t \o <<Nul>>
      BY <1>4 DEF Begin
    <2>2. IsSequence(t)
      BY TextsAreBytes DEF IsSequence
    <2>3. text = Append(given.content, Nul)
      BY <2>1, <2>2, Terminated
    <2>4. QED BY <1>1, <1>2, <2>1, <2>2, <2>3 DEF TextInv, InPlaceInv, MinifiedInPlace
  <1>5. ASSUME NEW t \in Literals, Begin("parse", t, t)
        PROVE  TextInv
    <2>1. given.task = "parse" /\ phase = "begin" /\ text = t
      BY <1>5 DEF Begin
    <2>2. t \in Seq(0..255) /\ t # <<>>
      BY TextsAreBytes, LiteralsHaveBytes
    <2>3. IsSequence(t) /\ Len(t) > 0
      BY <2>2 DEF IsSequence
    <2>4. QED BY <1>1, <2>1, <2>3 DEF TextInv, MinifyInv, InPlaceInv, MinifiedInPlace,
                                      ParseInv, StartInv, ScanInv, DecodeInv, OutputFits
  <1>6. QED BY <1>3, <1>4, <1>5 DEF PipelineInit

(* The program hands the result of cJSON_Minify on.                         *)
LEMMA ParseKeeps ==
    ASSUME TextInv, Parse
    PROVE  TextInv'
  <1>1. /\ phase = "minify" /\ phase' = "begin" /\ given' = given /\ given.task # "minify"
        /\ text' = SubSeq(text, 1, into) /\ loop = "done"
        /\ skipped' = skipped /\ output' = output
    BY DEF Parse, codecVars
  <1>2. IsSequence(text) /\ json \in Nat /\ into \in Nat /\ 1 =< into /\ into =< Len(text)
    BY <1>1, SequenceLen DEF TextInv, MinifyInv
  <1>3. PICK R : text \in Seq(R)
    BY <1>2 DEF IsSequence
  <1>4. text' \in Seq(R) /\ Len(text') = into
    BY <1>1, <1>2, <1>3
  <1>5. IsSequence(text') /\ Len(text') > 0
    BY <1>2, <1>4 DEF IsSequence
  <1>6. skipped' = 0 /\ output' = <<>>
    BY <1>1 DEF TextInv, ParseInv, StartInv
  <1>7. QED BY <1>1, <1>5, <1>6 DEF TextInv, MinifyInv, InPlaceInv, MinifiedInPlace,
                                    ParseInv, StartInv, ScanInv, DecodeInv, OutputFits

LEMMA NextTextInv ==
    ASSUME TextInv, [PipelineNext]_allVars
    PROVE  TextInv'
  <1>1. CASE Minifying
    <2>1. MinifyInv' /\ InPlaceInv' /\ phase' = "minify"
      BY <1>1, MinifyStepKeeps DEF TextInv
    <2>2. phase = "minify" /\ skipped' = skipped /\ output' = output
      BY <1>1 DEF Minifying, codecVars
    <2>3. ParseInv'
      BY <2>1, <2>2 DEF TextInv, ParseInv, StartInv, ScanInv, DecodeInv, OutputFits
    <2>4. QED BY <2>1, <2>3 DEF TextInv
  <1>2. CASE Parse
    BY <1>2, ParseKeeps
  <1>3. CASE Parsing
    <2>1. ParseInv' /\ phase' # "minify" /\ given' = given
      BY <1>3, ParseStepKeeps DEF Parsing, TextInv
    <2>2. phase # "minify"
      BY <1>3 DEF Parsing, ParseStep, FirstByte, Scan, Unclosed, Allocate, Decode, Parsed
    <2>3. given'.task # "minify"
      BY <2>1, <2>2 DEF TextInv, InPlaceInv
    <2>4. QED BY <2>1, <2>3 DEF TextInv, MinifyInv, InPlaceInv, MinifiedInPlace
  <1>4. CASE UNCHANGED allVars
    BY <1>4 DEF allVars, codecVars, TextInv, MinifyInv, InPlaceInv, MinifiedInPlace,
                ParseInv, StartInv, ScanInv, DecodeInv, OutputFits
  <1>5. QED BY <1>1, <1>2, <1>3, <1>4 DEF PipelineNext

LEMMA AlwaysTextInv == PipelineSpec => []TextInv
  <1>1. PipelineInit => TextInv
    BY InitTextInv
  <1>2. TextInv /\ [PipelineNext]_allVars => TextInv'
    BY NextTextInv
  <1>3. QED BY <1>1, <1>2, PTL DEF PipelineSpec

-----------------------------------------------------------------------------
(* What follows.                                                            *)

(* cJSON_Minify never writes ahead of where it reads: what it has yet to    *)
(* read is what it was given, in any text, with comments and strings that   *)
(* are closed or not (cJSON.c:2438-2506).                                   *)
THEOREM MinifyReadsOriginal == PipelineSpec => []MinifiedInPlace
  <1>1. TextInv => MinifiedInPlace
    BY DEF TextInv, InPlaceInv
  <1>2. QED BY <1>1, AlwaysTextInv, PTL

(* The block that parse_string allocates has room for all the second pass   *)
(* writes and the terminator, also when a \u swallows four bytes that are   *)
(* no digits and the two passes no longer agree on what is escaped          *)
(* (cJSON.c:690-714, 541).                                                  *)
THEOREM DecodedFits == PipelineSpec => []OutputFits
  <1>1. TextInv => OutputFits
    BY DEF TextInv, ParseInv
  <1>2. QED BY <1>1, AlwaysTextInv, PTL

(* The second pass ends at the closing quote or on the byte behind it, and  *)
(* reads nothing beyond the quote (cJSON.c:722-777).                        *)
THEOREM DecodingStaysInside == PipelineSpec => []DecodesInside
  <1>1. TextInv => DecodesInside
    BY DEF TextInv, ParseInv, DecodeInv, DecodesInside
  <1>2. QED BY <1>1, AlwaysTextInv, PTL
=============================================================================
