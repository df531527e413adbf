-------------------------- MODULE Delivery_proofs --------------------------
(***************************************************************************)
(* What TLAPS proves of a numeric stream, for any word, header and frame   *)
(* sizes, any declared length and any production: the words of the         *)
(* artifact arrive at their places (WordsInPlace) and the browser is told  *)
(* the truth (TruthfulOutcome).                                            *)
(*                                                                         *)
(* The inductive invariant labels every byte that is on its way, from the  *)
(* one that the decoder took last to the one that the writer sent last,    *)
(* with the frame it belongs to and its place there (Stream).  The labels  *)
(* survive however the bytes are cut, the decoder is where the first of    *)
(* them says (Decoder), and the writer where the last one says (Writer).   *)
(***************************************************************************)
EXTENDS Delivery, SequenceTheorems, TLAPS

USE DEF serverVars, clientVars, vars, Server, Client

-----------------------------------------------------------------------------
(* Labels.                                                                 *)

Type == {"none", "meta", "data"} \cup Terminal
\* Place at of a frame of a type and a size, behind base bytes of data, and behind the
\* metadata or not.
Label == [type : Type, size : Nat, at : Nat, base : Nat, meta : BOOLEAN]

\* Before the first byte.
Origin == [type |-> "none", size |-> 0, at |-> Header, base |-> 0, meta |-> FALSE]

Total(l) == Header + l.size
Over(l) == l.at = Total(l)
\* The data bytes up to this place, and up to the end of the frame.
Behind(l) == l.base + (IF l.type = "data" /\ l.at > Header THEN l.at - Header ELSE 0)
End(l) == l.base + (IF l.type = "data" THEN l.size ELSE 0)

ByteOf(l) ==
    IF l.at <= Header THEN [type |-> l.type, size |-> l.size, part |-> l.at]
    ELSE [byte |-> IF l.type = "data" THEN l.base + (l.at - Header) ELSE 0]

Valid(l) ==
    /\ l \in Label /\ l.at \in 1..Total(l) /\ End(l) <= Declared
    /\ l.type = "none" => l = Origin
    /\ l.type = "meta" => l.size = 1 /\ ~l.meta /\ l.base = 0
    /\ l.type = "data" => l.size # 0 /\ l.size % Word = 0 /\ l.meta
    /\ l.type = "complete" => l.size = 0 /\ l.base = Declared /\ l.meta
    /\ l.type = "cancelled" => l.size = 0
    /\ l.type = "error" => l.size = 1

\* What the writer says of a frame is so.
Honest(l) ==
    /\ l.type = "complete" => terminal = "complete" /\ length = Declared
    /\ l.type = "cancelled" => terminal = "cancelled"
    /\ l.type = "error" => terminal = "error" \/ length # Declared \/ ~l.meta

\* The first byte of a frame after the last one of another.
Follows(l, m) ==
    /\ Over(l) /\ m.at = 1 /\ m.base = End(l)
    /\ \/ l.type = "none" /\ ~m.meta /\ m.type \in {"meta", "error", "cancelled"}
       \/ l.type \in {"meta", "data"} /\ m.meta /\ m.type \in {"data"} \cup Terminal

-----------------------------------------------------------------------------
(* The inductive invariant.                                                *)

Byte == [type : Type, size : Nat, part : Nat] \cup [byte : Nat]
\* The bytes that are sent and not decoded.
Bytes == chunk \o wire

\* Label 0 is that of the byte decoded last.
Stream(bytes, lab) ==
    /\ lab \in [0..Len(bytes) -> Label]
    /\ \A q \in 0..Len(bytes) : Valid(lab[q])
    /\ \A q \in 1..Len(bytes) : bytes[q] = ByteOf(lab[q])
    /\ \A q, j \in 0..Len(bytes) :
          q + j <= Len(bytes) /\ lab[q].at + j <= Total(lab[q])
              => lab[q + j] = [lab[q] EXCEPT !.at = @ + j]
    /\ \A q \in 1..Len(bytes) : Over(lab[q - 1]) => Follows(lab[q - 1], lab[q])

Decoder(l) ==
    /\ dec.received = Behind(l)
    /\ dec.metadata = (l.meta \/ (l.type = "meta" /\ Over(l)))
    /\ dec.terminal = IF l.type \in Terminal /\ Over(l) THEN l.type ELSE "none"
    /\ IF Over(l) THEN dec.head = <<>>
       ELSE dec.head = [i \in 1..Least(l.at, Header) |->
                          [type |-> l.type, size |-> l.size, part |-> i]]
    /\ ~Over(l) /\ l.at >= Header => dec.type = l.type /\ dec.remaining = Total(l) - l.at

\* What is sent after the frame of l.
Resumes(l, next) ==
    IF next = "last" THEN l.type \in Terminal ELSE l.type \in {"meta", "data"} /\ End(l) = sent

PayloadOf(l) == [i \in 1..l.size |-> ByteOf([l EXCEPT !.at = Header + i])]

\* The frame of m is about to be sent after the byte of l.
Begins(l, m) ==
    /\ Valid(m) /\ Honest(m) /\ Follows(l, m) /\ Resumes(m, then)
    /\ pending = <<HeaderOf(m.type, m.size)>>
                   \o (IF m.size = 0 THEN <<>> ELSE <<PayloadOf(m)>>)

Writer(l) ==
    /\ pc \in {"start", "metadata"} => l = Origin
    /\ pc \in {"read", "view"} => Over(l) /\ Resumes(l, "read")
    /\ pc = "last" \/ link = "ended" => Over(l) /\ l.type \in Terminal
    /\ pc = "write" =>
          \/ pending = <<>> /\ Over(l) /\ Resumes(l, then)
          \/ pending = <<PayloadOf(l)>> /\ l.at = Header /\ l.size # 0 /\ Resumes(l, then)
          \/ \E m \in Label : Begins(l, m)

\* The producer's bytes that have been read and not been sent.
Producer ==
    /\ length \in Lengths /\ taken \in 0..length /\ sent \in 0..Declared /\ sent % Word = 0
    /\ carry \in Seq(Nat) /\ view \in Seq(Nat) /\ Len(carry) < Word
    /\ pc \in {"start", "metadata"} => taken = 0 /\ sent = 0 /\ carry = <<>> /\ view = <<>>
    /\ pc \in {"read", "view"} \/ (pc = "write" /\ then # "last") =>
          /\ taken = sent + Len(carry) + Len(view)
          /\ \A i \in 1..Len(carry) : carry[i] = sent + i
          /\ \A i \in 1..Len(view) : view[i] = sent + Len(carry) + i
    /\ pc = "read" \/ (pc = "write" /\ then = "read") => view = <<>>
    /\ pc = "view" \/ (pc = "write" /\ then = "view") => carry = <<>> \/ view = <<>>

DecoderState ==
    [head : Seq(Byte), type : Type, remaining : Nat, received : Nat,
     metadata : BOOLEAN, terminal : Terminal \cup {"none"}]

\* The words that are in the buffer, and the tail.
Filled ==
    /\ received = dec.received /\ dec.received \in 0..Declared
    /\ tail \in Seq(Nat) /\ Len(tail) < Word
    /\ \E k \in 0..received : /\ received = k * Word + Len(tail)
                               /\ \A i \in 1..Len(tail) : tail[i] = k * Word + i
    /\ DOMAIN values = 0..(Declared \div Word) - 1
    /\ \A i \in DOMAIN values :
          values[i] = IF (i + 1) * Word <= received THEN Produced(i) ELSE <<>>

States ==
    /\ terminal \in {"none", "complete", "cancelled", "error"} /\ held \in BOOLEAN
    /\ pc \in {"start", "metadata", "read", "view", "write", "last", "close", "closed"}
    /\ then \in {"read", "view", "last"}
    /\ link \in {"up", "ended", "cut"} /\ aborted \in BOOLEAN /\ deleting \in BOOLEAN
    /\ Len(dec.head) <= Header
    /\ dec \in DecoderState
    /\ chunk \in Seq(Byte) /\ wire \in Seq(Byte)
    /\ outcome \in {"none", "complete", "cancelled", "backend", "transport"}
    /\ outcome # "none" => link # "up"
    /\ link = "ended" => pc \in {"close", "closed"}
    /\ outcome = "complete" => terminal = "complete" /\ length = Declared /\ dec.received = Declared
    /\ outcome = "backend" => terminal = "error" \/ length # Declared \/ ~dec.metadata
    /\ outcome = "cancelled" => aborted \/ terminal = "cancelled"

\* The bytes on their way fit the decoder before them and, as long as none is lost, the
\* writer behind them.
Fits(lab) ==
    /\ Stream(Bytes, lab) /\ Decoder(lab[0])
    /\ \A q \in 0..Len(Bytes) : Honest(lab[q])
    /\ link # "cut" => Writer(lab[Len(Bytes)])

IInv ==
    /\ States /\ Producer /\ Filled
    /\ outcome = "none" => \E lab \in [0..Len(Bytes) -> Label] : Fits(lab)

-----------------------------------------------------------------------------
(* Words.                                                                  *)

LEMMA Sizes ==
  /\ Word \in Nat /\ Word > 0 /\ Header \in Nat /\ Header > 0
  /\ Declared \in Nat /\ Declared % Word = 0
  /\ MaxData \in Nat /\ MaxData > 0 /\ Lengths \subseteq Nat
  BY DeliveryAssumption

LEMMA Product == \A m \in Nat : m * Word \in Nat
  BY Sizes

LEMMA Later == \A m, n \in Nat : m < n => m * Word + Word <= n * Word
  BY Sizes

LEMMA Sum == \A m, n \in Nat : (m + n) * Word = m * Word + n * Word /\ (m + 1) * Word = m * Word + Word
  BY Sizes

LEMMA Division ==
  ASSUME NEW x \in Nat
  PROVE  \E q \in Nat, r \in 0..Word - 1 :
            x \div Word = q /\ x % Word = r /\ x = q * Word + r /\ q * Word \in Nat
  <1>1. x \div Word \in Nat /\ x % Word \in 0..Word - 1
    BY Sizes
  <1>2. (x % Word) + (x \div Word) * Word = x
    BY Sizes
  <1> DEFINE q == x \div Word
             r == x % Word
  <1>3. q \in Nat /\ r \in 0..Word - 1 /\ r + q * Word = x /\ q * Word \in Nat
    BY <1>1, <1>2, Product
  <1>4. x \div Word = q /\ x % Word = r
    OBVIOUS
  <1> HIDE DEF q, r
  <1>5. x = q * Word + r
    BY <1>3, Sizes
  <1> QED BY <1>3, <1>4, <1>5

\* The quotient and the remainder are the only ones.
LEMMA Quotient ==
  ASSUME NEW x \in Nat, NEW q \in Nat, NEW r \in 0..Word - 1, x = q * Word + r
  PROVE  x \div Word = q /\ x % Word = r
  <1>1. PICK p \in Nat, s \in 0..Word - 1 :
          x \div Word = p /\ x % Word = s /\ x = p * Word + s /\ p * Word \in Nat
    BY Division
  <1>2. q * Word \in Nat
    BY Product
  <1>3. ~(p < q) /\ ~(q < p)
    <2>1. p < q => p * Word + Word <= q * Word
      BY Later
    <2>2. q < p => q * Word + Word <= p * Word
      BY Later
    <2> QED BY <1>1, <1>2, <2>1, <2>2, Sizes
  <1>4. p = q
    BY <1>3
  <1>5. s = r
    BY <1>1, <1>2, <1>4, Sizes
  <1> QED BY <1>1, <1>4, <1>5

\* Whole words.
LEMMA Whole1 == \A m \in Nat : (m * Word) % Word = 0
  <1> SUFFICES ASSUME NEW m \in Nat PROVE (m * Word) % Word = 0
    OBVIOUS
  <1>1. m * Word \in Nat /\ 0 \in 0..Word - 1 /\ m * Word = m * Word + 0
    BY Product, Sizes
  <1> QED BY <1>1, Quotient

LEMMA WholeSum ==
  ASSUME NEW x \in Nat, NEW y \in Nat, x % Word = 0, y % Word = 0
  PROVE  (x + y) % Word = 0
  <1>1. PICK m \in Nat, n \in Nat : x = m * Word /\ y = n * Word
    <2>1. \A z \in Nat : z % Word = 0 => \E m \in Nat : z = m * Word
      BY Division
    <2> QED BY <2>1
  <1>2. x + y = (m + n) * Word /\ m + n \in Nat
    BY <1>1, Sum
  <1> QED BY <1>2, Whole1

LEMMA Aligned ==
  ASSUME NEW x \in Nat
  PROVE  /\ x - (x % Word) \in 0..x /\ x % Word \in 0..Word - 1
         /\ (x - (x % Word)) % Word = 0
  <1>1. PICK q \in Nat, r \in 0..Word - 1 :
          x \div Word = q /\ x % Word = r /\ x = q * Word + r /\ q * Word \in Nat
    BY Division
  <1>2. x - r = q * Word /\ x - r \in 0..x
    BY <1>1, Sizes
  <1>3. (x - r) % Word = 0
    BY <1>2, Whole1
  <1>4. x % Word = r
    BY <1>1, Zenon
  <1>5. x - (x % Word) = x - r
    BY <1>4, Sizes
  <1> QED BY <1>2, <1>3, <1>4, <1>5, Zenon

\* A sequence that is cut in two.
LEMMA CutInTwo ==
  ASSUME NEW S, NEW s \in Seq(S), NEW n \in 0..Len(s)
  PROVE  /\ First(s, n) \in Seq(S) /\ Len(First(s, n)) = n
         /\ \A i \in 1..n : First(s, n)[i] = s[i]
         /\ Drop(s, n) \in Seq(S) /\ Len(Drop(s, n)) = Len(s) - n
         /\ \A i \in 1..Len(s) - n : Drop(s, n)[i] = s[n + i]
         /\ First(s, n) \o Drop(s, n) = s
  <1>0. Len(s) \in Nat /\ \A i \in 1..Len(s) : s[i] \in S
    BY LenProperties, ElementOfSeq
  <1>1. /\ First(s, n) \in Seq(S) /\ Len(First(s, n)) = n
        /\ \A i \in 1..n : First(s, n)[i] = s[i]
    <2>1. \A i \in 1..n : s[i] \in S
      BY <1>0
    <2>2. 1 \in Int /\ n \in Int
      BY <1>0
    <2>3. /\ SubSeq(s, 1, n) \in Seq(S)
          /\ Len(SubSeq(s, 1, n)) = IF 1 <= n THEN n - 1 + 1 ELSE 0
          /\ \A i \in 1..n - 1 + 1 : SubSeq(s, 1, n)[i] = s[1 + i - 1]
      BY <2>1, <2>2, SubSeqProperties
    <2> QED BY <1>0, <2>3 DEF First
  <1>2. /\ Drop(s, n) \in Seq(S) /\ Len(Drop(s, n)) = Len(s) - n
        /\ \A i \in 1..Len(s) - n : Drop(s, n)[i] = s[n + i]
    <2>1. \A i \in n + 1..Len(s) : s[i] \in S
      BY <1>0
    <2>2. n + 1 \in Int /\ Len(s) \in Int
      BY <1>0
    <2>3. /\ SubSeq(s, n + 1, Len(s)) \in Seq(S)
          /\ Len(SubSeq(s, n + 1, Len(s))) = IF n + 1 <= Len(s) THEN Len(s) - (n + 1) + 1 ELSE 0
          /\ \A i \in 1..Len(s) - (n + 1) + 1 : SubSeq(s, n + 1, Len(s))[i] = s[n + 1 + i - 1]
      BY <2>1, <2>2, SubSeqProperties
    <2> QED BY <1>0, <2>3 DEF Drop
  <1>3. First(s, n) \o Drop(s, n) = s
    <2> DEFINE a == First(s, n)
               b == Drop(s, n)
    <2>1. /\ a \in Seq(S) /\ b \in Seq(S) /\ Len(a) = n /\ Len(b) = Len(s) - n
      BY <1>1, <1>2
    <2>5. /\ \A i \in 1..n : a[i] = s[i]
          /\ \A j \in 1..Len(s) - n : b[j] = s[n + j]
      BY <1>1, <1>2
    <2> HIDE DEF a, b
    <2>2. /\ a \o b \in Seq(S) /\ Len(a \o b) = Len(a) + Len(b)
          /\ \A i \in 1..Len(a) + Len(b) :
                (a \o b)[i] = IF i <= Len(a) THEN a[i] ELSE b[i - Len(a)]
      BY <2>1, ConcatProperties
    <2>3. Len(a \o b) = Len(s)
      BY <1>0, <2>1, <2>2
    <2>4. ASSUME NEW i \in 1..Len(s) PROVE (a \o b)[i] = s[i]
      <3>1. CASE i <= n
        BY <1>0, <2>1, <2>2, <2>5, <3>1
      <3>2. CASE ~(i <= n)
        <4>1. i - n \in 1..Len(s) - n /\ n + (i - n) = i
          BY <1>0, <3>2
        <4> QED BY <1>0, <2>1, <2>2, <2>5, <3>2, <4>1
      <3> QED BY <3>1, <3>2
    <2> QED BY <2>2, <2>3, <2>4, SeqEqual DEF a, b
  <1> QED BY <1>1, <1>2, <1>3

\* What a sequence of numbers gives behind another one.
LEMMA Joins ==
  ASSUME NEW S, NEW s \in Seq(S), NEW t \in Seq(S)
  PROVE  /\ s \o t \in Seq(S) /\ Len(s \o t) = Len(s) + Len(t)
         /\ Len(s) \in Nat /\ Len(t) \in Nat
         /\ \A i \in 1..Len(s) : (s \o t)[i] = s[i]
         /\ \A i \in 1..Len(t) : (s \o t)[Len(s) + i] = t[i]
  <1>1. /\ s \o t \in Seq(S) /\ Len(s \o t) = Len(s) + Len(t)
        /\ \A i \in 1..Len(s) + Len(t) :
              (s \o t)[i] = IF i <= Len(s) THEN s[i] ELSE t[i - Len(s)]
    BY ConcatProperties
  <1>2. Len(s) \in Nat /\ Len(t) \in Nat
    BY LenProperties
  <1>3. ASSUME NEW i \in 1..Len(t) PROVE (s \o t)[Len(s) + i] = t[i]
    <2>1. /\ Len(s) + i \in 1..Len(s) + Len(t) /\ ~(Len(s) + i <= Len(s))
          /\ Len(s) + i - Len(s) = i
      BY <1>2
    <2> QED BY <1>1, <2>1
  <1>4. \A i \in 1..Len(s) : (s \o t)[i] = s[i]
    BY <1>1, <1>2
  <1> QED BY <1>1, <1>2, <1>3, <1>4

-----------------------------------------------------------------------------
(* The words of the explorer's buffer.                                     *)

\* The whole words at a place of the artifact: word i follows the boundary k.
LEMMA WordAt ==
  ASSUME NEW k \in Nat, NEW all \in Seq(Nat), \A j \in 1..Len(all) : all[j] = k * Word + j,
         NEW n \in Nat, n * Word <= Len(all), NEW i \in Nat, k <= i, i < k + n
  PROVE  SubSeq(all, (i - k) * Word + 1, (i - k + 1) * Word) = Produced(i)
  <1> DEFINE m == i - k
             at == m * Word
             word == SubSeq(all, at + 1, at + Word)
  <1>1. m \in Nat /\ i = k + m /\ m < n
    OBVIOUS
  <1>2. /\ at \in Nat /\ (m + 1) * Word = at + Word /\ at + Word <= n * Word
        /\ i * Word = k * Word + at /\ k * Word \in Nat /\ n * Word \in Nat
    <2> HIDE DEF m
    <2>1. at \in Nat /\ (m + 1) * Word = at + Word /\ at + Word <= n * Word
      BY <1>1, Product, Sum, Later
    <2>2. i * Word = k * Word + at
      BY <1>1, Sum
    <2> QED BY <2>1, <2>2, Product
  <1>3. Len(all) \in Nat /\ Word \in Nat /\ Word > 0
    BY LenProperties, Sizes
  <1> HIDE DEF at
  <1>4. \A j \in at + 1..at + Word : j \in 1..Len(all) /\ all[j] \in Nat
    <2>1. \A j \in at + 1..at + Word : j \in 1..Len(all)
      BY <1>2, <1>3
    <2> QED BY <2>1, ElementOfSeq
  <1>5. /\ word \in Seq(Nat) /\ Len(word) = Word
        /\ \A b \in 1..Word : word[b] = all[at + b]
    <2>1. /\ word \in Seq(Nat)
          /\ Len(word) = IF at + 1 <= at + Word THEN at + Word - (at + 1) + 1 ELSE 0
          /\ \A b \in 1..at + Word - (at + 1) + 1 : word[b] = all[at + 1 + b - 1]
      BY <1>2, <1>3, <1>4, SubSeqProperties
    <2> HIDE DEF word
    <2> QED BY <1>2, <1>3, <2>1
  <1> HIDE DEF word
  <1>6. word = Produced(i)
    <2>1. \A b \in 1..Word : word[b] = i * Word + b
      <3>1. ASSUME NEW b \in 1..Word PROVE word[b] = i * Word + b
        <4>1. at + b \in 1..Len(all) /\ at + b \in Nat
          BY <1>2, <1>3, <1>4
        <4>2. word[b] = k * Word + (at + b)
          BY <1>5, <4>1
        <4> QED BY <1>2, <1>3, <4>2
      <3> QED BY <3>1
    <2>2. word = [b \in 1..Word |-> word[b]]
      BY <1>5, LenProperties
    <2> QED BY <2>1, <2>2 DEF Produced
  <1> QED BY <1>2, <1>6 DEF word, at

\* The next bytes of the artifact complete words, each at its place.
LEMMA WordsKeep ==
  ASSUME Filled, NEW bytes \in Seq(Nat), \A i \in 1..Len(bytes) : bytes[i] = received + i,
         Words(bytes), dec'.received = received + Len(bytes), dec'.received <= Declared
  PROVE  Filled'
  <1>1. PICK k \in 0..received : /\ received = k * Word + Len(tail)
                                 /\ \A i \in 1..Len(tail) : tail[i] = k * Word + i
    BY DEF Filled
  <1> DEFINE all == tail \o bytes
             n == Len(all) \div Word
  <1>2. /\ tail \in Seq(Nat) /\ Len(tail) \in Nat /\ Len(tail) < Word
        /\ received \in Nat /\ k \in Nat /\ k * Word \in Nat
    <2>1. received \in Nat /\ tail \in Seq(Nat) /\ Len(tail) < Word
      BY Sizes DEF Filled
    <2> QED BY <1>1, <2>1, LenProperties, Product
  <1>3. /\ all \in Seq(Nat) /\ Len(all) \in Nat /\ Len(all) = Len(tail) + Len(bytes)
        /\ \A j \in 1..Len(all) : all[j] = k * Word + j
    <2>1. /\ all \in Seq(Nat) /\ Len(all) = Len(tail) + Len(bytes)
          /\ Len(bytes) \in Nat /\ Len(all) \in Nat
          /\ \A i \in 1..Len(tail) : all[i] = tail[i]
          /\ \A i \in 1..Len(bytes) : all[Len(tail) + i] = bytes[i]
      BY <1>2, Joins
    <2>2. ASSUME NEW j \in 1..Len(all) PROVE all[j] = k * Word + j
      <3>1. CASE j <= Len(tail)
        BY <1>1, <1>2, <2>1, <3>1
      <3>2. CASE ~(j <= Len(tail))
        <4>1. PICK i \in 1..Len(bytes) : j = Len(tail) + i
          <5>1. j - Len(tail) \in 1..Len(bytes) /\ j = Len(tail) + (j - Len(tail))
            BY <1>2, <2>1, <3>2
          <5> QED BY <5>1
        <4>2. all[j] = received + i
          BY <2>1, <4>1
        <4> QED BY <1>1, <1>2, <4>1, <4>2
      <3> QED BY <3>1, <3>2
    <2> QED BY <2>1, <2>2
  <1>4. /\ values' = [i \in DOMAIN values |->
                        IF i \in k..(k + n) - 1
                        THEN SubSeq(all, (i - k) * Word + 1, (i - k + 1) * Word)
                        ELSE values[i]]
        /\ tail' = Drop(all, n * Word)
        /\ received' = received + Len(bytes)
    <2>1. (received - Len(tail)) \div Word = k
      <3>1. received - Len(tail) = k * Word + 0 /\ k * Word + 0 \in Nat /\ 0 \in 0..Word - 1
        BY <1>1, <1>2, Sizes
      <3> QED BY <1>2, <3>1, Quotient
    <2> QED BY <2>1 DEF Words, Joined
  <1>5. PICK r \in 0..Word - 1 : n \in Nat /\ Len(all) = n * Word + r /\ n * Word \in Nat
    BY <1>3, Division
  <1> HIDE DEF all, n
  <1>6. n * Word <= Len(all) /\ Len(all) < n * Word + Word /\ n * Word \in 0..Len(all)
    BY <1>5, Sizes
  <1>7. received' = (k + n) * Word + r /\ (k + n) * Word = k * Word + n * Word
    <2>1. received' = k * Word + Len(all)
      BY <1>1, <1>2, <1>3, <1>4
    <2>2. (k + n) * Word = k * Word + n * Word
      BY <1>2, <1>5, Sum
    <2> QED BY <1>2, <1>5, <2>1, <2>2
  <1>8. /\ tail' \in Seq(Nat) /\ Len(tail') = r
        /\ \A i \in 1..r : tail'[i] = (k + n) * Word + i
    <2>1. /\ tail' \in Seq(Nat) /\ Len(tail') = Len(all) - n * Word
          /\ \A i \in 1..Len(all) - n * Word : tail'[i] = all[n * Word + i]
      BY <1>3, <1>4, <1>6, CutInTwo
    <2>2. Len(all) - n * Word = r
      BY <1>5
    <2>3. ASSUME NEW i \in 1..r PROVE tail'[i] = (k + n) * Word + i
      <3>1. n * Word + i \in 1..Len(all) /\ tail'[i] = all[n * Word + i]
        BY <1>5, <2>1, <2>2
      <3>2. tail'[i] = k * Word + (n * Word + i)
        BY <1>3, <3>1
      <3> QED BY <1>2, <1>5, <1>7, <3>2
    <2> QED BY <2>1, <2>2, <2>3
  <1>9. received' \in Nat /\ received <= received' /\ k + n \in 0..received'
    <2>1. k + n <= (k + n) * Word
      BY <1>2, <1>5, Sizes
    <2> QED BY <1>1, <1>2, <1>3, <1>4, <1>5, <1>7, <2>1, Sizes
  <1>10. ASSUME NEW i \in DOMAIN values
         PROVE  values'[i] = IF (i + 1) * Word <= received' THEN Produced(i) ELSE <<>>
    <2>1. i \in Nat /\ values[i] = IF (i + 1) * Word <= received THEN Produced(i) ELSE <<>>
      BY Sizes DEF Filled
    <2>2. (i + 1) * Word = i * Word + Word /\ i * Word \in Nat
      BY <2>1, Sum, Product
    <2>3. CASE i < k
      <3>1. (i + 1) * Word <= k * Word
        BY <1>2, <2>1, <2>2, <2>3, Later
      <3>2. (i + 1) * Word <= received /\ (i + 1) * Word <= received'
        BY <1>1, <1>2, <1>9, <2>2, <3>1, Sizes
      <3>3. values'[i] = values[i]
        BY <1>2, <1>4, <1>5, <2>1, <2>3
      <3> QED BY <2>1, <3>2, <3>3
    <2>4. CASE k <= i /\ i < k + n
      <3>1. (i + 1) * Word <= (k + n) * Word
        <4>1. i \in Nat /\ k + n \in Nat /\ i < k + n
          BY <1>2, <1>5, <2>1, <2>4
        <4>2. \A h \in Nat : i < h => i * Word + Word <= h * Word
          BY <4>1, Later
        <4> QED BY <2>2, <4>1, <4>2
      <3>2. (i + 1) * Word <= received'
        BY <1>2, <1>5, <1>7, <2>2, <3>1, Sizes
      <3>3. values'[i] = SubSeq(all, (i - k) * Word + 1, (i - k + 1) * Word)
        <4>1. i \in k..(k + n) - 1
          BY <1>2, <1>5, <2>1, <2>4
        <4> QED BY <1>4, <4>1
      <3>4. SubSeq(all, (i - k) * Word + 1, (i - k + 1) * Word) = Produced(i)
        BY <1>2, <1>3, <1>5, <1>6, <2>1, <2>4, WordAt
      <3> QED BY <3>2, <3>3, <3>4
    <2>5. CASE k + n <= i
      <3>1. (k + n) * Word <= i * Word
        <4>1. CASE k + n = i
          BY <1>2, <1>5, <2>2, <4>1
        <4>2. CASE k + n < i
          <5>1. k + n \in Nat /\ (k + n) * Word \in Nat
            <6>1. k + n \in Nat
              BY <1>2, <1>5
            <6> QED BY <6>1, Product
          <5>2. (k + n) * Word + Word <= i * Word
            BY <2>1, <4>2, <5>1, Later
          <5> QED BY <2>2, <5>1, <5>2, Sizes
        <4>3. k + n = i \/ k + n < i
          <5>1. k + n \in Nat /\ i \in Nat
            BY <1>2, <1>5, <2>1
          <5> QED BY <2>5, <5>1
        <4> QED BY <4>1, <4>2, <4>3
      <3>2. ~((i + 1) * Word <= received')
        BY <1>2, <1>5, <1>7, <2>2, <3>1, Sizes
      <3>3. ~((i + 1) * Word <= received)
        BY <1>2, <1>9, <2>2, <3>2, Sizes
      <3>4. values'[i] = values[i]
        BY <1>2, <1>4, <1>5, <2>1, <2>5
      <3> QED BY <2>1, <3>2, <3>3, <3>4
    <2> QED BY <1>2, <1>5, <2>1, <2>3, <2>4, <2>5
  <1>11. DOMAIN values' = DOMAIN values /\ received' = dec'.received
    BY <1>4
  <1>12. received' \in 0..Declared
    BY <1>9, <1>11, Sizes
  <1>13. \E m \in 0..received' : /\ received' = m * Word + Len(tail')
                                 /\ \A i \in 1..Len(tail') : tail'[i] = m * Word + i
    BY <1>7, <1>8, <1>9
  <1>14. Len(tail') < Word
    BY <1>8, Sizes
  <1> QED BY <1>8, <1>10, <1>11, <1>12, <1>13, <1>14 DEF Filled

-----------------------------------------------------------------------------
(* Labels, however the bytes are cut.                                      *)

\* A frame at another of its places.
At(l, a) == [l EXCEPT !.at = a]

LEMMA Places ==
  ASSUME NEW l \in Label, NEW a \in Nat
  PROVE  /\ At(l, a) \in Label
         /\ At(l, a).type = l.type /\ At(l, a).size = l.size /\ At(l, a).at = a
         /\ At(l, a).base = l.base /\ At(l, a).meta = l.meta
         /\ Total(At(l, a)) = Total(l) /\ End(At(l, a)) = End(l)
         /\ \A b \in Nat : At(At(l, a), b) = At(l, b)
         /\ Total(l) \in Nat /\ l.at \in Nat
  <1>1. /\ At(l, a) \in Label
        /\ At(l, a).type = l.type /\ At(l, a).size = l.size /\ At(l, a).at = a
        /\ At(l, a).base = l.base /\ At(l, a).meta = l.meta
    BY DEF At, Label
  <1>2. Total(At(l, a)) = Total(l) /\ End(At(l, a)) = End(l)
    BY <1>1 DEF Total, End
  <1>3. \A b \in Nat : At(At(l, a), b) = At(l, b)
    BY DEF At, Label
  <1>4. Total(l) \in Nat /\ l.at \in Nat
    BY Sizes DEF Label, Total
  <1> QED BY <1>1, <1>2, <1>3, <1>4

LEMMA ValidPlaces ==
  ASSUME NEW l \in Label, Valid(l), l.type # "none", NEW a \in 1..Total(l)
  PROVE  Valid(At(l, a)) /\ (Honest(l) => Honest(At(l, a)))
  <1>1. a \in Nat
    BY Places
  <1>2. /\ At(l, a) \in Label
        /\ At(l, a).type = l.type /\ At(l, a).size = l.size /\ At(l, a).at = a
        /\ At(l, a).base = l.base /\ At(l, a).meta = l.meta
        /\ Total(At(l, a)) = Total(l) /\ End(At(l, a)) = End(l)
    BY <1>1, Places
  <1>3. Valid(At(l, a))
    BY <1>2 DEF Valid
  <1> QED BY <1>2, <1>3 DEF Honest

\* The decoder takes the first n bytes.
LEMMA StreamDrops ==
  ASSUME NEW bytes \in Seq(Byte), NEW lab, Stream(bytes, lab), NEW n \in 0..Len(bytes)
  PROVE  Stream(Drop(bytes, n), [q \in 0..Len(bytes) - n |-> lab[q + n]])
  <1> DEFINE rest == Drop(bytes, n)
             new == [q \in 0..Len(bytes) - n |-> lab[q + n]]
  <1>1. /\ Len(bytes) \in Nat /\ rest \in Seq(Byte) /\ Len(rest) = Len(bytes) - n
        /\ \A i \in 1..Len(bytes) - n : rest[i] = bytes[n + i]
    BY CutInTwo, LenProperties
  <1> HIDE DEF rest
  <1>2. \A q \in 0..Len(rest) : q + n \in 0..Len(bytes) /\ new[q] = lab[q + n]
    BY <1>1
  <1>3. new \in [0..Len(rest) -> Label]
    BY <1>1, <1>2 DEF Stream
  <1>4. \A q \in 0..Len(rest) : Valid(new[q])
    BY <1>2 DEF Stream
  <1>5. ASSUME NEW q \in 1..Len(rest) PROVE rest[q] = ByteOf(new[q])
    <2>1. q + n \in 1..Len(bytes) /\ rest[q] = bytes[q + n] /\ new[q] = lab[q + n]
      BY <1>1, <1>2
    <2> QED BY <2>1 DEF Stream
  <1>6. ASSUME NEW q \in 0..Len(rest), NEW j \in 0..Len(rest), q + j <= Len(rest),
               new[q].at + j <= Total(new[q])
        PROVE  new[q + j] = [new[q] EXCEPT !.at = @ + j]
    <2>1. /\ q + n \in 0..Len(bytes) /\ j \in 0..Len(bytes) /\ (q + n) + j <= Len(bytes)
          /\ q + j \in 0..Len(rest) /\ (q + j) + n = (q + n) + j
      BY <1>1, <1>6
    <2>2. new[q] = lab[q + n] /\ new[q + j] = lab[(q + n) + j]
      BY <1>2, <2>1
    <2> HIDE DEF new
    <2> QED BY <1>6, <2>1, <2>2 DEF Stream
  <1>7. ASSUME NEW q \in 1..Len(rest), Over(new[q - 1]) PROVE Follows(new[q - 1], new[q])
    <2>1. /\ q - 1 \in 0..Len(rest) /\ q \in 0..Len(rest) /\ q + n \in 1..Len(bytes)
          /\ (q - 1) + n = (q + n) - 1
      BY <1>1
    <2>2. new[q - 1] = lab[(q + n) - 1] /\ new[q] = lab[q + n]
      BY <1>2, <2>1
    <2> HIDE DEF new
    <2> QED BY <1>7, <2>1, <2>2 DEF Stream
  <1> HIDE DEF new
  <1>8. Stream(rest, new)
    BY <1>3, <1>4, <1>5, <1>6, <1>7 DEF Stream
  <1> QED BY <1>8 DEF rest, new

\* The writer sends the first bytes of a frame, or goes on with the one it is in.
Appended(bytes, lab, part, m) ==
    [q \in 0..Len(bytes) + Len(part) |->
        IF q <= Len(bytes) THEN lab[q] ELSE At(m, m.at + (q - Len(bytes)) - 1)]

LEMMA StreamAppends ==
  ASSUME NEW bytes \in Seq(Byte), NEW lab, Stream(bytes, lab), NEW part \in Seq(Byte),
         NEW m \in Label, Valid(m), m.type # "none", m.at + Len(part) <= Total(m) + 1,
         \A i \in 1..Len(part) : part[i] = ByteOf(At(m, m.at + i - 1)),
         Over(lab[Len(bytes)]) => Follows(lab[Len(bytes)], m),
         ~Over(lab[Len(bytes)]) => m = At(lab[Len(bytes)], lab[Len(bytes)].at + 1)
  PROVE  Stream(bytes \o part, Appended(bytes, lab, part, m))
  <1> DEFINE N == Len(bytes)
             P == Len(part)
             new == Appended(bytes, lab, part, m)
             all == bytes \o part
  <1>1. /\ N \in Nat /\ P \in Nat /\ all \in Seq(Byte) /\ Len(all) = N + P
        /\ \A i \in 1..N : all[i] = bytes[i]
        /\ \A i \in 1..P : all[N + i] = part[i]
    BY Joins
  <1>2. /\ lab \in [0..N -> Label]
        /\ \A q \in 0..N : Valid(lab[q])
        /\ \A q \in 1..N : bytes[q] = ByteOf(lab[q])
        /\ \A q, j \in 0..N : q + j <= N /\ lab[q].at + j <= Total(lab[q])
                                => lab[q + j] = [lab[q] EXCEPT !.at = @ + j]
        /\ \A q \in 1..N : Over(lab[q - 1]) => Follows(lab[q - 1], lab[q])
    BY DEF Stream
  <1>3. /\ \A q \in 0..N : new[q] = lab[q]
        /\ \A i \in 1..P : new[N + i] = At(m, m.at + i - 1)
    <2>1. \A i \in 1..P : /\ N + i \in 0..N + P /\ ~(N + i <= N) /\ (N + i) - N = i
      BY <1>1
    <2>2. \A q \in 0..N : q \in 0..N + P /\ q <= N
      BY <1>1
    <2> QED BY <2>1, <2>2 DEF Appended
  <1>4. m.at \in Nat /\ m.at \in 1..Total(m) /\ Total(m) \in Nat
    BY Places DEF Valid
  <1>5. ASSUME NEW i \in 1..P
        PROVE  /\ m.at + i - 1 \in 1..Total(m) /\ m.at + i - 1 \in Nat
               /\ Valid(At(m, m.at + i - 1))
    <2>1. m.at + i - 1 \in 1..Total(m) /\ m.at + i - 1 \in Nat
      BY <1>1, <1>4
    <2> QED BY <2>1, ValidPlaces
  <1>6. \A q \in 0..N + P : q \in 0..N \/ \E i \in 1..P : q = N + i
    <2>1. ASSUME NEW q \in 0..N + P PROVE q \in 0..N \/ (q - N \in 1..P /\ q = N + (q - N))
      BY <1>1
    <2> QED BY <2>1
  <1>7. new = [q \in 0..N + P |-> new[q]]
    BY DEF Appended
  <1>7a. \A i \in 1..P : N + i \in 0..N + P
    BY <1>1
  <1> HIDE DEF new, all
  <1>8. \A q \in 0..N + P : Valid(new[q]) /\ new[q] \in Label
    BY <1>2, <1>3, <1>5, <1>6 DEF Valid
  <1>9. ASSUME NEW q \in 1..N + P PROVE all[q] = ByteOf(new[q])
    <2>1. q \in 1..N \/ \E i \in 1..P : q = N + i
      BY <1>1, <1>6
    <2>2. CASE q \in 1..N
      BY <1>1, <1>2, <1>3, <2>2
    <2>3. CASE \E i \in 1..P : q = N + i
      BY <1>1, <1>3, <2>3
    <2> QED BY <2>1, <2>2, <2>3
  <1>10. ASSUME NEW q \in 0..N + P, NEW j \in 0..N + P, q + j <= N + P,
                new[q].at + j <= Total(new[q])
         PROVE  new[q + j] = At(new[q], new[q].at + j)
    <2>1. CASE q + j <= N
      <3>1. q \in 0..N /\ j \in 0..N /\ q + j \in 0..N
        BY <1>1, <2>1
      <3>2. new[q] = lab[q] /\ new[q + j] = lab[q + j]
        BY <1>3, <3>1
      <3> QED BY <1>2, <1>10, <2>1, <3>1, <3>2 DEF At
    <2>2. ASSUME NEW i \in 1..P, q = N + i PROVE new[q + j] = At(new[q], new[q].at + j)
      <3>1. i + j \in 1..P /\ q + j = N + (i + j)
        BY <1>1, <1>10, <2>2
      <3>2. new[q] = At(m, m.at + i - 1) /\ new[q + j] = At(m, m.at + (i + j) - 1)
        BY <1>3, <2>2, <3>1
      <3>3. m.at + i - 1 \in Nat /\ new[q].at = m.at + i - 1
        BY <1>5, <2>2, <3>2, Places
      <3>4. new[q].at + j \in Nat /\ new[q].at + j = m.at + (i + j) - 1
        BY <1>1, <1>4, <3>3
      <3> QED BY <3>2, <3>3, <3>4, Places
    <2>3. ASSUME q \in 0..N, NEW i \in 1..P, q + j = N + i
          PROVE new[q + j] = At(new[q], new[q].at + j)
      <3> DEFINE k == N - q
                 l == lab[q]
      <3>1. k \in 0..N /\ q + k = N /\ j = k + i /\ N \in 0..N
        <4> HIDE DEF l
        <4> QED BY <1>1, <1>10, <2>3
      <3>2. new[q] = l /\ l \in Label /\ l.at \in Nat /\ Total(l) \in Nat
        BY <1>2, <1>3, <2>3, Places
      <3>3. l.at + k < Total(l) /\ l.at + k \in Nat
        <4>1. l.at + j <= Total(l) /\ i \in Nat /\ i > 0
          BY <1>1, <1>10, <3>2
        <4> HIDE DEF l, k
        <4> QED BY <1>1, <3>1, <3>2, <4>1
      <3>4. lab[N] = At(l, l.at + k)
        <4>1. q + k <= N /\ l.at + k <= Total(l)
          BY <1>1, <3>1, <3>2, <3>3
        <4>2. lab[q + k] = [lab[q] EXCEPT !.at = @ + k]
          BY <1>2, <2>3, <3>1, <4>1
        <4> QED BY <3>1, <4>2 DEF At
      <3> HIDE DEF l, k
      <3>5. /\ ~Over(lab[N]) /\ lab[N].at = l.at + k
        <4>1. lab[N].at = l.at + k /\ Total(lab[N]) = Total(l)
          BY <3>2, <3>3, <3>4, Places
        <4> QED BY <3>2, <3>3, <4>1 DEF Over
      <3>6. m = At(lab[N], l.at + k + 1) /\ m.at = l.at + k + 1 /\ m = At(l, l.at + k + 1)
        <4>1. m = At(lab[N], l.at + k + 1)
          BY <3>5
        <4>2. l.at + k + 1 \in Nat
          BY <3>3
        <4>3. m = At(l, l.at + k + 1)
          BY <3>2, <3>3, <3>4, <4>1, <4>2, Places
        <4> QED BY <3>2, <4>1, <4>2, <4>3, Places
      <3>7. new[q + j] = At(m, m.at + i - 1)
        BY <1>3, <2>3
      <3>8. m.at + i - 1 = l.at + j /\ l.at + j \in Nat
        BY <1>1, <3>1, <3>2, <3>6
      <3>9. At(m, l.at + j) = At(l, l.at + j)
        <4>1. l.at + k + 1 \in Nat
          BY <3>3
        <4> QED BY <3>2, <3>6, <3>8, <4>1, Places
      <3> QED BY <3>2, <3>7, <3>8, <3>9
    <2>4. q \in 0..N \/ \E i \in 1..P : q = N + i
      BY <1>6
    <2>5. q + j <= N \/ \E i \in 1..P : q + j = N + i
      <3>1. q + j \in 0..N + P
        BY <1>1, <1>10
      <3>2. \A h \in 0..N : h <= N
        BY <1>1
      <3> HIDE DEF N, P
      <3> QED BY <1>6, <3>1, <3>2
    <2> QED BY <2>1, <2>2, <2>3, <2>4, <2>5
  <1>11. ASSUME NEW q \in 1..N + P, Over(new[q - 1]) PROVE Follows(new[q - 1], new[q])
    <2>1. CASE q \in 1..N
      <3>1. q - 1 \in 0..N /\ q \in 0..N
        BY <1>1, <2>1
      <3>2. new[q - 1] = lab[q - 1] /\ new[q] = lab[q]
        BY <1>3, <3>1
      <3> QED BY <1>2, <1>11, <2>1, <3>2
    <2>2. CASE q = N + 1
      <3>1. q - 1 = N /\ N \in 0..N /\ 1 \in 1..P
        BY <1>1, <2>2
      <3>2. new[q - 1] = lab[N] /\ new[q] = At(m, m.at + 1 - 1)
        BY <1>3, <2>2, <3>1
      <3>3. m.at + 1 - 1 = m.at /\ At(m, m.at) = m
        <4>1. At(m, m.at) = m
          BY DEF At, Label
        <4> QED BY <1>4, <4>1
      <3> QED BY <1>11, <3>2, <3>3
    <2>3. ASSUME NEW i \in 1..P, q = N + i, i # 1 PROVE FALSE
      <3>1. i - 1 \in 1..P /\ q - 1 = N + (i - 1) /\ m.at + (i - 1) - 1 \in Nat
            /\ m.at + (i - 1) - 1 < Total(m)
        <4>1. i \in Nat /\ i - 1 \in 1..P /\ q - 1 = N + (i - 1) /\ 1 < i
          BY <1>1, <2>3
        <4>2. m.at + i - 1 <= Total(m)
          BY <1>5
        <4> QED BY <1>4, <4>1, <4>2
      <3>2. new[q - 1] = At(m, m.at + (i - 1) - 1)
        BY <1>3, <3>1
      <3> DEFINE a == m.at + (i - 1) - 1
      <3> HIDE DEF a
      <3>3. new[q - 1].at = a /\ Total(new[q - 1]) = Total(m)
        BY <3>1, <3>2, Places DEF a
      <3>4. a < Total(m) /\ a \in Nat
        BY <3>1 DEF a
      <3>5. a = Total(m)
        BY <1>11, <3>3 DEF Over
      <3> QED BY <1>4, <3>4, <3>5
    <2>4. q \in 1..N \/ \E i \in 1..P : q = N + i
      BY <1>1, <1>6
    <2> QED BY <2>1, <2>2, <2>3, <2>4
  <1>12. new \in [0..N + P -> Label]
    BY <1>7, <1>8
  <1>13. Stream(all, new)
    <2>1. \A q, j \in 0..Len(all) :
             q + j <= Len(all) /\ new[q].at + j <= Total(new[q])
               => new[q + j] = [new[q] EXCEPT !.at = @ + j]
      BY <1>1, <1>10 DEF At
    <2> QED BY <1>1, <1>8, <1>9, <1>11, <1>12, <2>1 DEF Stream
  <1> QED BY <1>13 DEF all, new

LEMMA AppendedEnds ==
  ASSUME NEW bytes \in Seq(Byte), NEW lab, Stream(bytes, lab), NEW part \in Seq(Byte),
         NEW m \in Label, Valid(m), m.type # "none", Honest(m), Len(part) # 0,
         m.at + Len(part) <= Total(m) + 1, \A q \in 0..Len(bytes) : Honest(lab[q])
  PROVE  /\ Appended(bytes, lab, part, m)[0] = lab[0]
         /\ Appended(bytes, lab, part, m)[Len(bytes) + Len(part)] = At(m, m.at + Len(part) - 1)
         /\ \A q \in 0..Len(bytes) + Len(part) : Honest(Appended(bytes, lab, part, m)[q])
  <1> DEFINE N == Len(bytes)
             P == Len(part)
             new == Appended(bytes, lab, part, m)
  <1>1. N \in Nat /\ P \in Nat /\ m.at \in Nat /\ m.at \in 1..Total(m) /\ Total(m) \in Nat
    BY LenProperties, Places DEF Valid
  <1>2. \A q \in 0..N + P : new[q] = IF q <= N THEN lab[q] ELSE At(m, m.at + (q - N) - 1)
    BY DEF Appended
  <1> HIDE DEF new
  <1>3. new[0] = lab[0]
    BY <1>1, <1>2
  <1>4. new[N + P] = At(m, m.at + P - 1)
    <2>1. N + P \in 0..N + P /\ ~(N + P <= N) /\ (N + P) - N = P
      BY <1>1
    <2> QED BY <1>2, <2>1
  <1>5. ASSUME NEW q \in 0..N + P PROVE Honest(new[q])
    <2>1. CASE q <= N
      BY <1>1, <1>2, <2>1
    <2>2. CASE ~(q <= N)
      <3>1. m.at + (q - N) - 1 \in 1..Total(m)
        BY <1>1, <2>2
      <3> QED BY <1>2, <2>2, <3>1, ValidPlaces
    <2> QED BY <2>1, <2>2
  <1> QED BY <1>3, <1>4, <1>5 DEF new

-----------------------------------------------------------------------------
(* What the writer sends.                                                  *)

\* The parts of a frame that carries the bytes.
LEMMA Frames ==
  ASSUME NEW m \in Label, m.at = 1, NEW bytes \in Seq(Nat), Len(bytes) = m.size,
         \A i \in 1..Len(bytes) : bytes[i] = IF m.type = "data" THEN m.base + i ELSE 0
  PROVE  Frame(m.type, bytes)
           = <<HeaderOf(m.type, m.size)>> \o (IF m.size = 0 THEN <<>> ELSE <<PayloadOf(m)>>)
  <1>1. Len(bytes) \in Nat /\ DOMAIN bytes = 1..Len(bytes)
    BY LenProperties
  <1>2. bytes = <<>> <=> m.size = 0
    BY EmptySeq
  <1>3. ASSUME NEW i \in 1..m.size PROVE [byte |-> bytes[i]] = ByteOf([m EXCEPT !.at = Header + i])
    <2>1. Header + i \in Nat /\ ~(Header + i <= Header) /\ (Header + i) - Header = i
      BY <1>1, Sizes
    <2>2. /\ At(m, Header + i).type = m.type /\ At(m, Header + i).base = m.base
          /\ At(m, Header + i).at = Header + i
      BY <2>1, Places
    <2>3. ByteOf(At(m, Header + i)) = [byte |-> IF m.type = "data" THEN m.base + i ELSE 0]
      BY <2>1, <2>2 DEF ByteOf
    <2> QED BY <2>3 DEF At
  <1>4. Payload(bytes) = PayloadOf(m)
    BY <1>1, <1>3 DEF Payload, PayloadOf
  <1> QED BY <1>2, <1>4 DEF Frame

\* The frame of a type and a size that begins after the frame of l.
Begun(l, t, n) ==
    [type |-> t, size |-> n, at |-> 1, base |-> End(l), meta |-> l.type # "none"]

LEMMA Starts ==
  ASSUME NEW l \in Label, Valid(l), Over(l), l.type \notin Terminal,
         NEW t \in Type \ {"none"}, NEW n \in Nat,
         IF l.type = "none" THEN t \in {"meta", "error", "cancelled"} ELSE t # "meta",
         t \in {"meta", "error"} => n = 1, t \in {"complete", "cancelled"} => n = 0,
         t = "complete" => End(l) = Declared,
         t = "data" => n # 0 /\ n % Word = 0 /\ End(l) + n <= Declared
  PROVE  /\ Begun(l, t, n) \in Label /\ Valid(Begun(l, t, n)) /\ Follows(l, Begun(l, t, n))
         /\ End(l) \in Nat
         /\ End(Begun(l, t, n)) = End(l) + (IF t = "data" THEN n ELSE 0)
  <1> DEFINE m == Begun(l, t, n)
  <1>1. End(l) \in Nat /\ End(l) <= Declared
    BY Sizes DEF End, Label, Valid
  <1>2. /\ m \in Label /\ m.type = t /\ m.size = n /\ m.at = 1 /\ m.base = End(l)
        /\ m.meta = (l.type # "none")
    BY <1>1 DEF Begun, Label, Type
  <1> HIDE DEF m
  <1>3. /\ Total(m) = Header + n /\ m.at \in 1..Total(m)
        /\ End(m) = End(l) + (IF t = "data" THEN n ELSE 0)
    BY <1>2, Sizes DEF Total, End
  <1>4. l.type = "none" => End(l) = 0
    BY DEF Valid, Origin, End
  <1>5. Valid(m)
    <2>1. End(m) <= Declared
      BY <1>1, <1>3
    <2>2. t = "meta" => l.type = "none"
      OBVIOUS
    <2>3. t \in {"data", "complete"} => l.type # "none"
      OBVIOUS
    <2> QED BY <1>2, <1>3, <1>4, <2>1, <2>2, <2>3 DEF Valid
  <1>6. Follows(l, m)
    <2>1. l.type = "none" => t \in {"meta", "error", "cancelled"}
      OBVIOUS
    <2>2. l.type # "none" => l.type \in {"meta", "data"} /\ t \in {"data"} \cup Terminal
      BY DEF Label, Type, Terminal
    <2> QED BY <1>2, <2>1, <2>2 DEF Follows
  <1> QED BY <1>1, <1>2, <1>3, <1>5, <1>6 DEF m

\* A write() of a frame that may follow.
LEMMA Writing ==
  ASSUME NEW l \in Label, Valid(l), Over(l), l.type \notin Terminal,
         NEW t \in Type \ {"none"}, NEW bytes \in Seq(Nat), NEW next,
         Write(Frame(t, bytes), next), link' # "ended",
         IF l.type = "none" THEN t \in {"meta", "error", "cancelled"} ELSE t # "meta",
         t \in {"meta", "error"} => Len(bytes) = 1, t \in {"complete", "cancelled"} => Len(bytes) = 0,
         t = "data" => Len(bytes) # 0 /\ Len(bytes) % Word = 0 /\ End(l) + Len(bytes) <= Declared,
         \A i \in 1..Len(bytes) : bytes[i] = IF t = "data" THEN End(l) + i ELSE 0,
         t = "complete" => terminal' = "complete" /\ length' = Declared /\ End(l) = Declared,
         t = "cancelled" => terminal' = "cancelled",
         t = "error" => terminal' = "error" \/ length' # Declared \/ l.type = "none",
         IF next = "last" THEN t \in Terminal
         ELSE t \in {"meta", "data"} /\ sent' = End(l) + (IF t = "data" THEN Len(bytes) ELSE 0)
  PROVE  Writer(l)'
  <1>1. PICK n : n = Len(bytes) /\ n \in Nat
    BY LenProperties
  <1>2. PICK m : m = Begun(l, t, n)
    OBVIOUS
  <1>3. /\ m \in Label /\ Valid(m) /\ Follows(l, m) /\ End(l) \in Nat
        /\ End(m) = End(l) + (IF t = "data" THEN n ELSE 0)
    BY <1>1, <1>2, Starts
  <1>4. m.type = t /\ m.size = n /\ m.at = 1 /\ m.base = End(l) /\ m.meta = (l.type # "none")
    BY <1>2 DEF Begun
  <1>5. Honest(m)'
    BY <1>4 DEF Honest
  <1>6. pending' = <<HeaderOf(m.type, m.size)>> \o (IF m.size = 0 THEN <<>> ELSE <<PayloadOf(m)>>)
    <2>1. \A i \in 1..Len(bytes) : bytes[i] = IF m.type = "data" THEN m.base + i ELSE 0
      BY <1>4
    <2>2. Frame(m.type, bytes)
            = <<HeaderOf(m.type, m.size)>> \o (IF m.size = 0 THEN <<>> ELSE <<PayloadOf(m)>>)
      BY <1>1, <1>3, <1>4, <2>1, Frames
    <2> QED BY <1>4, <2>2 DEF Write
  <1>7. Resumes(m, then)'
    BY <1>1, <1>3, <1>4 DEF Resumes, Write
  <1>8. Begins(l, m)'
    BY <1>3, <1>5, <1>6, <1>7 DEF Begins
  <1> QED BY <1>3, <1>8 DEF Writer, Write

\* The frames without data.
LEMMA ControlFrames ==
  /\ \A t \in {"meta", "error"} : Control(t) = Frame(t, <<0>>)
  /\ \A t \in {"complete", "cancelled"} : Control(t) = Frame(t, <<>>)
  /\ <<0>> \in Seq(Nat) /\ Len(<<0>>) = 1 /\ <<0>>[1] = 0
  /\ <<>> \in Seq(Nat) /\ Len(<<>>) = 0
  BY DEF Control, Json

-----------------------------------------------------------------------------
(* The steps of the server.                                                *)

\* A consumer ends once.
EndsOnce == terminal' = terminal \/ terminal = "none"

\* An honest frame stays honest.
LEMMA HonestStays ==
  ASSUME EndsOnce, UNCHANGED length, NEW l, Honest(l)
  PROVE  Honest(l)'
  BY DEF EndsOnce, Honest

\* A step that neither takes a byte nor sends one only has to keep the writer behind its
\* last byte.
LEMMA Serving ==
  ASSUME IInv, UNCHANGED <<length, wire, clientVars>>, EndsOnce, link = "cut" => link' = "cut",
         States', Producer',
         \A l \in Label : Valid(l) /\ Honest(l) /\ Writer(l) /\ link' # "cut" => Writer(l)'
  PROVE  IInv'
  <1>1. Filled'
    BY DEF IInv, Filled
  <1>2. ASSUME outcome' = "none" PROVE (\E lab \in [0..Len(Bytes) -> Label] : Fits(lab))'
    <2>1. PICK lab \in [0..Len(Bytes) -> Label] : Fits(lab)
      BY <1>2 DEF IInv
    <2>2. Bytes' = Bytes
      BY DEF Bytes
    <2>3. Stream(Bytes', lab)
      BY <2>1, <2>2 DEF Fits
    <2>4. Decoder(lab[0])'
      BY <2>1 DEF Fits, Decoder
    <2>5. \A q \in 0..Len(Bytes') : Honest(lab[q])'
      BY <2>1, <2>2, HonestStays DEF Fits
    <2>6. ASSUME link' # "cut" PROVE Writer(lab[Len(Bytes)])'
      <3>1. PICK l : l = lab[Len(Bytes)]
        OBVIOUS
      <3>2. Len(Bytes) \in 0..Len(Bytes)
        <4>1. Len(Bytes) \in Nat
          BY <2>1, LenProperties DEF Bytes, IInv, States, Fits
        <4> QED BY <4>1
      <3>3. Valid(l) /\ Honest(l) /\ Writer(l) /\ l \in Label
        BY <2>1, <2>6, <3>1, <3>2 DEF Fits, Stream
      <3>4. Writer(l)'
        BY <2>6, <3>3
      <3> QED BY <2>2, <3>1, <3>4
    <2> QED BY <2>1, <2>2, <2>3, <2>4, <2>5, <2>6 DEF Fits
  <1> QED BY <1>1, <1>2 DEF IInv

LEMMA StartResponseKeeps ==
  ASSUME IInv, StartResponse
  PROVE  IInv'
  <1>1. UNCHANGED <<length, wire, clientVars>> /\ EndsOnce /\ (link = "cut" => link' = "cut")
    BY DEF StartResponse, EndsOnce
  <1>2. States'
    BY DEF IInv, States, StartResponse
  <1>3. Producer'
    BY DEF IInv, Producer, StartResponse
  <1>4. ASSUME NEW l \in Label, Writer(l), link' # "cut" PROVE Writer(l)'
    <2>1. link' # "ended"
      BY DEF IInv, States, StartResponse
    <2> QED BY <1>4, <2>1 DEF Writer, StartResponse
  <1> QED BY <1>1, <1>2, <1>3, <1>4, Serving

\* The parts that the control frames have in common.
LEMMA ControlKeeps ==
  ASSUME IInv, UNCHANGED <<length, held, wire, link, clientVars, aborted, deleting, taken>>,
         EndsOnce, terminal' \in {"none", "complete", "cancelled", "error"},
         pc \in {"metadata", "read"}, UNCHANGED <<carry, view, sent>>,
         NEW t \in {"meta"} \cup Terminal, NEW next, Write(Control(t), next),
         IF t = "meta" THEN next = "read" /\ pc = "metadata" ELSE next = "last",
         t = "complete" => pc = "read" /\ terminal' = "complete" /\ length = Declared
                            /\ sent = Declared,
         t = "cancelled" => terminal' = "cancelled",
         t = "error" => terminal' = "error" \/ length # Declared \/ pc = "metadata"
  PROVE  IInv'
  <1>1. link # "ended" /\ pc' = "write" /\ then' = next
    BY DEF IInv, States, Write
  <1>2. States'
    BY <1>1 DEF IInv, States, EndsOnce
  <1>3. Producer'
    <2>1. CASE t = "meta"
      <3>1. /\ taken' = 0 /\ sent' = 0 /\ carry' = <<>> /\ view' = <<>> /\ Len(<<>>) = 0
            /\ <<>> \in Seq(Nat) /\ 0 \in Nat
        BY <2>1 DEF IInv, Producer
      <3>2. /\ \A i \in 1..Len(carry') : carry'[i] = sent' + i
            /\ \A i \in 1..Len(view') : view'[i] = sent' + Len(carry') + i
        BY <3>1
      <3> QED BY <1>1, <2>1, <3>1, <3>2 DEF IInv, Producer
    <2>2. CASE t # "meta"
      BY <1>1, <2>2 DEF IInv, Producer
    <2> QED BY <2>1, <2>2
  <1>4. ASSUME NEW l \in Label, Valid(l), Writer(l), link' # "cut" PROVE Writer(l)'
    <2>1. Over(l) /\ l.type \notin Terminal
      BY <1>4, Sizes DEF Writer, Resumes, Origin, Over, Total, Terminal
    <2>2. pc = "metadata" => l = Origin
      BY <1>4 DEF Writer
    <2>3. pc = "read" => l.type \in {"meta", "data"} /\ End(l) = sent
      BY <1>4 DEF Writer, Resumes
    <2>4. pc = "metadata" => l.type = "none" /\ End(l) = 0 /\ sent = 0
      BY <2>2 DEF Origin, End, IInv, Producer
    <2>5. t \in Type \ {"none"} /\ (t \in {"meta", "error"} \/ t \in {"complete", "cancelled"})
      BY DEF Type, Terminal
    <2>6. PICK bytes \in Seq(Nat) :
            /\ Write(Frame(t, bytes), next)
            /\ Len(bytes) = IF t \in {"meta", "error"} THEN 1 ELSE 0
            /\ \A i \in 1..Len(bytes) : bytes[i] = 0
      <3>1. CASE t \in {"meta", "error"}
        <4>1. PICK bytes : bytes = <<0>>
          OBVIOUS
        <4>2. bytes \in Seq(Nat) /\ Len(bytes) = 1 /\ bytes[1] = 0
          BY <4>1, ControlFrames
        <4>3. Write(Frame(t, bytes), next)
          BY <3>1, <4>1, ControlFrames
        <4> QED BY <2>5, <3>1, <4>2, <4>3
      <3>2. CASE t \in {"complete", "cancelled"}
        <4>1. PICK bytes : bytes = <<>>
          OBVIOUS
        <4>2. bytes \in Seq(Nat) /\ Len(bytes) = 0
          BY <4>1, ControlFrames
        <4>3. Write(Frame(t, bytes), next)
          BY <3>2, <4>1, ControlFrames
        <4>4. Len(bytes) = IF t \in {"meta", "error"} THEN 1 ELSE 0
          BY <3>2, <4>2
        <4>5. \A i \in 1..Len(bytes) : bytes[i] = 0
          BY <4>2
        <4> QED BY <4>2, <4>3, <4>4, <4>5
      <3> QED BY <2>5, <3>1, <3>2
    <2>7. IF l.type = "none" THEN t \in {"meta", "error", "cancelled"} ELSE t # "meta"
      BY <2>3, <2>4, <2>5
    <2>8. IF next = "last" THEN t \in Terminal
          ELSE t \in {"meta", "data"} /\ sent' = End(l) + (IF t = "data" THEN Len(bytes) ELSE 0)
      BY <2>4 DEF Terminal
    <2>9. /\ t = "complete" => terminal' = "complete" /\ length' = Declared /\ End(l) = Declared
          /\ t = "error" => terminal' = "error" \/ length' # Declared \/ l.type = "none"
      BY <2>3, <2>4
    <2>10. /\ t # "data" /\ link' # "ended"
           /\ t \in {"meta", "error"} => Len(bytes) = 1
           /\ t \in {"complete", "cancelled"} => Len(bytes) = 0
      BY <1>1, <2>5, <2>6
    <2> QED BY <1>4, <2>1, <2>5, <2>6, <2>7, <2>8, <2>9, <2>10, Writing
  <1> QED BY <1>2, <1>3, <1>4, Serving

LEMMA ControlStepsKeep ==
  ASSUME IInv, Metadata \/ MetadataFails \/ Revoked \/ ProducerFailed
  PROVE  IInv'
  <1>1. terminal' = terminal /\ EndsOnce /\ terminal' \in {"none", "complete", "cancelled", "error"}
    BY DEF IInv, States, Metadata, MetadataFails, Revoked, ProducerFailed, EndsOnce
  <1>2. CASE Metadata
    BY <1>1, <1>2, ControlKeeps DEF Metadata
  <1>3. CASE MetadataFails
    BY <1>1, <1>3, ControlKeeps DEF MetadataFails, Finish, Terminal
  <1>4. CASE Revoked
    BY <1>1, <1>4, ControlKeeps DEF Revoked, Finish, Terminal
  <1>5. CASE ProducerFailed
    BY <1>1, <1>5, ControlKeeps DEF ProducerFailed, Finish, Terminal
  <1> QED BY <1>2, <1>3, <1>4, <1>5

\* The artifact has ended in the middle of a word, or before or after its declared end.
LEMMA EndOfArtifactKeeps ==
  ASSUME IInv, EndOfArtifact
  PROVE  IInv'
  <1>1. /\ pc = "read" /\ terminal = "none" /\ taken = length /\ terminal' = "complete"
        /\ UNCHANGED <<carry, view, sent, length, held, wire, link, clientVars, aborted,
                       deleting, taken>>
    BY DEF EndOfArtifact, Finish
  <1>2. EndsOnce
    BY <1>1 DEF EndsOnce
  <1>3. view = <<>> /\ length = sent + Len(carry) /\ Len(carry) \in Nat /\ sent \in Nat
    <2>1. view = <<>> /\ taken = sent + Len(carry) + Len(view) /\ carry \in Seq(Nat) /\ sent \in Nat
      BY <1>1, Sizes DEF IInv, Producer
    <2>2. Len(carry) \in Nat /\ Len(<<>>) = 0
      BY <2>1, LenProperties
    <2> QED BY <1>1, <2>1, <2>2
  <1>4. CASE Whole
    <2>1. length = Declared /\ sent = Declared /\ Write(Control("complete"), "last")
      <3>1. carry = <<>> /\ sent = Declared
        BY <1>4 DEF Whole
      <3> QED BY <1>3, <1>4, <3>1 DEF EndOfArtifact, Finish
    <2> QED BY <1>1, <1>2, <2>1, ControlKeeps DEF Terminal
  <1>5. CASE ~Whole
    <2>1. length # Declared
      <3> SUFFICES ASSUME length = Declared PROVE Whole
        BY <1>5
      <3>1. PICK m \in Nat : sent = m * Word /\ m * Word \in Nat
        <4>1. sent % Word = 0 /\ sent \in Nat
          BY Sizes DEF IInv, Producer
        <4> QED BY <4>1, Division
      <3>2. Len(carry) \in 0..Word - 1
        BY <1>3, Sizes DEF IInv, Producer
      <3>3. Declared = m * Word + Len(carry) /\ Declared \in Nat
        BY <1>3, <3>1, Sizes
      <3>4. Declared % Word = Len(carry)
        BY <3>2, <3>3, Quotient
      <3>5. Len(carry) = 0
        BY <3>4, Sizes
      <3>6. carry = <<>>
        BY <3>5, EmptySeq DEF IInv, Producer
      <3> QED BY <1>3, <3>5, <3>6 DEF Whole
    <2>2. Write(Control("error"), "last")
      BY <1>5 DEF EndOfArtifact, Finish
    <2> QED BY <1>1, <1>2, <2>1, <2>2, ControlKeeps DEF Terminal
  <1> QED BY <1>4, <1>5

\* A frame of whole words goes out, or the error that the production is too long.
LEMMA DataKeeps ==
  ASSUME IInv, UNCHANGED <<length, terminal, held, wire, link, clientVars, aborted, deleting>>,
         pc \in {"read", "view"}, NEW bytes \in Seq(Nat), Len(bytes) # 0, Len(bytes) % Word = 0,
         \A i \in 1..Len(bytes) : bytes[i] = sent + i, sent + Len(bytes) <= length,
         NEW next \in {"read", "view"}, Data(bytes, next),
         taken' \in 0..length, carry' \in Seq(Nat), view' \in Seq(Nat), Len(carry') < Word,
         taken' = sent + Len(bytes) + Len(carry') + Len(view'),
         \A i \in 1..Len(carry') : carry'[i] = sent + Len(bytes) + i,
         \A i \in 1..Len(view') : view'[i] = sent + Len(bytes) + Len(carry') + i,
         carry' = <<>> \/ view' = <<>>, next = "read" => view' = <<>>
  PROVE  IInv'
  <1>1. link # "ended" /\ EndsOnce /\ sent \in Nat /\ sent \in 0..Declared /\ sent % Word = 0
        /\ length \in Nat /\ Len(bytes) \in Nat
    <2>1. link # "ended" /\ EndsOnce
      BY DEF IInv, States, EndsOnce
    <2>2. sent \in 0..Declared /\ sent % Word = 0 /\ length \in Nat
      BY Sizes DEF IInv, Producer
    <2>3. Len(bytes) \in Nat
      BY LenProperties
    <2> QED BY <2>1, <2>2, <2>3, Sizes
  <1>2. CASE sent + Len(bytes) > Declared
    <2>1. /\ Write(Control("error"), "last") /\ sent' = sent
          /\ pc' = "write" /\ then' = "last"
      BY <1>2 DEF Data, Write
    <2>2. States'
      BY <2>1 DEF IInv, States
    <2>3. Producer'
      BY <2>1 DEF IInv, Producer
    <2>4. ASSUME NEW l \in Label, Valid(l), Writer(l) PROVE Writer(l)'
      <3>1. Over(l) /\ l.type \in {"meta", "data"}
        BY <2>4 DEF Writer, Resumes
      <3>2. length # Declared
        BY <1>1, <1>2, Sizes
      <3>3. PICK part : part = <<0>>
        OBVIOUS
      <3>4. part \in Seq(Nat) /\ Len(part) = 1 /\ part[1] = 0 /\ Write(Frame("error", part), "last")
        BY <2>1, <3>3, ControlFrames
      <3>5. "error" \in Type \ {"none"} /\ l.type \notin Terminal /\ "error" \in Terminal
        BY <3>1 DEF Type, Terminal
      <3>6. \A i \in 1..Len(part) : part[i] = 0
        BY <3>4
      <3> HIDE DEF Write
      <3> QED BY <1>1, <2>4, <3>1, <3>2, <3>4, <3>5, <3>6, Writing
    <2> QED BY <1>1, <2>2, <2>3, <2>4, Serving
  <1>3. CASE ~(sent + Len(bytes) > Declared)
    <2>1. /\ Write(Frame("data", bytes), next) /\ sent' = sent + Len(bytes)
          /\ pc' = "write" /\ then' = next
      BY <1>3 DEF Data, Write
    <2>2. States'
      BY <2>1 DEF IInv, States
    <2>3. sent' \in 0..Declared /\ sent' % Word = 0
      <3>1. sent' \in 0..Declared
        BY <1>1, <1>3, <2>1, Sizes
      <3>2. (sent + Len(bytes)) % Word = 0
        BY <1>1, WholeSum
      <3> QED BY <2>1, <3>1, <3>2
    <2>4. Producer'
      BY <2>1, <2>3 DEF IInv, Producer
    <2>5. ASSUME NEW l \in Label, Valid(l), Writer(l) PROVE Writer(l)'
      <3>1. Over(l) /\ l.type \in {"meta", "data"} /\ End(l) = sent
        BY <2>5 DEF Writer, Resumes
      <3>2. "data" \in Type \ {"none"} /\ l.type \notin Terminal
        BY <3>1 DEF Type, Terminal
      <3>3. End(l) + Len(bytes) <= Declared
        BY <1>1, <1>3, <3>1, Sizes
      <3> QED BY <1>1, <2>1, <2>5, <3>1, <3>2, <3>3, Writing
    <2> QED BY <1>1, <2>2, <2>4, <2>5, Serving
  <1> QED BY <1>2, <1>3

\* The producer's bytes move between carry and view, and none is sent.
LEMMA CarryKeeps ==
  ASSUME IInv, UNCHANGED <<length, terminal, held, wire, link, clientVars, aborted, deleting>>,
         UNCHANGED <<pending, then, sent>>, pc \in {"read", "view"}, pc' \in {"read", "view"},
         taken' \in 0..length, carry' \in Seq(Nat), view' \in Seq(Nat), Len(carry') < Word,
         taken' = sent + Len(carry') + Len(view'),
         \A i \in 1..Len(carry') : carry'[i] = sent + i,
         \A i \in 1..Len(view') : view'[i] = sent + Len(carry') + i,
         carry' = <<>> \/ view' = <<>>, pc' = "read" => view' = <<>>
  PROVE  IInv'
  <1>1. EndsOnce
    BY DEF EndsOnce
  <1>2. States'
    BY DEF IInv, States
  <1>3. Producer'
    BY DEF IInv, Producer
  <1>4. ASSUME NEW l \in Label, Writer(l) PROVE Writer(l)'
    <2>1. link # "ended"
      BY DEF IInv, States
    <2> QED BY <1>4, <2>1 DEF Writer, Resumes
  <1> QED BY <1>1, <1>2, <1>3, <1>4, Serving

LEMMA ViewKeeps ==
  ASSUME IInv, View
  PROVE  IInv'
  <1>1. PICK aligned : aligned = Len(view) - (Len(view) % Word)
    OBVIOUS
  <1>2. /\ pc = "view" /\ taken = sent + Len(carry) + Len(view)
        /\ carry = <<>> \/ view = <<>>
        /\ carry \in Seq(Nat) /\ view \in Seq(Nat) /\ Len(carry) < Word
        /\ taken \in 0..length /\ length \in Nat /\ sent \in Nat
        /\ \A i \in 1..Len(carry) : carry[i] = sent + i
        /\ \A i \in 1..Len(view) : view[i] = sent + Len(carry) + i
    BY Sizes DEF View, IInv, Producer
  <1>3. /\ IF aligned > 0 THEN Data(First(view, aligned), "read")
           ELSE pc' = "read" /\ UNCHANGED <<pending, then, sent>>
        /\ carry' = carry \o Drop(view, aligned) /\ view' = <<>>
        /\ UNCHANGED <<length, terminal, held, wire, link, clientVars, aborted, deleting, taken>>
    BY <1>1 DEF View, Rest
  <1>0. /\ Len(view) \in Nat /\ Len(carry) \in Nat /\ aligned \in 0..Len(view) /\ aligned % Word = 0
        /\ Len(view) - aligned < Word
    <2>1. Len(view) \in Nat /\ Len(carry) \in Nat
      BY <1>2, LenProperties
    <2>2. PICK r : r = Len(view) % Word
      OBVIOUS
    <2>3. aligned \in 0..Len(view) /\ r \in 0..Word - 1 /\ aligned % Word = 0 /\ aligned = Len(view) - r
      BY <1>1, <2>1, <2>2, Aligned
    <2> QED BY <2>1, <2>3, Sizes
  <1>4. /\ Len(view) \in Nat /\ Len(carry) \in Nat /\ aligned \in 0..Len(view)
        /\ Len(view) - aligned < Word /\ aligned \in Nat
    BY <1>0
  <1>5. /\ First(view, aligned) \in Seq(Nat) /\ Len(First(view, aligned)) = aligned
        /\ \A i \in 1..aligned : First(view, aligned)[i] = view[i]
        /\ Drop(view, aligned) \in Seq(Nat) /\ Len(Drop(view, aligned)) = Len(view) - aligned
        /\ \A i \in 1..Len(view) - aligned : Drop(view, aligned)[i] = view[aligned + i]
    <2>1. view \in Seq(Nat) /\ aligned \in 0..Len(view)
      BY <1>2, <1>4
    <2> QED BY <2>1, CutInTwo
  <1>6. /\ carry' \in Seq(Nat) /\ Len(carry') = Len(carry) + (Len(view) - aligned)
        /\ \A i \in 1..Len(carry) : carry'[i] = carry[i]
        /\ \A i \in 1..Len(view) - aligned : carry'[Len(carry) + i] = view[aligned + i]
    <2>1. carry \in Seq(Nat) /\ Drop(view, aligned) \in Seq(Nat)
      BY <1>2, <1>5
    <2>2. PICK rest : rest = Drop(view, aligned)
      OBVIOUS
    <2>3. rest \in Seq(Nat) /\ carry' = carry \o rest
      BY <1>3, <2>1, <2>2
    <2>4. /\ carry' \in Seq(Nat) /\ Len(carry') = Len(carry) + Len(rest)
          /\ \A i \in 1..Len(carry) : carry'[i] = carry[i]
          /\ \A i \in 1..Len(rest) : carry'[Len(carry) + i] = rest[i]
      BY <2>1, <2>3, Joins
    <2> QED BY <1>5, <2>2, <2>4
  <1>7. view' \in Seq(Nat) /\ Len(view') = 0
    BY <1>3, ControlFrames
  <1>8. view = <<>> => Len(view) = 0
    BY ControlFrames
  <1>9. carry = <<>> => Len(carry) = 0
    BY ControlFrames
  <1>10. CASE aligned > 0
    <2>1. Len(carry) = 0
      BY <1>2, <1>4, <1>8, <1>9, <1>10
    <2>2. \A i \in 1..aligned : First(view, aligned)[i] = sent + i
      BY <1>2, <1>4, <1>5, <2>1
    <2>3. ASSUME NEW i \in 1..Len(carry') PROVE carry'[i] = sent + aligned + i
      <3>1. i \in 1..Len(view) - aligned /\ aligned + i \in 1..Len(view) /\ 0 + i = i
        BY <1>4, <1>6, <2>1
      <3>2. carry'[i] = view[aligned + i]
        BY <1>6, <2>1, <3>1
      <3> QED BY <1>2, <1>4, <2>1, <3>1, <3>2
    <2>4. sent + aligned <= length /\ taken = sent + aligned + Len(carry') + Len(view')
      BY <1>2, <1>4, <1>6, <1>7, <2>1
    <2>5. Len(carry') < Word
      BY <1>4, <1>6, <2>1, Sizes
    <2>6. Data(First(view, aligned), "read")
      BY <1>3, <1>10
    <2>7. /\ First(view, aligned) \in Seq(Nat) /\ Len(First(view, aligned)) = aligned
          /\ aligned # 0
      BY <1>4, <1>5, <1>10
    <2>8. \A i \in 1..Len(view') : view'[i] = sent + aligned + Len(carry') + i
      BY <1>7
    <2>9. PICK bytes : bytes = First(view, aligned)
      OBVIOUS
    <2>10. /\ bytes \in Seq(Nat) /\ Len(bytes) = aligned /\ Data(bytes, "read")
           /\ \A i \in 1..Len(bytes) : bytes[i] = sent + i
      BY <2>2, <2>6, <2>7, <2>9
    <2>11. taken' = sent + aligned + Len(carry') + Len(view') /\ taken' \in 0..length
      BY <1>2, <1>3, <2>4
    <2>12. Len(bytes) # 0 /\ Len(bytes) % Word = 0 /\ sent + Len(bytes) <= length
      BY <1>0, <2>4, <2>7, <2>10
    <2> QED BY <1>2, <1>3, <1>6, <1>7, <2>3, <2>5, <2>8, <2>10, <2>11, <2>12, DataKeeps
  <1>11. CASE ~(aligned > 0)
    <2>1. aligned = 0
      BY <1>4, <1>11
    <2>2. ASSUME NEW i \in 1..Len(carry') PROVE carry'[i] = sent + i
      <3>1. CASE i <= Len(carry)
        BY <1>2, <1>4, <1>6, <3>1
      <3>2. CASE ~(i <= Len(carry))
        <4>1. i - Len(carry) \in 1..Len(view) /\ Len(carry) + (i - Len(carry)) = i
              /\ 0 + (i - Len(carry)) = i - Len(carry) /\ Len(view) - 0 = Len(view)
          BY <1>4, <1>6, <2>1, <3>2
        <4>2. carry'[i] = view[i - Len(carry)]
          BY <1>6, <2>1, <4>1
        <4>3. view[i - Len(carry)] = sent + Len(carry) + (i - Len(carry))
          BY <1>2, <4>1
        <4> QED BY <1>2, <1>4, <4>2, <4>3
      <3> QED BY <3>1, <3>2
    <2>3. taken = sent + Len(carry') + Len(view') /\ Len(carry') < Word
      <3>1. Len(carry) = 0 \/ Len(view) = 0
        BY <1>2, <1>8, <1>9
      <3> QED BY <1>2, <1>4, <1>6, <1>7, <2>1, <3>1, Sizes
    <2>4. /\ pc' = "read" /\ UNCHANGED <<pending, then, sent>>
          /\ \A i \in 1..Len(view') : view'[i] = sent + Len(carry') + i
      BY <1>3, <1>7, <1>11
    <2> QED BY <1>2, <1>3, <1>6, <1>7, <2>2, <2>3, <2>4, CarryKeeps
  <1> QED BY <1>10, <1>11

LEMMA ReadKeeps ==
  ASSUME IInv, Read
  PROVE  IInv'
  <1>1. PICK n \in 1..Least(MaxData, length - taken) :
          LET bytes == [i \in 1..n |-> taken + i]
              needed == IF carry = <<>> THEN 0 ELSE Needed(bytes)
              word == carry \o First(bytes, needed)
          IN  /\ taken' = taken + n
              /\ view' = Drop(bytes, needed)
              /\ IF carry # <<>> /\ Len(word) = Word
                 THEN Data(word, "view") /\ carry' = <<>>
                 ELSE /\ pc' = "view" /\ carry' = word
                      /\ UNCHANGED <<pending, then, sent>>
    BY DEF Read
  <1>2. PICK bytes : bytes = [i \in 1..n |-> taken + i]
    OBVIOUS
  <1>3. PICK needed : needed = IF carry = <<>> THEN 0 ELSE Needed(bytes)
    OBVIOUS
  <1>4. PICK word : word = carry \o First(bytes, needed)
    OBVIOUS
  <1>5. /\ taken' = taken + n /\ view' = Drop(bytes, needed)
        /\ IF carry # <<>> /\ Len(word) = Word
           THEN Data(word, "view") /\ carry' = <<>>
           ELSE pc' = "view" /\ carry' = word /\ UNCHANGED <<pending, then, sent>>
    BY <1>1, <1>2, <1>3, <1>4
  <1>6. /\ pc = "read" /\ taken < length
        /\ UNCHANGED <<length, terminal, held, wire, link, clientVars, aborted, deleting>>
    BY DEF Read
  <1>7. /\ taken \in Nat /\ taken = sent + Len(carry) /\ carry \in Seq(Nat) /\ Len(carry) < Word
        /\ length \in Nat /\ sent \in Nat /\ Len(carry) \in Nat
        /\ \A i \in 1..Len(carry) : carry[i] = sent + i
    <2>1. /\ taken \in 0..length /\ taken = sent + Len(carry) + Len(view) /\ carry \in Seq(Nat)
          /\ Len(carry) < Word /\ length \in Nat /\ sent \in Nat /\ view = <<>>
          /\ \A i \in 1..Len(carry) : carry[i] = sent + i
      BY <1>6, Sizes DEF IInv, Producer
    <2>2. Len(carry) \in Nat /\ Len(view) = 0
      BY <2>1, LenProperties, ControlFrames
    <2> QED BY <2>1, <2>2
  <1>8. n \in Nat /\ n > 0 /\ taken + n <= length
    <2>1. Least(MaxData, length - taken) \in Int /\ Least(MaxData, length - taken) <= length - taken
      BY <1>6, <1>7, Sizes DEF Least
    <2>2. n \in 1..Least(MaxData, length - taken)
      OBVIOUS
    <2> QED BY <1>7, <2>1, <2>2
  <1>9. bytes \in Seq(Nat) /\ Len(bytes) = n /\ \A i \in 1..n : bytes[i] = taken + i
    <2>1. \A i \in 1..n : taken + i \in Nat
      BY <1>7
    <2> QED BY <1>2, <1>8, <2>1, IsASeq
  <1>10. /\ needed \in 0..n
         /\ carry # <<>> => needed = Least(Word - Len(carry), n)
         /\ Len(carry) # 0 => needed = Least(Word - Len(carry), n)
         /\ carry = <<>> => needed = 0
    <2>1. carry # <<>> => needed = Least(Word - Len(carry), n)
      BY <1>3, <1>9 DEF Needed
    <2>2. Least(Word - Len(carry), n) \in 0..n
      BY <1>7, <1>8, Sizes DEF Least
    <2>3. carry = <<>> => Len(carry) = 0
      BY ControlFrames
    <2> QED BY <1>3, <1>8, <2>1, <2>2, <2>3
  <1>11. /\ First(bytes, needed) \in Seq(Nat) /\ Len(First(bytes, needed)) = needed
         /\ \A i \in 1..needed : First(bytes, needed)[i] = bytes[i]
         /\ view' \in Seq(Nat) /\ Len(view') = n - needed
         /\ \A i \in 1..n - needed : view'[i] = bytes[needed + i]
    BY <1>5, <1>9, <1>10, CutInTwo
  <1>12. /\ word \in Seq(Nat) /\ Len(word) = Len(carry) + needed
         /\ \A i \in 1..Len(word) : word[i] = sent + i
    <2>1. /\ word \in Seq(Nat) /\ Len(word) = Len(carry) + needed
          /\ \A i \in 1..Len(carry) : word[i] = carry[i]
          /\ \A i \in 1..needed : word[Len(carry) + i] = First(bytes, needed)[i]
      BY <1>4, <1>7, <1>11, Joins
    <2>2. ASSUME NEW i \in 1..Len(word) PROVE word[i] = sent + i
      <3>1. CASE i <= Len(carry)
        BY <1>7, <2>1, <3>1
      <3>2. CASE ~(i <= Len(carry))
        <4>0. needed \in 0..n
          BY <1>10
        <4>1. i - Len(carry) \in 1..needed /\ Len(carry) + (i - Len(carry)) = i
              /\ i - Len(carry) \in 1..n
          BY <1>7, <1>8, <2>1, <3>2, <4>0
        <4>2. word[i] = taken + (i - Len(carry))
          BY <1>9, <1>11, <2>1, <4>1
        <4> QED BY <1>7, <4>2
      <3> QED BY <3>1, <3>2
    <2> QED BY <2>1, <2>2
  <1>13. \A i \in 1..Len(view') : view'[i] = sent + Len(word) + i
    <2>1. ASSUME NEW i \in 1..n - needed PROVE view'[i] = sent + Len(word) + i
      <3>1. needed + i \in 1..n
        BY <1>8, <1>10
      <3>2. view'[i] = taken + (needed + i)
        BY <1>9, <1>11, <3>1
      <3> QED BY <1>7, <1>8, <1>10, <1>12, <3>2
    <2> QED BY <1>11, <2>1
  <1>14. taken' = sent + Len(word) + Len(view') /\ taken' \in 0..length /\ sent + Len(word) <= length
    <2>1. needed \in 0..n /\ Len(view') = n - needed /\ Len(word) = Len(carry) + needed
      BY <1>10, <1>11, <1>12
    <2> QED BY <1>5, <1>7, <1>8, <2>1
  <1>15. CASE carry # <<>> /\ Len(word) = Word
    <2>1. Data(word, "view") /\ carry' = <<>> /\ Len(carry') = 0 /\ carry' \in Seq(Nat)
      BY <1>5, <1>15, ControlFrames
    <2>2. Len(word) # 0 /\ Len(word) % Word = 0
      <3>1. Word = 1 * Word /\ 1 \in Nat /\ (1 * Word) % Word = 0
        BY Whole1, Sizes
      <3> QED BY <1>15, <3>1, Sizes
    <2>3. /\ taken' = sent + Len(word) + Len(carry') + Len(view') /\ Len(carry') < Word
          /\ \A i \in 1..Len(carry') : carry'[i] = sent + Len(word) + i
          /\ \A i \in 1..Len(view') : view'[i] = sent + Len(word) + Len(carry') + i
      <3>1. \A i \in 1..Len(view') : view'[i] = sent + Len(word) + 0 + i
        <4>1. sent + Len(word) + 0 = sent + Len(word)
          BY <1>7, <1>15, Sizes
        <4> QED BY <1>13, <4>1
      <3>2. taken' = sent + Len(word) + 0 + Len(view')
        BY <1>7, <1>14, <1>15, Sizes
      <3> QED BY <2>1, <3>1, <3>2, Sizes
    <2> QED BY <1>6, <1>11, <1>12, <1>14, <2>1, <2>2, <2>3, DataKeeps
  <1>16. CASE ~(carry # <<>> /\ Len(word) = Word)
    <2>1. pc' = "view" /\ carry' = word /\ UNCHANGED <<pending, then, sent>>
      BY <1>5, <1>16
    <2>2. Len(carry') < Word /\ (carry' = <<>> \/ view' = <<>>)
      <3>1. CASE carry = <<>>
        <4>1. Len(word) = 0
          BY <1>10, <1>12, <3>1, ControlFrames
        <4>2. word = <<>>
          BY <1>12, <4>1, EmptySeq
        <4> QED BY <2>1, <4>1, <4>2, Sizes
      <3>2. CASE carry # <<>>
        <4>1. Len(word) # Word /\ needed = Least(Word - Len(carry), n)
          BY <1>10, <1>16, <3>2
        <4>2. needed = n /\ Len(word) < Word
          <5>1. Len(word) = Len(carry) + needed
            BY <1>12
          <5> QED BY <1>7, <1>8, <4>1, <5>1, Sizes DEF Least
        <4>3. Len(view') = 0
          BY <1>8, <1>11, <4>2
        <4>4. view' = <<>>
          BY <1>11, <4>3, EmptySeq
        <4> QED BY <2>1, <4>2, <4>4
      <3> QED BY <3>1, <3>2
    <2> QED BY <1>6, <1>11, <1>12, <1>13, <1>14, <2>1, <2>2, CarryKeeps
  <1> QED BY <1>15, <1>16

\* The first part of what is pending, and the rest.
LEMMA Parts ==
  ASSUME NEW h, NEW s, s = <<>> \/ \E p : s = <<p>>
  PROVE  /\ <<h>> \o s # <<>> /\ (<<h>> \o s)[1] = h /\ Tail(<<h>> \o s) = s
         /\ Tail(<<h>>) = <<>> /\ <<h>> # <<>> /\ <<h>>[1] = h
  <1>1. CASE s = <<>>
    BY <1>1
  <1>2. ASSUME NEW p, s = <<p>>
        PROVE  <<h>> \o s # <<>> /\ (<<h>> \o s)[1] = h /\ Tail(<<h>> \o s) = s
    <2>1. <<h>> \o <<p>> = <<h, p>>
      <3>1. /\ <<h>> \in Seq({h, p}) /\ <<p>> \in Seq({h, p}) /\ <<h, p>> \in Seq({h, p})
            /\ Len(<<h>>) = 1 /\ Len(<<p>>) = 1 /\ Len(<<h, p>>) = 2
            /\ <<h>>[1] = h /\ <<p>>[1] = p /\ <<h, p>>[1] = h /\ <<h, p>>[2] = p
        OBVIOUS
      <3>2. /\ <<h>> \o <<p>> \in Seq({h, p}) /\ Len(<<h>> \o <<p>>) = 1 + 1
            /\ (<<h>> \o <<p>>)[1] = h /\ (<<h>> \o <<p>>)[1 + 1] = p
        BY <3>1, Joins
      <3>3. \A i \in 1..Len(<<h>> \o <<p>>) : (<<h>> \o <<p>>)[i] = <<h, p>>[i]
        BY <3>1, <3>2
      <3>4. PICK a, b : a = <<h>> \o <<p>> /\ b = <<h, p>>
        OBVIOUS
      <3>5. /\ a \in Seq({h, p}) /\ b \in Seq({h, p}) /\ Len(a) = Len(b)
            /\ \A i \in 1..Len(a) : a[i] = b[i]
        BY <3>1, <3>2, <3>3, <3>4
      <3>6. a = b
        BY <3>5, SeqEqual
      <3> QED BY <3>4, <3>6
    <2>2. <<h, p>> # <<>> /\ <<h, p>>[1] = h /\ Tail(<<h, p>>) = <<p>>
      OBVIOUS
    <2> QED BY <1>2, <2>1, <2>2
  <1> QED BY <1>1, <1>2

LEMMA SendFailsKeeps ==
  ASSUME IInv, SendFails \/ Disconnect
  PROVE  IInv'
  <1>1. /\ pc \notin {"close", "closed"} /\ pc' = "close"
        /\ UNCHANGED <<length, terminal, held, taken, carry, view, pending, then, sent, wire,
                       link, clientVars, aborted, deleting>>
    BY DEF SendFails, SendFailure, Disconnect
  <1>2. States' /\ link # "ended"
    BY <1>1 DEF IInv, States
  <1>3. Producer'
    BY <1>1 DEF IInv, Producer
  <1>4. \A l \in Label : Writer(l)'
    BY <1>1, <1>2 DEF Writer
  <1>5. EndsOnce
    BY <1>1 DEF EndsOnce
  <1> QED BY <1>1, <1>2, <1>3, <1>4, <1>5, Serving

LEMMA WrittenKeeps ==
  ASSUME IInv, Written
  PROVE  IInv'
  <1>1. /\ pc = "write" /\ pending = <<>> /\ pc' = then
        /\ UNCHANGED <<length, terminal, held, taken, carry, view, pending, then, sent, wire,
                       link, clientVars, aborted, deleting>>
    BY DEF Written
  <1>2. States' /\ link # "ended" /\ then \in {"read", "view", "last"}
    BY <1>1 DEF IInv, States
  <1>3. Producer'
    BY <1>1, <1>2 DEF IInv, Producer
  <1>4. ASSUME NEW l \in Label, Writer(l) PROVE Writer(l)'
    <2>1. pending # <<PayloadOf(l)>>
      <3>1. <<PayloadOf(l)>> # <<>>
        OBVIOUS
      <3> QED BY <1>1, <3>1
    <2>2. ASSUME NEW m \in Label, Begins(l, m) PROVE FALSE
      <3>1. PICK s : s = IF m.size = 0 THEN <<>> ELSE <<PayloadOf(m)>>
        OBVIOUS
      <3>2. pending = <<HeaderOf(m.type, m.size)>> \o s
        BY <2>2, <3>1 DEF Begins
      <3>3. <<HeaderOf(m.type, m.size)>> \o s # <<>>
        BY <3>1, Parts
      <3> QED BY <1>1, <3>2, <3>3
    <2>3. Over(l) /\ Resumes(l, then)
      BY <1>1, <1>4, <2>1, <2>2 DEF Writer
    <2> QED BY <1>1, <1>2, <2>3 DEF Writer, Resumes
  <1>5. EndsOnce
    BY <1>1 DEF EndsOnce
  <1> QED BY <1>1, <1>2, <1>3, <1>4, <1>5, Serving

\* What happens to the end of the body, the consumer and the connection meanwhile.
LEMMA EndingsKeep ==
  ASSUME IInv, EndBody \/ CloseConsumer \/ Revoke \/ FailProducer \/ DeleteOperation \/ Cut
  PROVE  IInv'
  <1>1. UNCHANGED <<length, wire, clientVars, taken, carry, view, pending, then, sent, aborted>>
    BY DEF EndBody, CloseConsumer, Disposed, Revoke, FailProducer, DeleteOperation, Cut, EndsOnce
  <1>2. EndsOnce /\ (link = "cut" => link' = "cut")
    BY DEF EndBody, CloseConsumer, Disposed, Revoke, FailProducer, DeleteOperation, Cut, EndsOnce
  <1>3. CASE EndBody
    <2>1. /\ pc = "last" /\ link' = (IF link = "up" THEN "ended" ELSE link) /\ pc' = "close"
          /\ UNCHANGED <<terminal, held, deleting>>
      BY <1>3 DEF EndBody
    <2>2. States'
      BY <1>1, <2>1 DEF IInv, States
    <2>3. Producer'
      BY <1>1, <2>1 DEF IInv, Producer
    <2>4. \A l \in Label : Writer(l) => Writer(l)'
      BY <2>1 DEF Writer
    <2> QED BY <1>1, <1>2, <2>2, <2>3, <2>4, Serving
  <1>4. CASE CloseConsumer
    <2>1. /\ pc = "close" /\ pc' = "closed" /\ held' = FALSE
          /\ link' = (IF link = "up" THEN "cut" ELSE link)
          /\ terminal' = (IF terminal = "none" THEN "cancelled" ELSE terminal)
          /\ UNCHANGED <<deleting>>
      BY <1>4 DEF CloseConsumer, Disposed
    <2>2. States'
      BY <1>1, <2>1 DEF IInv, States
    <2>3. Producer'
      BY <1>1, <2>1 DEF IInv, Producer
    <2>4. \A l \in Label : Writer(l) => Writer(l)'
      BY <2>1 DEF Writer
    <2> QED BY <1>1, <1>2, <2>2, <2>3, <2>4, Serving
  <1>5. CASE Revoke \/ FailProducer \/ DeleteOperation
    <2>1. /\ terminal' \in {"none", "complete", "cancelled", "error"}
          /\ UNCHANGED <<pc, link, held>> /\ deleting' \in BOOLEAN
      BY <1>5 DEF Revoke, FailProducer, DeleteOperation, IInv, States
    <2>2. States'
      BY <1>1, <1>2, <2>1 DEF IInv, States, EndsOnce
    <2>3. Producer'
      BY <1>1, <2>1 DEF IInv, Producer
    <2>4. ASSUME NEW l \in Label, Writer(l) PROVE Writer(l)'
      <3>1. \A m : Honest(m) => Honest(m)'
        BY <1>1, <1>2, HonestStays
      <3>2. \A m : Begins(l, m) => Begins(l, m)'
        BY <1>1, <3>1 DEF Begins, Resumes
      <3> QED BY <1>1, <2>1, <2>4, <3>2 DEF Writer, Resumes
    <2> QED BY <1>1, <1>2, <2>2, <2>3, <2>4, Serving
  <1>6. CASE Cut
    <2>1. link' = "cut" /\ UNCHANGED <<pc, terminal, held, deleting>>
      BY <1>6 DEF Cut
    <2>2. States'
      BY <1>1, <2>1 DEF IInv, States
    <2>3. Producer'
      BY <1>1, <2>1 DEF IInv, Producer
    <2> QED BY <1>1, <1>2, <2>1, <2>2, <2>3, Serving
  <1> QED BY <1>3, <1>4, <1>5, <1>6

\* The bytes of a frame.
LEMMA FrameBytes ==
  ASSUME NEW m \in Label
  PROVE  /\ HeaderOf(m.type, m.size) \in Seq(Byte) /\ Len(HeaderOf(m.type, m.size)) = Header
         /\ \A i \in 1..Header : HeaderOf(m.type, m.size)[i] = ByteOf(At(m, i))
         /\ PayloadOf(m) \in Seq(Byte) /\ Len(PayloadOf(m)) = m.size
         /\ \A i \in 1..m.size : PayloadOf(m)[i] = ByteOf(At(m, Header + i))
         /\ \A a \in Nat : PayloadOf(At(m, a)) = PayloadOf(m)
  <1>1. m.size \in Nat /\ m.type \in Type /\ m.base \in Nat /\ Header \in Nat /\ Header > 0
    BY Sizes DEF Label
  <1>2. ASSUME NEW i \in 1..Header
        PROVE  /\ ByteOf(At(m, i)) = [type |-> m.type, size |-> m.size, part |-> i]
               /\ ByteOf(At(m, i)) \in Byte
    <2>1. i \in Nat /\ i <= Header
      BY <1>1
    <2>2. At(m, i).at = i /\ At(m, i).type = m.type /\ At(m, i).size = m.size
      BY <2>1, Places
    <2>3. ByteOf(At(m, i)) = [type |-> m.type, size |-> m.size, part |-> i]
      BY <2>1, <2>2 DEF ByteOf
    <2> QED BY <1>1, <2>1, <2>3 DEF Byte
  <1>3. ASSUME NEW i \in 1..m.size PROVE ByteOf(At(m, Header + i)) \in Byte
    <2>1. Header + i \in Nat /\ ~(Header + i <= Header) /\ Header + i - Header = i /\ i \in Nat
      BY <1>1
    <2>2. /\ At(m, Header + i).at = Header + i /\ At(m, Header + i).type = m.type
          /\ At(m, Header + i).base = m.base
      BY <2>1, Places
    <2>3. ByteOf(At(m, Header + i)) = [byte |-> IF m.type = "data" THEN m.base + i ELSE 0]
      <3>1. PICK l : l = At(m, Header + i)
        OBVIOUS
      <3>2. l.type = m.type /\ l.base = m.base /\ ~(l.at <= Header) /\ l.at - Header = i
        BY <1>1, <2>1, <2>2, <3>1
      <3>3. ByteOf(l) = [byte |-> IF m.type = "data" THEN m.base + i ELSE 0]
        BY <3>2 DEF ByteOf
      <3> QED BY <3>1, <3>3
    <2>4. (IF m.type = "data" THEN m.base + i ELSE 0) \in Nat
      BY <1>1, <2>1
    <2> QED BY <2>3, <2>4 DEF Byte
  <1>4. /\ HeaderOf(m.type, m.size) \in Seq(Byte) /\ Len(HeaderOf(m.type, m.size)) = Header
        /\ \A i \in 1..Header : HeaderOf(m.type, m.size)[i] = ByteOf(At(m, i))
    <2>1. HeaderOf(m.type, m.size) = [i \in 1..Header |-> ByteOf(At(m, i))]
      BY <1>2 DEF HeaderOf
    <2>2. [i \in 1..Header |-> ByteOf(At(m, i))] \in Seq(Byte)
      BY <1>1, <1>2, IsASeq
    <2> QED BY <1>1, <2>1, <2>2
  <1>5. /\ PayloadOf(m) \in Seq(Byte) /\ Len(PayloadOf(m)) = m.size
        /\ \A i \in 1..m.size : PayloadOf(m)[i] = ByteOf(At(m, Header + i))
    <2>1. PayloadOf(m) = [i \in 1..m.size |-> ByteOf(At(m, Header + i))]
      BY DEF PayloadOf, At
    <2>2. [i \in 1..m.size |-> ByteOf(At(m, Header + i))] \in Seq(Byte)
      BY <1>1, <1>3, IsASeq
    <2> QED BY <1>1, <2>1, <2>2
  <1>6. ASSUME NEW a \in Nat PROVE PayloadOf(At(m, a)) = PayloadOf(m)
    <2>1. At(m, a).size = m.size
      BY Places
    <2>2. \A i \in 1..m.size : At(At(m, a), Header + i) = At(m, Header + i)
      <3>1. \A i \in 1..m.size : Header + i \in Nat
        BY <1>1
      <3> QED BY <3>1, Places
    <2>3. PayloadOf(At(m, a)) = [i \in 1..m.size |-> ByteOf(At(At(m, a), Header + i))]
      BY <2>1 DEF PayloadOf, At
    <2> QED BY <2>2, <2>3 DEF PayloadOf, At
  <1> QED BY <1>4, <1>5, <1>6

\* A part of a frame is on its way, behind the byte of l.
LEMMA SentPart ==
  ASSUME IInv, NEW lab \in [0..Len(Bytes) -> Label], Fits(lab), NEW l, l = lab[Len(Bytes)],
         UNCHANGED <<length, terminal, held, taken, pc, carry, view, then, sent, link,
                     clientVars, aborted, deleting>>,
         NEW m \in Label, Valid(m), Honest(m), m.type # "none", NEW part \in Seq(Byte),
         Len(part) # 0, wire' = wire \o part, m.at + Len(part) <= Total(m) + 1,
         \A i \in 1..Len(part) : part[i] = ByteOf(At(m, m.at + i - 1)),
         Over(l) => Follows(l, m), ~Over(l) => m = At(l, l.at + 1),
         Writer(At(m, m.at + Len(part) - 1))'
  PROVE  IInv'
  <1>1. chunk \in Seq(Byte) /\ wire \in Seq(Byte)
    BY DEF IInv, States
  <1>2. Bytes' = Bytes \o part /\ Bytes \in Seq(Byte) /\ wire' \in Seq(Byte)
    <2>1. chunk' = chunk /\ wire' = wire \o part
      OBVIOUS
    <2>2. chunk \o (wire \o part) = (chunk \o wire) \o part
      <3>1. \A s, t, u \in Seq(Byte) : (s \o t) \o u = s \o (t \o u)
        BY ConcatAssociative
      <3> QED BY <1>1, <3>1
    <2>3. wire \o part \in Seq(Byte) /\ chunk \o wire \in Seq(Byte)
      <3>1. \A s, t \in Seq(Byte) : s \o t \in Seq(Byte)
        BY ConcatProperties
      <3> QED BY <1>1, <3>1
    <2> QED BY <2>1, <2>2, <2>3 DEF Bytes
  <1>3. PICK new : new = Appended(Bytes, lab, part, m)
    OBVIOUS
  <1>4. /\ Len(Bytes') = Len(Bytes) + Len(part) /\ Stream(Bytes, lab)
        /\ \A q \in 0..Len(Bytes) : Honest(lab[q])
    BY <1>2, ConcatProperties DEF Fits
  <1>5. Stream(Bytes', new)
    <2>1. Stream(Bytes \o part, Appended(Bytes, lab, part, m))
      BY <1>2, <1>4, StreamAppends
    <2> QED BY <1>2, <1>3, <2>1
  <1>6. /\ new[0] = lab[0] /\ new[Len(Bytes')] = At(m, m.at + Len(part) - 1)
        /\ \A q \in 0..Len(Bytes') : Honest(new[q])
    <2>1. /\ Appended(Bytes, lab, part, m)[0] = lab[0]
          /\ Appended(Bytes, lab, part, m)[Len(Bytes) + Len(part)] = At(m, m.at + Len(part) - 1)
          /\ \A q \in 0..Len(Bytes) + Len(part) : Honest(Appended(Bytes, lab, part, m)[q])
      BY <1>2, <1>4, AppendedEnds
    <2> QED BY <1>3, <1>4, <2>1
  <1>7. Decoder(new[0])'
    BY <1>6 DEF Fits, Decoder
  <1>8. \A q \in 0..Len(Bytes') : Honest(new[q])'
    BY <1>6 DEF Honest
  <1>9. Writer(new[Len(Bytes)])'
    <2>1. PICK z : z = new[Len(Bytes')]
      OBVIOUS
    <2>2. z = At(m, m.at + Len(part) - 1)
      BY <1>6, <2>1
    <2>3. Writer(z)'
      BY <2>2
    <2> QED BY <2>1, <2>3
  <1>10. new \in [0..Len(Bytes') -> Label]
    BY <1>5 DEF Stream
  <1>11. Fits(new)'
    BY <1>5, <1>7, <1>8, <1>9 DEF Fits
  <1>12. States'
    BY <1>2 DEF IInv, States
  <1>13. Filled' 
    BY DEF IInv, Filled
  <1>14. Producer'
    BY DEF IInv, Producer
  <1> QED BY <1>10, <1>11, <1>12, <1>13, <1>14 DEF IInv

LEMMA SendKeeps ==
  ASSUME IInv, Send
  PROVE  IInv'
  <1>1. /\ pc = "write" /\ pending # <<>> /\ pending' = Tail(pending)
        /\ UNCHANGED <<length, terminal, held, taken, pc, carry, view, then, sent, link,
                       clientVars, aborted, deleting>>
    BY DEF Send
  <1>2. CASE link = "cut" /\ UNCHANGED wire
    <2>1. States'
      BY <1>1, <1>2 DEF IInv, States
    <2>2. Producer'
      BY <1>1 DEF IInv, Producer
    <2>3. EndsOnce /\ link' = "cut"
      BY <1>1, <1>2 DEF EndsOnce
    <2> QED BY <1>1, <1>2, <2>1, <2>2, <2>3, Serving
  <1>3. CASE link = "up" /\ wire' = wire \o pending[1]
    <2>1. outcome = "none"
      BY <1>3 DEF IInv, States
    <2>2. PICK lab \in [0..Len(Bytes) -> Label] : Fits(lab)
      BY <2>1 DEF IInv
    <2>3. PICK l : l = lab[Len(Bytes)]
      OBVIOUS
    <2>4. Len(Bytes) \in 0..Len(Bytes)
      <3>1. Bytes \in Seq(Byte)
        BY Joins DEF IInv, States, Bytes
      <3>2. Len(Bytes) \in Nat
        BY <3>1, LenProperties
      <3> QED BY <3>2
    <2>5. l \in Label /\ Valid(l) /\ Honest(l) /\ Writer(l)
      BY <1>3, <2>2, <2>3, <2>4 DEF Fits, Stream
    <2>6. l.size \in Nat /\ Total(l) = Header + l.size /\ Header \in Nat /\ Header > 0
      BY <2>5, Sizes DEF Label, Total
    <2>7. CASE pending = <<PayloadOf(l)>> /\ l.at = Header /\ l.size # 0 /\ Resumes(l, then)
      <3>1. PICK part : part = PayloadOf(l)
        OBVIOUS
      <3>2. PICK m : m = At(l, Header + 1)
        OBVIOUS
      <3>3. /\ part \in Seq(Byte) /\ Len(part) = l.size
            /\ \A i \in 1..l.size : part[i] = ByteOf(At(l, Header + i))
        BY <2>5, <3>1, FrameBytes
      <3>4. pending[1] = part /\ Tail(pending) = <<>>
        BY <2>7, <3>1, Parts
      <3>5. ~Over(l) /\ l.type # "none" /\ Header + 1 \in 1..Total(l) /\ Header + 1 \in Nat
        BY <2>5, <2>6, <2>7 DEF Over, Valid, Origin
      <3>6. /\ m \in Label /\ Valid(m) /\ Honest(m) /\ m.type = l.type /\ m.size = l.size
            /\ m.at = Header + 1 /\ Total(m) = Total(l)
            /\ \A b \in Nat : At(m, b) = At(l, b)
        BY <2>5, <3>2, <3>5, Places, ValidPlaces
      <3>7. \A i \in 1..Len(part) : part[i] = ByteOf(At(m, m.at + i - 1))
        <4>1. \A i \in 1..l.size : m.at + i - 1 = Header + i /\ Header + i \in Nat
          BY <2>6, <3>6
        <4> QED BY <3>3, <3>6, <4>1
      <3>8. PICK z : z = At(m, m.at + Len(part) - 1)
        OBVIOUS
      <3>9. z \in Label /\ Over(z) /\ Resumes(z, then)
        <4>1. m.at + Len(part) - 1 = Total(l) /\ Total(l) \in Nat
          <5>1. m.at = Header + 1 /\ Len(part) = l.size
            BY <3>3, <3>6
          <5> QED BY <2>6, <5>1
        <4>2. /\ z \in Label /\ z.at = Total(l) /\ Total(z) = Total(l) /\ z.type = l.type
              /\ End(z) = End(l)
          BY <2>5, <3>6, <3>8, <4>1, Places
        <4> QED BY <2>7, <4>2 DEF Over, Resumes
      <3>10. Writer(z)'
        <4>1. link' # "ended" /\ pc' = "write" /\ pending' = <<>> /\ then' = then /\ sent' = sent
          BY <1>1, <1>3, <3>4
        <4> QED BY <3>9, <4>1 DEF Writer, Resumes
      <3>11. Writer(At(m, m.at + Len(part) - 1))'
        BY <3>8, <3>10
      <3>12. m.at + Len(part) <= Total(m) + 1 /\ Len(part) # 0 /\ m = At(l, l.at + 1)
        BY <2>6, <2>7, <3>2, <3>3, <3>6
      <3>13. wire' = wire \o part
        BY <1>3, <3>4
      <3> QED BY <1>1, <2>2, <2>3, <3>3, <3>5, <3>6, <3>7, <3>11, <3>12, <3>13, SentPart
    <2>8. ASSUME NEW m \in Label, Begins(l, m) PROVE IInv'
      <3>1. PICK part : part = HeaderOf(m.type, m.size)
        OBVIOUS
      <3>2. PICK rest : rest = IF m.size = 0 THEN <<>> ELSE <<PayloadOf(m)>>
        OBVIOUS
      <3>3. /\ Valid(m) /\ Honest(m) /\ Follows(l, m) /\ Resumes(m, then)
            /\ pending = <<part>> \o rest
        BY <2>8, <3>1, <3>2 DEF Begins
      <3>4. pending[1] = part /\ Tail(pending) = rest
        BY <3>2, <3>3, Parts
      <3>5. /\ part \in Seq(Byte) /\ Len(part) = Header
            /\ \A i \in 1..Header : part[i] = ByteOf(At(m, i))
        BY <3>1, FrameBytes
      <3>6. m.at = 1 /\ Over(l) /\ m.type # "none"
        BY <3>3 DEF Follows, Terminal
      <3>7. m.size \in Nat /\ Total(m) = Header + m.size
        BY DEF Label, Total
      <3>8. \A i \in 1..Len(part) : part[i] = ByteOf(At(m, m.at + i - 1))
        <4>1. \A i \in 1..Header : m.at + i - 1 = i
          BY <2>6, <3>6
        <4> QED BY <3>5, <4>1
      <3>9. PICK z : z = At(m, m.at + Len(part) - 1)
        OBVIOUS
      <3>10. /\ z \in Label /\ z.at = Header /\ Total(z) = Total(m) /\ z.type = m.type
             /\ z.size = m.size /\ End(z) = End(m) /\ PayloadOf(z) = PayloadOf(m)
        <4>1. m.at + Len(part) - 1 = Header
          BY <2>6, <3>5, <3>6
        <4>2. z = At(m, Header)
          BY <3>9, <4>1
        <4> QED BY <2>6, <4>2, Places, FrameBytes
      <3>11. Resumes(z, then)
        BY <3>3, <3>10 DEF Resumes
      <3>12. /\ link' # "ended" /\ pc' = "write" /\ pending' = rest /\ then' = then
             /\ sent' = sent
        BY <1>1, <1>3, <3>4
      <3>13. Writer(z)'
        <4>1. CASE m.size = 0
          <5>1. Over(z) /\ pending' = <<>>
            BY <2>6, <3>2, <3>7, <3>10, <3>12, <4>1 DEF Over
          <5> QED BY <3>11, <3>12, <5>1 DEF Writer, Resumes
        <4>2. CASE m.size # 0
          <5>1. pending' = <<PayloadOf(z)>> /\ z.at = Header /\ z.size # 0
            BY <3>2, <3>10, <3>12, <4>2
          <5> QED BY <3>11, <3>12, <5>1 DEF Writer, Resumes
        <4> QED BY <4>1, <4>2
      <3>14. Writer(At(m, m.at + Len(part) - 1))'
        BY <3>9, <3>13
      <3>15. m.at + Len(part) <= Total(m) + 1 /\ Len(part) # 0
        BY <2>6, <3>5, <3>6, <3>7
      <3>16. wire' = wire \o part
        BY <1>3, <3>4
      <3> QED BY <1>1, <2>2, <2>3, <3>3, <3>5, <3>6, <3>8, <3>14, <3>15, <3>16, SentPart
    <2> QED BY <1>1, <2>5, <2>7, <2>8 DEF Writer
  <1> QED BY <1>2, <1>3 DEF Send

-----------------------------------------------------------------------------
(* The steps of the browser.                                               *)

LEMMA ReceiveKeeps ==
  ASSUME IInv, Receive
  PROVE  IInv'
  <1>1. PICK n \in 1..Len(wire) : chunk' = First(wire, n) /\ wire' = Drop(wire, n)
    BY DEF Receive
  <1>2. /\ outcome = "none" /\ chunk = <<>>
        /\ UNCHANGED <<length, terminal, held, taken, pc, carry, view, pending, then, sent,
                       aborted, deleting, link, dec, tail, received, values, outcome>>
    BY DEF Receive
  <1>3. wire \in Seq(Byte) /\ n \in 0..Len(wire)
    BY LenProperties DEF IInv, States
  <1>4. chunk' \in Seq(Byte) /\ wire' \in Seq(Byte) /\ chunk' \o wire' = wire
    BY <1>1, <1>3, CutInTwo
  <1>5. Bytes' = Bytes
    <2>1. <<>> \o wire = wire
      BY <1>3, ConcatEmptySeq
    <2> QED BY <1>2, <1>4, <2>1 DEF Bytes
  <1>6. PICK lab \in [0..Len(Bytes) -> Label] : Fits(lab)
    BY <1>2 DEF IInv
  <1>7. Fits(lab)'
    <2>1. PICK l : l = lab[Len(Bytes)]
      OBVIOUS
    <2>2. link' # "cut" => Writer(l)'
      BY <1>2, <1>6, <2>1 DEF Fits, Writer, Begins, Resumes, Honest
    <2>3. \A q \in 0..Len(Bytes') : Honest(lab[q])'
      BY <1>2, <1>5, <1>6 DEF Fits, Honest
    <2>4. Decoder(lab[0])'
      BY <1>2, <1>6 DEF Fits, Decoder
    <2>5. link' # "cut" => Writer(lab[Len(Bytes)])'
      BY <1>5, <2>1, <2>2
    <2>6. Stream(Bytes', lab)
      BY <1>5, <1>6 DEF Fits
    <2> QED BY <2>3, <2>4, <2>5, <2>6 DEF Fits
  <1>8. States'
    BY <1>2, <1>4 DEF IInv, States
  <1>9. Producer'
    BY <1>2 DEF IInv, Producer
  <1>10. Filled'
    BY <1>2 DEF IInv, Filled
  <1> QED BY <1>5, <1>6, <1>7, <1>8, <1>9, <1>10 DEF IInv

\* The end of the stream, whatever it is.
LEMMA OutcomeKeeps ==
  ASSUME IInv, outcome' # "none", chunk' \in Seq(Byte), wire' \in Seq(Byte),
         UNCHANGED <<length, terminal, held, taken, pc, carry, view, pending, then, sent,
                     dec, tail, received, values>>,
         deleting' \in BOOLEAN, aborted' \in BOOLEAN, link' = link \/ link' = "cut",
         link' # "up", outcome' \in {"complete", "cancelled", "backend", "transport"},
         outcome' = "complete" => /\ terminal = "complete" /\ length = Declared
                                  /\ dec.received = Declared,
         outcome' = "backend" => terminal = "error" \/ length # Declared \/ ~dec.metadata,
         outcome' = "cancelled" => aborted' \/ terminal = "cancelled"
  PROVE  IInv'
  <1>1. States'
    BY DEF IInv, States
  <1>2. Producer'
    BY DEF IInv, Producer
  <1>3. Filled'
    BY DEF IInv, Filled
  <1> QED BY <1>1, <1>2, <1>3 DEF IInv

LEMMA LostKeeps ==
  ASSUME IInv, ConnectionLost \/ Abort
  PROVE  IInv'
  <1>1. chunk \in Seq(Byte) /\ <<>> \in Seq(Byte) /\ aborted \in BOOLEAN /\ deleting \in BOOLEAN
    BY EmptySeq DEF IInv, States
  <1>2. CASE ConnectionLost
    <2>1. /\ outcome' = "transport" /\ link = "cut" /\ wire' = <<>>
          /\ UNCHANGED <<length, terminal, held, taken, pc, carry, view, pending, then, sent,
                         chunk, dec, tail, received, values, aborted, deleting, link>>
      BY <1>2 DEF ConnectionLost
    <2> QED BY <1>1, <2>1, OutcomeKeeps
  <1>3. CASE Abort
    <2>1. /\ outcome' = "cancelled" /\ link' = "cut" /\ wire' = <<>> /\ aborted' = TRUE
          /\ UNCHANGED <<length, terminal, held, taken, pc, carry, view, pending, then, sent,
                         chunk, dec, tail, received, values>>
      BY <1>3 DEF Abort
    <2>2. deleting' \in BOOLEAN
      BY <1>3 DEF Abort
    <2> QED BY <1>1, <2>1, <2>2, OutcomeKeeps
  <1> QED BY <1>2, <1>3

\* At the end of the body the decoder is behind the last frame that was written.
LEMMA EndOfBodyKeeps ==
  ASSUME IInv, EndOfBody
  PROVE  IInv'
  <1>1. /\ outcome = "none" /\ chunk = <<>> /\ wire = <<>> /\ link = "ended"
        /\ outcome' = Verdict
        /\ UNCHANGED <<length, terminal, held, taken, pc, carry, view, pending, then, sent,
                       aborted, deleting, wire, link, chunk, dec, tail, received, values>>
    BY DEF EndOfBody
  <1>2. PICK lab \in [0..Len(Bytes) -> Label] : Fits(lab)
    BY <1>1 DEF IInv
  <1>3. Len(Bytes) = 0
    <2>1. <<>> \o <<>> = <<>> /\ Len(<<>>) = 0
      OBVIOUS
    <2> QED BY <1>1, <2>1 DEF Bytes
  <1>4. PICK l : l = lab[0]
    OBVIOUS
  <1>5. l \in Label /\ Valid(l) /\ Honest(l) /\ Writer(l) /\ Decoder(l)
    <2>1. 0 \in 0..Len(Bytes)
      BY <1>3
    <2>2. link # "cut" => Writer(lab[Len(Bytes)])
      BY <1>2 DEF Fits
    <2>3. Writer(l)
      BY <1>1, <1>3, <1>4, <2>2
    <2> QED BY <1>2, <1>4, <2>1, <2>3 DEF Fits, Stream
  <1>6. Over(l) /\ l.type \in Terminal
    BY <1>1, <1>5 DEF Writer
  <1>7. /\ dec.head = <<>> /\ dec.terminal = l.type /\ dec.metadata = l.meta
        /\ dec.received = l.base
    BY <1>5, <1>6, Sizes DEF Decoder, Behind, Terminal, Label
  <1>8. outcome' = IF l.type = "error" THEN "backend" ELSE l.type
    BY <1>1, <1>6, <1>7 DEF Verdict, Terminal
  <1>9. /\ outcome' \in {"complete", "cancelled", "backend", "transport"}
        /\ outcome' = "complete" => /\ terminal = "complete" /\ length = Declared
                                    /\ dec.received = Declared
        /\ outcome' = "backend" => terminal = "error" \/ length # Declared \/ ~dec.metadata
        /\ outcome' = "cancelled" => aborted' \/ terminal = "cancelled"
    BY <1>5, <1>6, <1>7, <1>8 DEF Honest, Valid, Terminal
  <1>10. chunk \in Seq(Byte) /\ wire \in Seq(Byte) /\ aborted \in BOOLEAN /\ deleting \in BOOLEAN
    BY DEF IInv, States
  <1> QED BY <1>1, <1>9, <1>10, OutcomeKeeps

\* The rest of the chunk and of the connection.
LEMMA RestOfBytes ==
  ASSUME NEW S, NEW s \in Seq(S), NEW t \in Seq(S), NEW n \in 0..Len(s)
  PROVE  Drop(s, n) \o t = Drop(s \o t, n) /\ n \in 0..Len(s \o t)
  <1>1. /\ s \o t \in Seq(S) /\ Len(s \o t) = Len(s) + Len(t)
        /\ Len(s) \in Nat /\ Len(t) \in Nat
        /\ \A i \in 1..Len(s) : (s \o t)[i] = s[i]
        /\ \A i \in 1..Len(t) : (s \o t)[Len(s) + i] = t[i]
    BY Joins
  <1>2. n \in 0..Len(s \o t)
    BY <1>1
  <1>3. /\ Drop(s, n) \in Seq(S) /\ Len(Drop(s, n)) = Len(s) - n
        /\ \A i \in 1..Len(s) - n : Drop(s, n)[i] = s[n + i]
    BY CutInTwo
  <1>4. PICK a, b, c : a = s \o t /\ b = Drop(s, n) \o t /\ c = Drop(s, n)
    OBVIOUS
  <1>5. /\ Drop(a, n) \in Seq(S) /\ Len(Drop(a, n)) = Len(a) - n
        /\ \A i \in 1..Len(a) - n : Drop(a, n)[i] = a[n + i]
    BY <1>1, <1>2, <1>4, CutInTwo
  <1>6. /\ b \in Seq(S) /\ Len(b) = Len(c) + Len(t)
        /\ \A i \in 1..Len(c) : b[i] = c[i]
        /\ \A i \in 1..Len(t) : b[Len(c) + i] = t[i]
    BY <1>3, <1>4, Joins
  <1>7. Len(b) = Len(a) - n /\ Len(c) = Len(s) - n
    BY <1>1, <1>3, <1>4, <1>6
  <1>8. ASSUME NEW i \in 1..Len(b) PROVE b[i] = Drop(a, n)[i]
    <2>1. i \in 1..Len(a) - n /\ Drop(a, n)[i] = a[n + i]
      BY <1>5, <1>7
    <2>2. CASE i <= Len(c)
      <3>1. i \in 1..Len(c) /\ n + i \in 1..Len(s) /\ i \in 1..Len(s) - n
        BY <1>1, <1>7, <2>2
      <3> QED BY <1>1, <1>3, <1>4, <1>6, <2>1, <3>1
    <2>3. CASE ~(i <= Len(c))
      <3>1. PICK j \in 1..Len(t) : i = Len(c) + j
        <4>1. i - Len(c) \in 1..Len(t) /\ i = Len(c) + (i - Len(c))
          BY <1>1, <1>6, <1>7, <2>3
        <4> QED BY <4>1
      <3>2. n + i = Len(s) + j
        BY <1>1, <1>7, <3>1
      <3> QED BY <1>1, <1>4, <1>6, <2>1, <3>1, <3>2
    <2> QED BY <2>2, <2>3
  <1>9. b = Drop(a, n)
    BY <1>5, <1>6, <1>7, <1>8, SeqEqual
  <1> QED BY <1>2, <1>4, <1>9

\* The decoder takes n bytes of the chunk, and is then where the last of them says.
LEMMA Taking ==
  ASSUME IInv, NEW lab \in [0..Len(Bytes) -> Label], Fits(lab), NEW n \in 0..Len(chunk),
         chunk' = Drop(chunk, n), outcome = "none",
         UNCHANGED <<length, terminal, held, taken, pc, carry, view, pending, then, sent,
                     wire, link, aborted, deleting, outcome>>,
         dec' \in DecoderState,
         Len(dec'.head) <= Header, Filled', NEW z, z = lab[n], Decoder(z)'
  PROVE  IInv'
  <1>1. chunk \in Seq(Byte) /\ wire \in Seq(Byte) /\ chunk' \in Seq(Byte)
    BY CutInTwo DEF IInv, States
  <1>2. Bytes' = Drop(Bytes, n) /\ n \in 0..Len(Bytes) /\ Bytes \in Seq(Byte)
    <2>1. Drop(chunk, n) \o wire = Drop(chunk \o wire, n) /\ n \in 0..Len(chunk \o wire)
      BY <1>1, RestOfBytes
    <2>2. chunk \o wire \in Seq(Byte)
      BY <1>1, Joins
    <2> QED BY <2>1, <2>2 DEF Bytes
  <1>3. Len(Bytes) \in Nat /\ Len(Bytes') = Len(Bytes) - n
    <2>1. Len(Bytes) \in Nat
      BY <1>2, LenProperties
    <2>2. Len(Drop(Bytes, n)) = Len(Bytes) - n
      <3>1. \A s \in Seq(Byte) : \A i \in 0..Len(s) : Len(Drop(s, i)) = Len(s) - i
        BY CutInTwo
      <3> QED BY <1>2, <3>1
    <2> QED BY <1>2, <2>1, <2>2
  <1>4. PICK new : new = [q \in 0..Len(Bytes) - n |-> lab[q + n]]
    OBVIOUS
  <1>5. Stream(Bytes', new)
    <2>1. Stream(Bytes, lab)
      BY DEF Fits
    <2>2. Stream(Drop(Bytes, n), [q \in 0..Len(Bytes) - n |-> lab[q + n]])
      BY <1>2, <2>1, StreamDrops
    <2> QED BY <1>2, <1>4, <2>2
  <1>6. /\ \A q \in 0..Len(Bytes') : q + n \in 0..Len(Bytes) /\ new[q] = lab[q + n]
        /\ new[0] = lab[n] /\ new[Len(Bytes')] = lab[Len(Bytes)]
    <2>1. \A q \in 0..Len(Bytes') : q + n \in 0..Len(Bytes) /\ new[q] = lab[q + n]
      BY <1>2, <1>3, <1>4
    <2>2. /\ 0 \in 0..Len(Bytes') /\ 0 + n = n /\ Len(Bytes') \in 0..Len(Bytes')
          /\ Len(Bytes') + n = Len(Bytes)
      BY <1>2, <1>3
    <2> QED BY <2>1, <2>2
  <1>7. Decoder(new[0])'
    BY <1>6
  <1>8. \A q \in 0..Len(Bytes') : Honest(new[q])'
    BY <1>6 DEF Fits, Honest
  <1>9. link' # "cut" => Writer(new[Len(Bytes)])'
    <2>1. PICK l : l = lab[Len(Bytes)]
      OBVIOUS
    <2>2. link' # "cut" => Writer(l)'
      BY <2>1 DEF Fits, Writer, Begins, Resumes, Honest
    <2>3. PICK k : k = new[Len(Bytes')]
      OBVIOUS
    <2>4. link' # "cut" => Writer(k)'
      BY <1>6, <2>1, <2>2, <2>3
    <2> QED BY <2>3, <2>4
  <1>10. Fits(new)'
    BY <1>5, <1>7, <1>8, <1>9 DEF Fits
  <1>11. new \in [0..Len(Bytes') -> Label]
    BY <1>5 DEF Stream
  <1>12. States'
    BY <1>1 DEF IInv, States
  <1>13. Producer'
    BY DEF IInv, Producer
  <1> QED BY <1>10, <1>11, <1>12, <1>13 DEF IInv

\* The bytes of the chunk are those of the labels.
LEMMA ChunkLabels ==
  ASSUME IInv, NEW lab, Fits(lab)
  PROVE  /\ chunk \in Seq(Byte) /\ Len(chunk) \in Nat /\ Len(Bytes) \in Nat
         /\ Len(chunk) <= Len(Bytes)
         /\ \A i \in 1..Len(chunk) : chunk[i] = ByteOf(lab[i])
         /\ \A i \in 0..Len(Bytes) : Valid(lab[i]) /\ lab[i] \in Label
  <1>1. chunk \in Seq(Byte) /\ wire \in Seq(Byte)
    BY DEF IInv, States
  <1>2. /\ Len(Bytes) = Len(chunk) + Len(wire) /\ Len(chunk) \in Nat /\ Len(wire) \in Nat
        /\ \A i \in 1..Len(chunk) : Bytes[i] = chunk[i]
    BY <1>1, Joins DEF Bytes
  <1>3. ASSUME NEW i \in 1..Len(chunk) PROVE chunk[i] = ByteOf(lab[i])
    <2>1. i \in 1..Len(Bytes)
      BY <1>2
    <2> QED BY <1>2, <2>1 DEF Fits, Stream
  <1>4. \A i \in 0..Len(Bytes) : Valid(lab[i]) /\ lab[i] \in Label
    BY DEF Fits, Stream, Valid
  <1>5. Len(Bytes) \in Nat /\ Len(chunk) <= Len(Bytes)
    BY <1>2
  <1> QED BY <1>1, <1>2, <1>3, <1>4, <1>5

\* The frame that the bytes after label 0 go on with, from place p.
LEMMA Ahead ==
  ASSUME IInv, NEW lab, Fits(lab), NEW l, l = lab[0], NEW n \in 1..Len(chunk)
  PROVE  /\ ~Over(l) /\ l.at + n <= Total(l) =>
               \A i \in 0..n : lab[i] = At(l, l.at + i)
         /\ Over(l) => Follows(l, lab[1])
         /\ Over(l) /\ n <= Total(lab[1]) => \A i \in 1..n : lab[i] = At(lab[1], i)
  <1>1. /\ Len(chunk) \in Nat /\ Len(Bytes) \in Nat /\ Len(chunk) <= Len(Bytes)
        /\ \A i \in 0..Len(Bytes) : Valid(lab[i]) /\ lab[i] \in Label
    BY ChunkLabels
  <1>2. l \in Label /\ Total(l) \in Nat /\ l.at \in Nat /\ At(l, l.at) = l
    <2>1. l \in Label
      BY <1>1
    <2>2. At(l, l.at) = l
      BY <2>1 DEF At, Label
    <2> QED BY <2>1, <2>2, Places
  <1>3. \A q, j \in 0..Len(Bytes) :
           q + j <= Len(Bytes) /\ lab[q].at + j <= Total(lab[q])
             => lab[q + j] = At(lab[q], lab[q].at + j)
    BY DEF Fits, Stream, At
  <1>4. ASSUME l.at + n <= Total(l), NEW i \in 0..n PROVE lab[i] = At(l, l.at + i)
    <2>1. 0 \in 0..Len(Bytes) /\ i \in 0..Len(Bytes) /\ 0 + i <= Len(Bytes) /\ 0 + i = i
          /\ l.at + i <= Total(l)
      BY <1>1, <1>2, <1>4
    <2>2. lab[0 + i] = At(lab[0], lab[0].at + i)
      BY <1>3, <2>1
    <2> QED BY <2>1, <2>2
  <1>5. ASSUME Over(l) PROVE Follows(l, lab[1])
    <2>1. 1 \in 1..Len(Bytes) /\ 1 - 1 = 0
      BY <1>1
    <2>2. Over(lab[1 - 1]) => Follows(lab[1 - 1], lab[1])
      BY <2>1 DEF Fits, Stream
    <2> QED BY <1>5, <2>1, <2>2
  <1>6. ASSUME Over(l), n <= Total(lab[1]), NEW i \in 1..n PROVE lab[i] = At(lab[1], i)
    <2>1. PICK m : m = lab[1]
      OBVIOUS
    <2>2. m \in Label /\ m.at = 1 /\ Total(m) \in Nat
      <3>1. 1 \in 0..Len(Bytes)
        BY <1>1
      <3> QED BY <1>1, <1>5, <1>6, <2>1, <3>1, Places DEF Follows
    <2>3. /\ 1 \in 0..Len(Bytes) /\ i - 1 \in 0..Len(Bytes) /\ 1 + (i - 1) <= Len(Bytes)
          /\ 1 + (i - 1) = i /\ m.at + (i - 1) <= Total(m) /\ m.at + (i - 1) = i
      BY <1>1, <1>6, <2>1, <2>2
    <2>4. lab[1 + (i - 1)] = At(lab[1], lab[1].at + (i - 1))
      BY <1>3, <2>1, <2>3
    <2> QED BY <2>1, <2>3, <2>4
  <1> QED BY <1>4, <1>5, <1>6

\* The header bytes of a frame up to one of its places.
HeadOf(m, k) == [i \in 1..k |-> [type |-> m.type, size |-> m.size, part |-> i]]

\* While the decoder collects a header it knows what lies before the frame.
LEMMA HeaderPlace ==
  ASSUME IInv, NEW lab, Fits(lab), Len(dec.head) < Header, chunk # <<>>,
         NEW n, n = Least(Header - Len(dec.head), Len(chunk))
  PROVE  /\ n \in 1..Len(chunk) /\ dec.terminal = "none"
         /\ \E m \in Label, k \in 1..Header :
              /\ Valid(m) /\ m.type # "none" /\ dec.received = m.base /\ dec.metadata = m.meta
              /\ k = Len(dec.head) + n /\ lab[n] = At(m, k) /\ Collected(n) = HeadOf(m, k)
  <1>1. PICK l : l = lab[0]
    OBVIOUS
  <1>2. /\ chunk \in Seq(Byte) /\ Len(chunk) \in Nat /\ Len(Bytes) \in Nat
        /\ Len(chunk) <= Len(Bytes)
        /\ \A i \in 1..Len(chunk) : chunk[i] = ByteOf(lab[i])
        /\ \A i \in 0..Len(Bytes) : Valid(lab[i]) /\ lab[i] \in Label
    BY ChunkLabels
  <1>3. Len(chunk) > 0
    BY <1>2, EmptySeq
  <1>4. PICK h : h = Len(dec.head)
    OBVIOUS
  <1>5. dec.head \in Seq(Byte) /\ h \in Nat /\ h < Header /\ Header \in Nat /\ Header > 0
    <2>1. dec.head \in Seq(Byte)
      BY DEF IInv, States, DecoderState
    <2>2. h \in Nat
      BY <1>4, <2>1, LenProperties
    <2> QED BY <1>4, <2>1, <2>2, Sizes
  <1>6. n \in 1..Len(chunk) /\ h + n <= Header /\ h + n \in 1..Header /\ n \in Nat
    <2>1. n = IF Header - h < Len(chunk) THEN Header - h ELSE Len(chunk)
      BY <1>4 DEF Least
    <2>2. Len(chunk) \in Nat /\ Len(chunk) > 0
      BY <1>2, <1>3
    <2> QED BY <1>5, <2>1, <2>2
  <1>7. l \in Label /\ Valid(l) /\ Decoder(l)
    <2>1. 0 \in 0..Len(Bytes)
      BY <1>2
    <2> QED BY <1>1, <1>2, <2>1 DEF Fits
  <1>8. l.at \in Nat /\ l.at \in 1..Total(l) /\ Total(l) = Header + l.size /\ l.size \in Nat
    BY <1>7 DEF Label, Valid, Total
  <1>9. Len(First(chunk, n)) = n /\ First(chunk, n) \in Seq(Byte)
        /\ \A i \in 1..n : First(chunk, n)[i] = chunk[i]
    BY <1>2, <1>6, CutInTwo
  <1>10. /\ Collected(n) \in Seq(Byte) /\ Len(Collected(n)) = h + n
         /\ \A i \in 1..h : Collected(n)[i] = dec.head[i]
         /\ \A i \in 1..n : Collected(n)[h + i] = chunk[i]
    <2>1. PICK a, b : a = dec.head /\ b = First(chunk, n)
      OBVIOUS
    <2>2. a \in Seq(Byte) /\ b \in Seq(Byte) /\ Len(a) = h /\ Len(b) = n
          /\ \A i \in 1..n : b[i] = chunk[i]
      BY <1>4, <1>5, <1>9, <2>1
    <2>3. /\ a \o b \in Seq(Byte) /\ Len(a \o b) = Len(a) + Len(b)
          /\ \A i \in 1..Len(a) : (a \o b)[i] = a[i]
          /\ \A i \in 1..Len(b) : (a \o b)[Len(a) + i] = b[i]
      <3>1. a \in Seq(Byte) /\ b \in Seq(Byte)
        BY <2>2
      <3> QED BY <3>1, Joins
    <2>4. Collected(n) = a \o b
      BY <2>1 DEF Collected
    <2> QED BY <2>1, <2>2, <2>3, <2>4
  <1>11. dec.terminal = "none"
    <2>1. ~(l.type \in Terminal /\ Over(l))
      <3>1. Over(l) => Follows(l, lab[1])
        BY <1>1, <1>6, Ahead
      <3> QED BY <3>1 DEF Follows, Terminal
    <2> QED BY <1>7, <2>1 DEF Decoder
  <1>12. PICK m \in Label : /\ Valid(m) /\ m.type # "none" /\ dec.received = m.base
                            /\ dec.metadata = m.meta
                            /\ \A i \in 1..h : dec.head[i] = ByteOf(At(m, i))
                            /\ \A i \in 1..n : lab[i] = At(m, h + i)
    <2>1. CASE Over(l)
      <3>1. PICK m : m = lab[1]
        OBVIOUS
      <3>2. Follows(l, m) /\ (n <= Total(m) => \A i \in 1..n : lab[i] = At(m, i))
        BY <1>1, <1>6, <2>1, <3>1, Ahead
      <3>3. m \in Label /\ Valid(m)
        <4>1. 1 \in 0..Len(Bytes)
          BY <1>2, <1>3
        <4> QED BY <1>2, <3>1, <4>1
      <3>4. h = 0
        <4>1. dec.head = <<>>
          BY <1>7, <2>1 DEF Decoder
        <4> QED BY <1>4, <4>1
      <3>5. n <= Total(m)
        BY <1>5, <1>6, <3>3, <3>4 DEF Total, Label
      <3>6. \A i \in 1..n : lab[i] = At(m, h + i)
        <4>1. \A i \in 1..n : h + i = i
          BY <3>4
        <4> QED BY <3>2, <3>5, <4>1
      <3>7. m.type # "none"
        BY <3>2 DEF Follows, Terminal
      <3>8. dec.received = m.base
        <4>1. Behind(l) = End(l)
          BY <1>5, <1>7, <1>8, <2>1 DEF Behind, End, Over, Valid, Label
        <4> QED BY <1>7, <3>2, <4>1 DEF Decoder, Follows
      <3>9. dec.metadata = m.meta
        <4>1. dec.metadata = (l.meta \/ l.type = "meta")
          BY <1>7, <2>1 DEF Decoder
        <4>2. CASE l.type = "none"
          <5>1. ~l.meta /\ ~m.meta /\ l.type # "meta"
            BY <1>7, <3>2, <4>2 DEF Valid, Origin, Follows
          <5>2. m.meta \in BOOLEAN
            BY <3>3 DEF Label
          <5> QED BY <4>1, <5>1, <5>2
        <4>3. CASE l.type # "none"
          <5>1. m.meta /\ (l.meta \/ l.type = "meta")
            BY <1>7, <3>2, <4>3 DEF Valid, Follows
          <5>2. m.meta \in BOOLEAN
            BY <3>3 DEF Label
          <5> QED BY <4>1, <5>1, <5>2
        <4> QED BY <4>2, <4>3
      <3>10. \A i \in 1..h : dec.head[i] = ByteOf(At(m, i))
        BY <3>4
      <3> QED BY <3>3, <3>6, <3>7, <3>8, <3>9, <3>10
    <2>2. CASE ~Over(l)
      <3>1. dec.head = [i \in 1..Least(l.at, Header) |->
                          [type |-> l.type, size |-> l.size, part |-> i]]
        BY <1>7, <2>2 DEF Decoder
      <3>2. h = l.at /\ Least(l.at, Header) = h
        <4>1. h = Least(l.at, Header)
          <5>1. Least(l.at, Header) \in Nat
            BY <1>5, <1>8 DEF Least
          <5> QED BY <1>4, <3>1, <5>1
        <4> QED BY <1>5, <1>8, <4>1 DEF Least
      <3>3. \A i \in 1..h : dec.head[i] = ByteOf(At(l, i))
        <4>1. \A i \in 1..h : ByteOf(At(l, i)) = [type |-> l.type, size |-> l.size, part |-> i]
          <5>1. ASSUME NEW i \in 1..h
                PROVE  ByteOf(At(l, i)) = [type |-> l.type, size |-> l.size, part |-> i]
            <6>1. i \in Nat /\ i <= Header
              BY <1>5
            <6>2. At(l, i).at = i /\ At(l, i).type = l.type /\ At(l, i).size = l.size
              BY <1>7, <6>1, Places
            <6> QED BY <6>1, <6>2 DEF ByteOf
          <5> QED BY <5>1
        <4> QED BY <3>1, <3>2, <4>1
      <3>4. \A i \in 1..n : lab[i] = At(l, h + i)
        <4>1. l.at + n <= Total(l)
          BY <1>6, <1>8, <3>2, <1>5
        <4>2. \A i \in 0..n : lab[i] = At(l, l.at + i)
          BY <1>1, <1>6, <2>2, <4>1, Ahead
        <4>3. \A i \in 1..n : i \in 0..n
          BY <1>6
        <4> QED BY <3>2, <4>2, <4>3
      <3>5. l.type # "none"
        BY <1>7, <2>2, <1>5 DEF Valid, Origin, Over, Total
      <3>6. dec.received = l.base /\ dec.metadata = l.meta
        <4>1. Behind(l) = l.base
          BY <1>5, <1>7, <1>8, <3>2 DEF Behind, Label
        <4>2. l.meta \in BOOLEAN
          BY <1>7 DEF Label
        <4> QED BY <1>7, <2>2, <4>1, <4>2 DEF Decoder
      <3> QED BY <1>7, <3>3, <3>4, <3>5, <3>6
    <2> QED BY <2>1, <2>2
  <1>13. PICK k : k = h + n
    OBVIOUS
  <1>14. lab[n] = At(m, k)
    BY <1>6, <1>12, <1>13
  <1>15. ASSUME NEW i \in 1..k
         PROVE  Collected(n)[i] = [type |-> m.type, size |-> m.size, part |-> i]
    <2>1. i \in Nat /\ i <= Header
      BY <1>5, <1>6, <1>13
    <2>2. At(m, i).at = i /\ At(m, i).type = m.type /\ At(m, i).size = m.size
      BY <2>1, Places
    <2>3. ByteOf(At(m, i)) = [type |-> m.type, size |-> m.size, part |-> i]
      BY <2>1, <2>2 DEF ByteOf
    <2>4. Collected(n)[i] = ByteOf(At(m, i))
      <3>1. CASE i <= h
        <4>1. i \in 1..h
          BY <1>5, <3>1
        <4> QED BY <1>10, <1>12, <4>1
      <3>2. CASE ~(i <= h)
        <4>1. PICK j \in 1..n : i = h + j
          <5>1. i - h \in 1..n /\ i = h + (i - h)
            BY <1>5, <1>6, <1>13, <2>1, <3>2
          <5> QED BY <5>1
        <4>2. j \in 1..Len(chunk)
          BY <1>2, <1>6
        <4> QED BY <1>2, <1>10, <1>12, <4>1, <4>2
      <3> QED BY <3>1, <3>2
    <2> QED BY <2>3, <2>4
  <1>16. Collected(n) = HeadOf(m, k)
    <2>1. Collected(n) = [i \in 1..k |-> Collected(n)[i]]
      BY <1>10, <1>13, LenProperties
    <2> QED BY <1>15, <2>1 DEF HeadOf
  <1>17. k \in 1..Header /\ k = Len(dec.head) + n
    BY <1>4, <1>6, <1>13
  <1> QED BY <1>6, <1>11, <1>12, <1>14, <1>16, <1>17

LEMMA Heads ==
  ASSUME NEW m \in Label, NEW k \in 1..Header
  PROVE  /\ HeadOf(m, k) \in Seq(Byte) /\ Len(HeadOf(m, k)) = k
         /\ \A i \in 1..k : HeadOf(m, k)[i] = [type |-> m.type, size |-> m.size, part |-> i]
  <1>1. k \in Nat
    BY Sizes
  <1>2. ASSUME NEW i \in 1..k PROVE [type |-> m.type, size |-> m.size, part |-> i] \in Byte
    <2>1. i \in Nat /\ m.type \in Type /\ m.size \in Nat
      BY <1>1 DEF Label
    <2> QED BY <2>1 DEF Byte
  <1>3. HeadOf(m, k) \in Seq(Byte)
    <2>1. [i \in 1..k |-> [type |-> m.type, size |-> m.size, part |-> i]] \in Seq(Byte)
      BY <1>1, <1>2, IsASeq
    <2> QED BY <2>1 DEF HeadOf
  <1> QED BY <1>1, <1>3 DEF HeadOf

\* The decoder at a place of a header, and at the end of one.
LEMMA DecoderInHeader ==
  ASSUME dec \in DecoderState, NEW m \in Label, Valid(m), NEW k \in 1..Header,
         dec.received = m.base, dec.metadata = m.meta, dec.terminal = "none",
         \/ k < Header /\ dec' = [dec EXCEPT !.head = HeadOf(m, k)]
         \/ /\ k = Header /\ m.size # 0
            /\ dec' = [dec EXCEPT !.head = HeadOf(m, k), !.type = m.type, !.remaining = m.size]
         \/ /\ k = Header /\ m.size = 0
            /\ dec' = EndFrame([dec EXCEPT !.head = HeadOf(m, k), !.type = m.type,
                                           !.remaining = m.size], m.type)
  PROVE  /\ dec' \in DecoderState /\ Len(dec'.head) <= Header /\ dec'.received = dec.received
         /\ \A z : z = At(m, k) => Decoder(z)'
  <1>1. /\ Header \in Nat /\ Header > 0 /\ m.size \in Nat /\ m.type \in Type /\ m.meta \in BOOLEAN
        /\ m.base \in Nat /\ Total(m) = Header + m.size /\ k \in Nat
    BY Sizes DEF Label, Total
  <1>2. PICK h : h = HeadOf(m, k)
    OBVIOUS
  <1>3. h \in Seq(Byte) /\ Len(h) = k
    BY <1>2, Heads
  <1>4. PICK z : z = At(m, k)
    OBVIOUS
  <1>5. /\ z.type = m.type /\ z.size = m.size /\ z.at = k /\ z.base = m.base /\ z.meta = m.meta
        /\ Total(z) = Header + m.size
    BY <1>1, <1>4, Places
  <1>6. Behind(z) = m.base
    BY <1>1, <1>5 DEF Behind
  <1>7. Least(z.at, Header) = k
    BY <1>1, <1>5 DEF Least
  <1>8. h = [i \in 1..Least(z.at, Header) |-> [type |-> z.type, size |-> z.size, part |-> i]]
    BY <1>2, <1>5, <1>7 DEF HeadOf
  <1>9. CASE k < Header
    <2>1. dec' = [dec EXCEPT !.head = h]
      BY <1>2, <1>9
    <2>2. /\ dec' \in DecoderState /\ dec'.head = h /\ dec'.received = dec.received
          /\ dec'.metadata = dec.metadata /\ dec'.terminal = dec.terminal
      BY <1>3, <2>1 DEF DecoderState
    <2>3. ~Over(z) /\ ~(z.at >= Header)
      BY <1>1, <1>5, <1>9 DEF Over
    <2>4. Decoder(z)'
      BY <1>1, <1>5, <1>6, <1>8, <2>2, <2>3 DEF Decoder
    <2>5. Len(dec'.head) <= Header
      BY <1>1, <1>3, <2>2
    <2> QED BY <1>4, <2>2, <2>4, <2>5
  <1>10. CASE k = Header /\ m.size # 0
    <2>1. dec' = [dec EXCEPT !.head = h, !.type = m.type, !.remaining = m.size]
      BY <1>2, <1>10, <1>1
    <2>2. /\ dec' \in DecoderState /\ dec'.head = h /\ dec'.received = dec.received
          /\ dec'.metadata = dec.metadata /\ dec'.terminal = dec.terminal
          /\ dec'.type = m.type /\ dec'.remaining = m.size
      BY <1>1, <1>3, <2>1 DEF DecoderState
    <2>3. ~Over(z) /\ Total(z) - z.at = m.size
      BY <1>1, <1>5, <1>10 DEF Over
    <2>4. Decoder(z)'
      BY <1>1, <1>5, <1>6, <1>8, <2>2, <2>3 DEF Decoder
    <2>5. Len(dec'.head) <= Header
      BY <1>1, <1>3, <2>2
    <2> QED BY <1>4, <2>2, <2>4, <2>5
  <1>11. CASE k = Header /\ m.size = 0
    <2>1. PICK begun : begun = [dec EXCEPT !.head = h, !.type = m.type, !.remaining = m.size]
      OBVIOUS
    <2>2. /\ begun \in DecoderState /\ begun.received = dec.received
          /\ begun.metadata = dec.metadata /\ begun.terminal = dec.terminal
      BY <1>1, <1>3, <2>1 DEF DecoderState
    <2>3. dec' = EndFrame(begun, m.type)
      BY <1>2, <1>11, <1>1, <2>1
    <2>4. /\ dec' \in DecoderState /\ dec'.head = <<>> /\ dec'.received = dec.received
          /\ dec'.metadata = (dec.metadata \/ m.type = "meta")
          /\ dec'.terminal = IF m.type \in Terminal THEN m.type ELSE dec.terminal
      <3>1. <<>> \in Seq(Byte)
        BY EmptySeq
      <3>2. (begun.metadata \/ m.type = "meta") \in BOOLEAN
        BY <2>2 DEF DecoderState
      <3>3. (IF m.type \in Terminal THEN m.type ELSE begun.terminal) \in Terminal \cup {"none"}
        BY <2>2 DEF DecoderState
      <3> QED BY <2>2, <2>3, <3>1, <3>2, <3>3 DEF EndFrame, DecoderState
    <2>5. Over(z)
      BY <1>1, <1>5, <1>11 DEF Over
    <2>6. Decoder(z)'
      BY <1>1, <1>5, <1>6, <2>4, <2>5 DEF Decoder
    <2>7. Len(dec'.head) <= Header
      BY <1>1, <2>4
    <2> QED BY <1>4, <2>4, <2>6, <2>7
  <1> QED BY <1>1, <1>9, <1>10, <1>11

\* The writer's headers are always sound.
LEMMA SoundHeader ==
  ASSUME dec \in DecoderState, NEW m \in Label, Valid(m), m.type # "none",
         dec.received = m.base, dec.metadata = m.meta
  PROVE  /\ Sound(HeadOf(m, Header)) /\ HeadOf(m, Header)[1].type = m.type
         /\ HeadOf(m, Header)[1].size = m.size /\ Ends(dec, m.type)
  <1>1. /\ Header \in Nat /\ Header > 0 /\ Header \in 1..Header /\ m.size \in Nat
        /\ m.type \in Type /\ m.meta \in BOOLEAN /\ m.base \in Nat /\ Declared \in Nat
    BY Sizes DEF Label
  <1>2. PICK h : h = HeadOf(m, Header)
    OBVIOUS
  <1>3. \A i \in 1..Header : h[i] = [type |-> m.type, size |-> m.size, part |-> i]
    BY <1>1, <1>2, Heads
  <1>4. h[1] = [type |-> m.type, size |-> m.size, part |-> 1]
    BY <1>1, <1>3
  <1>5. \A i \in 1..Header : "part" \in DOMAIN h[i] /\ h[i] = [h[1] EXCEPT !.part = i]
    BY <1>3, <1>4
  <1>6. h[1].type = m.type /\ h[1].size = m.size
    BY <1>4
  <1>7. /\ m.meta \/ m.type \in {"meta", "error", "cancelled"}
        /\ m.type = "meta" => ~m.meta
        /\ m.type \in {"complete", "cancelled"} => m.size = 0
        /\ m.type = "complete" => m.base = Declared
    BY <1>1 DEF Valid, Type, Terminal
  <1>8. m.type = "data" => m.size % Word = 0
    BY DEF Valid
  <1>9. m.type = "data" => m.size <= Declared - m.base
    BY <1>1 DEF Valid, End
  <1>10. Sound(h)
    BY <1>5, <1>6, <1>7, <1>8, <1>9 DEF Sound
  <1>11. Ends(dec, m.type)
    BY <1>7 DEF Ends
  <1> QED BY <1>2, <1>6, <1>10, <1>11

LEMMA PushHeaderKeeps ==
  ASSUME IInv, PushHeader
  PROVE  IInv'
  <1>1. /\ outcome = "none" /\ chunk # <<>> /\ Len(dec.head) < Header
        /\ UNCHANGED <<length, terminal, held, taken, pc, carry, view, pending, then, sent,
                       aborted, deleting, wire>>
    BY DEF PushHeader
  <1>2. PICK lab \in [0..Len(Bytes) -> Label] : Fits(lab)
    BY <1>1 DEF IInv
  <1>3. PICK n : n = Least(Header - Len(dec.head), Len(chunk))
    OBVIOUS
  <1>4. /\ n \in 1..Len(chunk) /\ dec.terminal = "none"
        /\ \E m \in Label, k \in 1..Header :
              /\ Valid(m) /\ m.type # "none" /\ dec.received = m.base /\ dec.metadata = m.meta
              /\ k = Len(dec.head) + n /\ lab[n] = At(m, k) /\ Collected(n) = HeadOf(m, k)
    BY <1>1, <1>2, <1>3, HeaderPlace
  <1>5. PICK m \in Label, k \in 1..Header :
              /\ Valid(m) /\ m.type # "none" /\ dec.received = m.base /\ dec.metadata = m.meta
              /\ k = Len(dec.head) + n /\ lab[n] = At(m, k) /\ Collected(n) = HeadOf(m, k)
    BY <1>4
  <1>6. Len(HeadOf(m, k)) = k /\ Header \in Nat /\ k \in Nat /\ k <= Header
    BY Heads, Sizes
  <1>7. dec \in DecoderState
    BY DEF IInv, States
  <1>8. PICK head, begun :
          /\ head = HeadOf(m, k)
          /\ begun = [dec EXCEPT !.head = head, !.type = head[1].type,
                                 !.remaining = head[1].size]
    OBVIOUS
  <1>9. /\ chunk' = Drop(chunk, n)
        /\ \/ dec.terminal # "none" /\ Reject
           \/ /\ dec.terminal = "none" /\ Len(head) < Header
              /\ dec' = [dec EXCEPT !.head = head]
              /\ UNCHANGED <<tail, received, values, outcome, link>>
           \/ /\ dec.terminal = "none" /\ Len(head) = Header /\ Sound(head)
              /\ begun.remaining = 0 => Ends(dec, begun.type)
              /\ dec' = IF begun.remaining = 0 THEN EndFrame(begun, begun.type) ELSE begun
              /\ UNCHANGED <<tail, received, values, outcome, link>>
           \/ /\ dec.terminal = "none" /\ Len(head) = Header
              /\ ~(Sound(head) /\ (begun.remaining = 0 => Ends(dec, begun.type)))
              /\ Reject
    BY <1>3, <1>5, <1>8 DEF PushHeader
  <1>10. Len(head) = k
    BY <1>6, <1>8
  <1>11. k = Header => /\ head[1].type = m.type /\ head[1].size = m.size
                       /\ begun.type = m.type /\ begun.remaining = m.size
                       /\ begun = [dec EXCEPT !.head = HeadOf(m, k), !.type = m.type,
                                              !.remaining = m.size]
                       /\ Sound(head) /\ Ends(dec, m.type)
    <2>1. ASSUME k = Header PROVE /\ head[1].type = m.type /\ head[1].size = m.size
                                  /\ Sound(head) /\ Ends(dec, m.type)
      <3>1. /\ Sound(HeadOf(m, Header)) /\ HeadOf(m, Header)[1].type = m.type
            /\ HeadOf(m, Header)[1].size = m.size /\ Ends(dec, m.type)
        BY <1>5, <1>7, SoundHeader
      <3> QED BY <1>8, <2>1, <3>1
    <2>2. ASSUME k = Header
          PROVE  begun = [dec EXCEPT !.head = HeadOf(m, k), !.type = m.type, !.remaining = m.size]
      BY <1>8, <2>1, <2>2
    <2>3. ASSUME k = Header PROVE begun.type = m.type /\ begun.remaining = m.size
      <3>1. begun = [dec EXCEPT !.head = HeadOf(m, k), !.type = m.type, !.remaining = m.size]
        BY <2>2, <2>3
      <3> QED BY <1>7, <3>1 DEF DecoderState
    <2> QED BY <2>1, <2>2, <2>3
  <1>12. /\ UNCHANGED <<tail, received, values, outcome, link>>
         /\ \/ k < Header /\ dec' = [dec EXCEPT !.head = HeadOf(m, k)]
            \/ /\ k = Header /\ m.size # 0
               /\ dec' = [dec EXCEPT !.head = HeadOf(m, k), !.type = m.type,
                                     !.remaining = m.size]
            \/ /\ k = Header /\ m.size = 0
               /\ dec' = EndFrame([dec EXCEPT !.head = HeadOf(m, k), !.type = m.type,
                                              !.remaining = m.size], m.type)
    <2>1. CASE k < Header
      <3>1. k # Header
        BY <1>6, <2>1
      <3> QED BY <1>4, <1>8, <1>9, <1>10, <2>1, <3>1
    <2>2. CASE k = Header
      <3>1. ~(Len(head) < Header) /\ Len(head) = Header
        BY <1>6, <1>10, <2>2
      <3>2. Sound(head) /\ (begun.remaining = 0 => Ends(dec, begun.type))
        BY <1>11, <2>2
      <3>3. /\ dec' = IF begun.remaining = 0 THEN EndFrame(begun, begun.type) ELSE begun
            /\ UNCHANGED <<tail, received, values, outcome, link>>
        BY <1>4, <1>9, <3>1, <3>2
      <3> QED BY <1>11, <2>2, <3>3
    <2> QED BY <1>6, <2>1, <2>2
  <1>13. /\ dec' \in DecoderState /\ Len(dec'.head) <= Header /\ dec'.received = dec.received
         /\ \A z : z = At(m, k) => Decoder(z)'
    BY <1>4, <1>5, <1>7, <1>12, DecoderInHeader
  <1>14. Filled'
    BY <1>12, <1>13 DEF IInv, Filled
  <1>15. PICK z : z = lab[n]
    OBVIOUS
  <1>16. Decoder(z)'
    BY <1>5, <1>13, <1>15
  <1>17. n \in 0..Len(chunk)
    BY <1>4
  <1> QED BY <1>1, <1>2, <1>9, <1>12, <1>13, <1>14, <1>15, <1>16, <1>17, Taking

\* The decoder at a place of a payload, and at the end of one.
LEMMA DecoderInPayload ==
  ASSUME dec \in DecoderState, NEW l \in Label, Valid(l), Decoder(l), ~Over(l), l.at >= Header,
         NEW n \in Nat, n > 0, l.at + n <= Total(l), NEW after,
         after = [dec EXCEPT !.remaining = @ - n,
                             !.received = IF dec.type = "data" THEN @ + n ELSE @],
         dec' = IF after.remaining = 0 THEN EndFrame(after, dec.type) ELSE after
  PROVE  /\ dec' \in DecoderState /\ Len(dec'.head) <= Header
         /\ dec'.received = dec.received + (IF l.type = "data" THEN n ELSE 0)
         /\ l.type = "data" => dec'.received <= Declared
         /\ \A z : z = At(l, l.at + n) => Decoder(z)'
  <1>1. /\ Header \in Nat /\ Header > 0 /\ l.size \in Nat /\ l.at \in Nat /\ l.base \in Nat
        /\ l.type \in Type /\ l.meta \in BOOLEAN /\ Total(l) = Header + l.size
        /\ Declared \in Nat
    BY Sizes DEF Label, Total
  <1>2. PICK k : k = l.at + n /\ k \in Nat /\ k > Header
    BY <1>1
  <1>3. PICK z : z = At(l, k)
    OBVIOUS
  <1>4. /\ z.type = l.type /\ z.size = l.size /\ z.at = k /\ z.base = l.base /\ z.meta = l.meta
        /\ Total(z) = Header + l.size
    BY <1>1, <1>2, <1>3, Places
  <1>5. /\ dec.type = l.type /\ dec.remaining = Total(l) - l.at /\ dec.received = Behind(l)
        /\ dec.metadata = l.meta /\ dec.terminal = "none"
        /\ dec.head = HeadOf(l, Header) /\ dec.head \in Seq(Byte) /\ Len(dec.head) = Header
    <2>1. Least(l.at, Header) = Header
      BY <1>1 DEF Least
    <2>2. dec.head = HeadOf(l, Header)
      BY <2>1 DEF Decoder, HeadOf
    <2>3. Header \in 1..Header
      BY <1>1
    <2>4. HeadOf(l, Header) \in Seq(Byte) /\ Len(HeadOf(l, Header)) = Header
      BY <2>3, Heads
    <2> QED BY <1>1, <2>2, <2>4 DEF Decoder
  <1>6. /\ Behind(l) = l.base + (IF l.type = "data" THEN l.at - Header ELSE 0)
        /\ Behind(z) = l.base + (IF l.type = "data" THEN k - Header ELSE 0)
    BY <1>1, <1>2, <1>4 DEF Behind
  <1>7a. PICK rest, got : /\ rest = dec.remaining - n
                          /\ got = (IF l.type = "data" THEN dec.received + n ELSE dec.received)
    OBVIOUS
  <1>7. /\ rest \in Nat /\ rest = Total(z) - z.at /\ got \in Nat /\ got = Behind(z)
        /\ got = dec.received + (IF l.type = "data" THEN n ELSE 0)
    <2>1. rest \in Nat /\ rest = Total(z) - z.at
      BY <1>1, <1>2, <1>4, <1>5, <1>7a
    <2>2. dec.received \in Nat
      BY DEF DecoderState
    <2>3. CASE l.type = "data"
      <3>1. got = dec.received + n /\ Behind(z) = l.base + (k - Header)
            /\ dec.received = l.base + (l.at - Header)
        BY <1>5, <1>6, <1>7a, <2>3
      <3> QED BY <1>1, <1>2, <2>1, <2>2, <2>3, <3>1
    <2>4. CASE l.type # "data"
      BY <1>1, <1>5, <1>6, <1>7a, <2>1, <2>2, <2>4
    <2> QED BY <2>3, <2>4
  <1>8. got <= Declared \/ l.type # "data"
    <2>1. l.base + l.size <= Declared \/ l.type # "data"
      BY DEF Valid, End
    <2> QED BY <1>1, <1>2, <1>6, <1>7, <2>1
  <1>9. after = [dec EXCEPT !.remaining = rest, !.received = got]
    BY <1>5, <1>7a DEF DecoderState
  <1>10. /\ after \in DecoderState /\ after.remaining = rest /\ after.received = got
         /\ after.head = dec.head /\ after.type = dec.type /\ after.metadata = dec.metadata
         /\ after.terminal = dec.terminal
    BY <1>7, <1>9 DEF DecoderState
  <1>11. Over(z) <=> rest = 0
    BY <1>1, <1>2, <1>4, <1>7 DEF Over
  <1>12. CASE rest # 0
    <2>1. dec' = after
      BY <1>10, <1>12
    <2>2. Least(z.at, Header) = Header
      BY <1>1, <1>2, <1>4 DEF Least
    <2>3. HeadOf(l, Header) = [i \in 1..Least(z.at, Header) |->
                                [type |-> z.type, size |-> z.size, part |-> i]]
      BY <1>4, <2>2 DEF HeadOf
    <2>4. Decoder(z)'
      BY <1>4, <1>5, <1>7, <1>10, <1>11, <1>12, <2>1, <2>3 DEF Decoder
    <2>5. Len(dec'.head) <= Header
      <3>1. dec'.head = dec.head
        BY <1>10, <2>1
      <3> QED BY <1>1, <1>5, <3>1
    <2> QED BY <1>2, <1>3, <1>7, <1>8, <1>10, <2>1, <2>4, <2>5
  <1>13. CASE rest = 0
    <2>1. dec' = EndFrame(after, l.type)
      BY <1>5, <1>10, <1>13
    <2>2. /\ dec' \in DecoderState /\ dec'.head = <<>> /\ dec'.received = got
          /\ dec'.metadata = (l.meta \/ l.type = "meta")
          /\ dec'.terminal = IF l.type \in Terminal THEN l.type ELSE "none"
      <3>1. <<>> \in Seq(Byte)
        BY EmptySeq
      <3>2. (after.metadata \/ l.type = "meta") \in BOOLEAN
        BY <1>10 DEF DecoderState
      <3>3. (IF l.type \in Terminal THEN l.type ELSE after.terminal) \in Terminal \cup {"none"}
        BY <1>10 DEF DecoderState
      <3> QED BY <1>5, <1>10, <2>1, <3>1, <3>2, <3>3 DEF EndFrame, DecoderState
    <2>3. Decoder(z)'
      BY <1>4, <1>7, <1>11, <1>13, <2>2 DEF Decoder
    <2>4. Len(dec'.head) <= Header
      BY <1>1, <2>2
    <2> QED BY <1>2, <1>3, <1>7, <1>8, <2>2, <2>3, <2>4
  <1> QED BY <1>12, <1>13

LEMMA PushPayloadKeeps ==
  ASSUME IInv, PushPayload
  PROVE  IInv'
  <1>1. /\ outcome = "none" /\ chunk # <<>> /\ Len(dec.head) = Header
        /\ UNCHANGED <<length, terminal, held, taken, pc, carry, view, pending, then, sent,
                       aborted, deleting, wire, link, outcome>>
    BY DEF PushPayload
  <1>2. PICK lab \in [0..Len(Bytes) -> Label] : Fits(lab)
    BY <1>1 DEF IInv
  <1>3. /\ chunk \in Seq(Byte) /\ Len(chunk) \in Nat /\ Len(Bytes) \in Nat
        /\ Len(chunk) <= Len(Bytes)
        /\ \A i \in 1..Len(chunk) : chunk[i] = ByteOf(lab[i])
        /\ \A i \in 0..Len(Bytes) : Valid(lab[i]) /\ lab[i] \in Label
    BY <1>2, ChunkLabels
  <1>4. PICK l : l = lab[0]
    OBVIOUS
  <1>5. l \in Label /\ Valid(l) /\ Decoder(l) /\ dec \in DecoderState
    <2>1. 0 \in 0..Len(Bytes)
      BY <1>3
    <2> QED BY <1>2, <1>3, <1>4, <2>1 DEF Fits, IInv, States
  <1>6. /\ Header \in Nat /\ Header > 0 /\ l.at \in Nat /\ l.size \in Nat /\ l.base \in Nat
        /\ Total(l) = Header + l.size /\ l.at <= Total(l) /\ l.at > 0
    BY <1>5, Sizes DEF Label, Valid, Total
  <1>7. ~Over(l) /\ l.at >= Header
    <2>1. ~Over(l)
      <3>1. <<>> # dec.head
        BY <1>1, <1>6
      <3> QED BY <1>5, <3>1 DEF Decoder
    <2>2. dec.head = HeadOf(l, Least(l.at, Header))
      BY <1>5, <2>1 DEF Decoder, HeadOf
    <2>3. Least(l.at, Header) \in 1..Header
      BY <1>6 DEF Least
    <2>4. Least(l.at, Header) = Header
      BY <1>1, <1>5, <2>2, <2>3, Heads
    <2> QED BY <1>6, <2>1, <2>4 DEF Least
  <1>8. dec.type = l.type /\ dec.remaining = Total(l) - l.at /\ dec.received = Behind(l)
    BY <1>5, <1>7 DEF Decoder
  <1>9. PICK n : n = Least(dec.remaining, Len(chunk))
    OBVIOUS
  <1>10. n \in 1..Len(chunk) /\ n \in 0..Len(chunk) /\ n \in Nat /\ n > 0 /\ l.at + n <= Total(l)
    <2>1. n = IF Total(l) - l.at < Len(chunk) THEN Total(l) - l.at ELSE Len(chunk)
      BY <1>8, <1>9 DEF Least
    <2>2. Len(chunk) > 0
      BY <1>1, <1>3, EmptySeq
    <2>3. l.at < Total(l)
      BY <1>6, <1>7 DEF Over
    <2> QED BY <1>3, <1>6, <2>1, <2>2, <2>3
  <1>11. PICK got : got = First(chunk, n)
    OBVIOUS
  <1>12. PICK bytes : bytes = [i \in 1..n |-> IF "byte" \in DOMAIN got[i] THEN got[i].byte ELSE 0]
    OBVIOUS
  <1>13. PICK after : after = [dec EXCEPT !.remaining = @ - n,
                                          !.received = IF dec.type = "data" THEN @ + n ELSE @]
    OBVIOUS
  <1>14. /\ chunk' = Drop(chunk, n)
         /\ dec' = IF after.remaining = 0 THEN EndFrame(after, dec.type) ELSE after
         /\ IF dec.type = "data" THEN Words(bytes) ELSE UNCHANGED <<tail, received, values>>
    BY <1>9, <1>11, <1>12, <1>13 DEF PushPayload
  <1>15. /\ dec' \in DecoderState /\ Len(dec'.head) <= Header
         /\ dec'.received = dec.received + (IF l.type = "data" THEN n ELSE 0)
         /\ l.type = "data" => dec'.received <= Declared
         /\ \A z : z = At(l, l.at + n) => Decoder(z)'
    BY <1>5, <1>7, <1>10, <1>13, <1>14, DecoderInPayload
  <1>16. \A i \in 0..n : lab[i] = At(l, l.at + i)
    BY <1>2, <1>4, <1>7, <1>10, Ahead
  <1>17. Filled'
    <2>1. CASE l.type = "data"
      <3>1. ASSUME NEW i \in 1..n PROVE bytes[i] = received + i /\ bytes[i] \in Nat
        <4>1. got[i] = chunk[i] /\ i \in 1..Len(chunk) /\ i \in 0..n /\ i \in Nat /\ i > 0
          <5>1. \A j \in 1..n : First(chunk, n)[j] = chunk[j]
            BY <1>3, <1>10, CutInTwo
          <5> QED BY <1>10, <1>3, <1>11, <5>1
        <4>2. PICK z : z = At(l, l.at + i)
          OBVIOUS
        <4>3. got[i] = ByteOf(z)
          BY <1>3, <1>16, <4>1, <4>2
        <4>4. z.type = "data" /\ z.base = l.base /\ z.at = l.at + i /\ l.at + i \in Nat
          BY <1>5, <1>6, <2>1, <4>1, <4>2, Places
        <4>5. got[i] = [byte |-> l.base + (l.at + i - Header)]
          BY <1>6, <1>7, <4>1, <4>3, <4>4 DEF ByteOf
        <4>6. bytes[i] = l.base + (l.at + i - Header)
          BY <1>12, <4>5
        <4>7. received = l.base + (l.at - Header)
          BY <1>6, <1>7, <1>8, <2>1 DEF Behind, IInv, Filled
        <4>8. i \in Nat
          BY <4>1
        <4>9. l.base + (l.at + i - Header) = l.base + (l.at - Header) + i
              /\ l.base + (l.at + i - Header) \in Nat
          BY <1>6, <1>7, <4>8
        <4> QED BY <4>6, <4>7, <4>9
      <3>2. bytes \in Seq(Nat) /\ Len(bytes) = n
        <4>1. [i \in 1..n |-> bytes[i]] \in Seq(Nat)
          BY <1>10, <3>1, IsASeq
        <4>2. bytes = [i \in 1..n |-> bytes[i]]
          BY <1>12
        <4>3. bytes \in Seq(Nat) /\ DOMAIN bytes = 1..n
          BY <4>1, <4>2
        <4>4. DOMAIN bytes = 1..Len(bytes) /\ Len(bytes) \in Nat
          BY <4>3, LenProperties
        <4> QED BY <1>10, <4>3, <4>4
      <3>3. dec'.received = received + Len(bytes)
        BY <1>15, <2>1, <3>2 DEF IInv, Filled
      <3>4. Words(bytes)
        BY <1>8, <1>14, <2>1
      <3> QED BY <1>15, <2>1, <3>1, <3>2, <3>3, <3>4, WordsKeep DEF IInv
    <2>2. CASE l.type # "data"
      <3>1. UNCHANGED <<tail, received, values>>
        BY <1>8, <1>14, <2>2
      <3>2. dec'.received = dec.received
        <4>1. dec.received \in Nat
          BY <1>5 DEF DecoderState
        <4> QED BY <1>15, <2>2, <4>1
      <3> QED BY <3>1, <3>2 DEF IInv, Filled
    <2> QED BY <2>1, <2>2
  <1>18. PICK z : z = lab[n]
    OBVIOUS
  <1>19. Decoder(z)'
    <2>1. z = At(l, l.at + n)
      BY <1>10, <1>16, <1>18
    <2> QED BY <1>15, <2>1
  <1> QED BY <1>1, <1>2, <1>10, <1>14, <1>15, <1>17, <1>18, <1>19, Taking

-----------------------------------------------------------------------------
(* The theorems.                                                           *)

LEMMA InitIInv ==
  ASSUME Init
  PROVE  IInv
  <1>1. <<>> \in Seq(Byte) /\ <<>> \in Seq(Nat) /\ Len(<<>>) = 0 /\ <<>> \o <<>> = <<>>
    BY EmptySeq
  <1>2. Header \in Nat /\ Header > 0 /\ Word \in Nat /\ Word > 0 /\ Declared \in Nat
        /\ Lengths \subseteq Nat
    BY Sizes
  <1>3. dec \in DecoderState
    BY <1>1 DEF Init, DecoderState, Type, Terminal
  <1>4. States
    <2>1. dec.head = <<>> /\ Len(dec.head) <= Header
      BY <1>1, <1>2 DEF Init
    <2> QED BY <1>1, <1>3, <2>1 DEF Init, States
  <1>5. Producer
    <2>1. 0 % Word = 0
      <3>1. 0 = 0 * Word /\ 0 \in Nat
        BY <1>2
      <3> QED BY <3>1, Whole1
    <2> QED BY <1>1, <1>2, <2>1 DEF Init, Producer
  <1>6. Filled
    <2>1. ASSUME NEW i \in DOMAIN values
          PROVE  values[i] = IF (i + 1) * Word <= received THEN Produced(i) ELSE <<>>
      <3>1. values = [j \in 0..(Declared \div Word) - 1 |-> <<>>] /\ received = 0
        BY DEF Init
      <3>2. i \in Nat /\ i + 1 \in Nat
        BY <3>1
      <3>3. (i + 1) * Word = i * Word + Word /\ i * Word \in Nat
        BY <3>2, Sum, Product
      <3>4. ~((i + 1) * Word <= 0)
        BY <1>2, <3>3
      <3> QED BY <3>1, <3>4
    <2>2. 0 = 0 * Word + Len(<<>>) /\ 0 \in 0..0
      BY <1>1, <1>2
    <2>3. DOMAIN values = 0..(Declared \div Word) - 1
      BY DEF Init
    <2>4. received = 0 /\ dec.received = 0 /\ tail = <<>>
      BY DEF Init
    <2>5. \E k \in 0..received : /\ received = k * Word + Len(tail)
                                 /\ \A i \in 1..Len(tail) : tail[i] = k * Word + i
      BY <1>1, <2>2, <2>4
    <2> QED BY <1>1, <1>2, <2>1, <2>3, <2>4, <2>5 DEF Filled
  <1>7. PICK lab : lab = [q \in 0..0 |-> Origin]
    OBVIOUS
  <1>8. Bytes = <<>> /\ Len(Bytes) = 0 /\ lab \in [0..Len(Bytes) -> Label] /\ lab[0] = Origin
    <2>1. Origin \in Label
      BY <1>2 DEF Origin, Label, Type
    <2>2. Bytes = <<>>
      BY <1>1 DEF Init, Bytes
    <2> QED BY <1>1, <1>7, <2>1, <2>2
  <1>9. Over(Origin) /\ Valid(Origin) /\ Honest(Origin)
    <2>1. Over(Origin)
      BY <1>2 DEF Over, Total, Origin
    <2>2. Origin \in Label /\ Origin.at \in 1..Total(Origin) /\ End(Origin) <= Declared
      BY <1>2 DEF Origin, Label, Type, Total, End
    <2>3. Valid(Origin)
      BY <2>2 DEF Valid, Origin
    <2>4. Honest(Origin)
      BY DEF Honest, Origin
    <2> QED BY <2>1, <2>3, <2>4
  <1>10. Stream(Bytes, lab)
    <2>1. 1..0 = {} /\ 0..0 = {0}
      OBVIOUS
    <2>2. \A q, j \in 0..0 : q + j <= 0 /\ lab[q].at + j <= Total(lab[q])
                               => lab[q + j] = [lab[q] EXCEPT !.at = @ + j]
      <3>1. [Origin EXCEPT !.at = @ + 0] = Origin
        <4>1. Origin \in Label /\ Origin.at \in Nat
          BY <1>2, <1>9 DEF Valid, Label
        <4>2. At(Origin, Origin.at) = Origin
          BY <4>1 DEF At, Label
        <4>3. Origin.at + 0 = Origin.at
          BY <4>1
        <4> QED BY <4>2, <4>3 DEF At
      <3> QED BY <1>8, <2>1, <3>1
    <2> QED BY <1>8, <1>9, <2>1, <2>2 DEF Stream
  <1>11. Decoder(Origin)
    <2>1. /\ Origin.type = "none" /\ ~Origin.meta /\ Origin.base = 0 /\ Behind(Origin) = 0
      BY DEF Origin, Behind
    <2>2. dec.received = 0 /\ dec.metadata = FALSE /\ dec.terminal = "none" /\ dec.head = <<>>
      BY DEF Init
    <2>3. dec.metadata = (Origin.meta \/ (Origin.type = "meta" /\ Over(Origin)))
      <3>1. Origin.meta = FALSE
        BY DEF Origin
      <3> QED BY <2>1, <2>2, <3>1
    <2> QED BY <1>9, <2>1, <2>2, <2>3 DEF Decoder, Terminal
  <1>12. Writer(Origin)
    BY DEF Writer, Init
  <1>13. Fits(lab)
    <2>1. \A q \in 0..Len(Bytes) : Honest(lab[q])
      BY <1>8, <1>9
    <2> QED BY <1>8, <1>10, <1>11, <1>12, <2>1 DEF Fits
  <1> QED BY <1>4, <1>5, <1>6, <1>8, <1>13 DEF IInv

LEMMA NextIInv ==
  ASSUME IInv, [Next]_vars
  PROVE  IInv'
  <1>1. CASE StartResponse
    BY <1>1, StartResponseKeeps
  <1>2. CASE Metadata \/ MetadataFails \/ Revoked \/ ProducerFailed
    BY <1>2, ControlStepsKeep
  <1>3. CASE Read
    BY <1>3, ReadKeeps
  <1>4. CASE View
    BY <1>4, ViewKeeps
  <1>5. CASE EndOfArtifact
    BY <1>5, EndOfArtifactKeeps
  <1>6. CASE Send
    BY <1>6, SendKeeps
  <1>7. CASE SendFails \/ Disconnect
    BY <1>7, SendFailsKeeps
  <1>8. CASE Written
    BY <1>8, WrittenKeeps
  <1>9. CASE EndBody \/ CloseConsumer \/ Revoke \/ FailProducer \/ DeleteOperation \/ Cut
    BY <1>9, EndingsKeep
  <1>10. CASE Receive
    BY <1>10, ReceiveKeeps
  <1>11. CASE PushHeader
    BY <1>11, PushHeaderKeeps
  <1>12. CASE PushPayload
    BY <1>12, PushPayloadKeeps
  <1>13. CASE EndOfBody
    BY <1>13, EndOfBodyKeeps
  <1>14. CASE ConnectionLost \/ Abort
    BY <1>14, LostKeeps
  <1>15. CASE UNCHANGED vars
    <2>1. States' /\ Producer' /\ Filled' /\ EndsOnce
      <3>1. States'
        BY <1>15 DEF IInv, States
      <3>2. Producer'
        BY <1>15 DEF IInv, Producer
      <3>3. Filled'
        BY <1>15 DEF IInv, Filled
      <3> QED BY <1>15, <3>1, <3>2, <3>3 DEF EndsOnce
    <2>2. \A l \in Label : Writer(l) => Writer(l)'
      BY <1>15 DEF Writer, Begins, Resumes, Honest
    <2>3. UNCHANGED <<length, wire, clientVars>> /\ (link = "cut" => link' = "cut")
      BY <1>15
    <2> QED BY <2>1, <2>2, <2>3, Serving
  <1> QED BY <1>1, <1>2, <1>3, <1>4, <1>5, <1>6, <1>7, <1>8, <1>9, <1>10, <1>11, <1>12,
             <1>13, <1>14, <1>15 DEF Next, Serve, Browse

\* The bytes on their way fit the decoder before them and the writer behind them.
THEOREM Invariance == Spec => []IInv
  <1>1. Init => IInv
    BY InitIInv
  <1>2. IInv /\ [Next]_vars => IInv'
    BY NextIInv
  <1> QED BY <1>1, <1>2, PTL DEF Spec

\* The explorer's buffer holds the artifact's words from the first, each at its own place
\* and none twice, however the producer, the response and the connection cut the bytes.
THEOREM WordsArrive == Spec => []WordsInPlace
  <1>1. IInv => WordsInPlace
    <2> SUFFICES ASSUME IInv PROVE WordsInPlace
      OBVIOUS
    <2>1. TypeOK
      <3>1. /\ received = dec.received /\ dec.received \in 0..Declared /\ Len(tail) < Word
        BY DEF IInv, Filled
      <3>2. /\ length \in Lengths /\ taken \in 0..length /\ sent \in 0..Declared
            /\ Len(carry) < Word
        BY DEF IInv, Producer
      <3> QED BY <3>1, <3>2 DEF IInv, States, TypeOK
    <2>2. \A i \in DOMAIN values :
            values[i] = IF (i + 1) * Word <= dec.received THEN Produced(i) ELSE <<>>
      BY DEF IInv, Filled
    <2> QED BY <2>1, <2>2 DEF WordsInPlace
  <1> QED BY <1>1, Invariance, PTL

\* The browser is told what happened: success only of the whole artifact, an error or a
\* cancellation of the server only if there was one, and never a violation of the protocol.
THEOREM TruthIsTold == Spec => []TruthfulOutcome
  <1>1. IInv => TruthfulOutcome
    <2> SUFFICES ASSUME IInv PROVE TruthfulOutcome
      OBVIOUS
    <2>1. ASSUME outcome = "complete", NEW i \in DOMAIN values PROVE values[i] = Produced(i)
      <3>1. dec.received = Declared /\ received = Declared
        BY <2>1 DEF IInv, States, Filled
      <3>2. values[i] = IF (i + 1) * Word <= received THEN Produced(i) ELSE <<>>
        BY DEF IInv, Filled
      <3>3. PICK q \in Nat : Declared \div Word = q /\ Declared = q * Word /\ q * Word \in Nat
        <4>1. PICK q \in Nat, k \in 0..Word - 1 :
                /\ Declared \div Word = q /\ Declared % Word = k
                /\ Declared = q * Word + k /\ q * Word \in Nat
          BY Division, Sizes
        <4>2. k = 0
          BY <4>1, Sizes
        <4> QED BY <4>1, <4>2
      <3>4. i \in 0..q - 1
        BY <3>3 DEF IInv, Filled
      <3>5. (i + 1) * Word = i * Word + Word /\ i * Word + Word <= q * Word
        <4>1. i \in Nat /\ i < q
          BY <3>3, <3>4
        <4> QED BY <3>3, <4>1, Sum, Later
      <3> QED BY <3>1, <3>2, <3>3, <3>5
    <2>2. outcome = "complete" => terminal = "complete" /\ length = Declared /\ dec.received = Declared
      BY DEF IInv, States
    <2>3. /\ outcome = "backend" => terminal = "error" \/ length # Declared \/ ~dec.metadata
          /\ outcome = "cancelled" => aborted \/ terminal = "cancelled"
          /\ outcome # "protocol"
      BY DEF IInv, States
    <2> QED BY <2>1, <2>2, <2>3 DEF TruthfulOutcome
  <1> QED BY <1>1, Invariance, PTL

=============================================================================
