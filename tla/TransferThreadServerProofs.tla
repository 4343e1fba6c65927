--------------------- MODULE TransferThreadServerProofs ---------------------
(***************************************************************************)
(* Proofs about TransferThreadServer for every BUFFERSIZE and every set of *)
(* requests.                                                               *)
(***************************************************************************)
EXTENDS TransferThreadServer, SequenceTheorems, TLAPS

(* Appending to a segment the bytes that follow it gives a longer segment. *)
LEMMA SegmentExtends ==
  ASSUME NEW s \in Nat, NEW m \in Nat, NEW n \in Nat,
         NEW buf, \A k \in 1..n : buf[k] = s + m + k - 1
  PROVE  Segment(s, m) \o Prefix(buf, n) = Segment(s, m + n)
<1>1. /\ Segment(s, m) \in Seq(Nat) /\ Len(Segment(s, m)) = m
      /\ \A k \in 1..m : Segment(s, m)[k] = s + k - 1
  BY DEF Segment
<1>2. /\ Prefix(buf, n) \in Seq(Nat) /\ Len(Prefix(buf, n)) = n
      /\ \A k \in 1..n : Prefix(buf, n)[k] = s + m + k - 1
  BY DEF Prefix
<1>3. /\ Segment(s, m + n) \in Seq(Nat) /\ Len(Segment(s, m + n)) = m + n
      /\ \A k \in 1..(m + n) : Segment(s, m + n)[k] = s + k - 1
  BY DEF Segment
<1>4. /\ Segment(s, m) \o Prefix(buf, n) \in Seq(Nat)
      /\ Len(Segment(s, m) \o Prefix(buf, n)) = m + n
  <2>1. ASSUME NEW u \in Seq(Nat), NEW v \in Seq(Nat), Len(u) = m, Len(v) = n
        PROVE  u \o v \in Seq(Nat) /\ Len(u \o v) = m + n
    BY <2>1, ConcatProperties
  <2>. QED  BY <2>1, <1>1, <1>2
<1>5. ASSUME NEW k \in 1..(m + n)
      PROVE  (Segment(s, m) \o Prefix(buf, n))[k] = Segment(s, m + n)[k]
  <2>1. (Segment(s, m) \o Prefix(buf, n))[k]
          = IF k <= m THEN Segment(s, m)[k] ELSE Prefix(buf, n)[k - m]
    BY <1>1, <1>2
  <2>. QED  BY <2>1, <1>1, <1>2, <1>3
<1>. QED  BY <1>3, <1>4, <1>5, SeqEqual

-----------------------------------------------------------------------------
(* The state of the thread has the shape its operations expect. *)
THEOREM TypeCorrect == Spec => []TypeOK
<1>1. Init => TypeOK
  BY BufferSizeAssumption DEF Init, TypeOK, Blank
<1>2. TypeOK /\ [Next]_vars => TypeOK'
  <2>. SUFFICES ASSUME TypeOK, [Next]_vars PROVE TypeOK'
    OBVIOUS
  <2>. USE BufferSizeAssumption, RequestsAssumption DEF TypeOK, Missing, Blank
  <2>a. /\ request.startPos \in Nat /\ request.transferLength \in Nat
        /\ request.size \in Nat \cup {Missing}
    OBVIOUS
  <2>b. /\ ReadResult(pos) \in -1..BUFFERSIZE
        /\ BufferAfterRead(pos) \in [1..BUFFERSIZE -> Nat \cup {Blank}]
    BY <2>a DEF ReadResult, BufferAfterRead
  <2>c. ASSUME NEW buf \in [1..BUFFERSIZE -> Nat \cup {Blank}],
               NEW n \in Int, n <= BUFFERSIZE
        PROVE  sent \o Prefix(buf, n) \in Seq(Nat \cup {Blank})
    <3>1. CASE n \in Nat
      <4>1. Prefix(buf, n) \in Seq(Nat \cup {Blank})
        BY <2>c, <3>1 DEF Prefix
      <4>. QED  BY <4>1
    <3>2. CASE n < 0
      <4>1. 1..n = 1..0
        BY <3>2
      <4>2. [k \in 1..0 |-> buf[k]] \in Seq(Nat \cup {Blank})
        OBVIOUS
      <4>3. Prefix(buf, n) \in Seq(Nat \cup {Blank})
        BY <4>1, <4>2 DEF Prefix
      <4>. QED  BY <4>3
    <3>. QED  BY <3>1, <3>2
  <2>1. CASE Open
    BY <2>1, <2>a DEF Open
  <2>2. CASE FirstRead
    <3>. DEFINE r == ReadResult(pos)
                n == IF r < request.transferLength THEN r ELSE request.transferLength
    <3>1. /\ buffer' \in [1..BUFFERSIZE -> Nat \cup {Blank}]
          /\ pos' \in Nat /\ len' \in -1..BUFFERSIZE /\ totalLen' \in Int
          /\ request' = request
          /\ pc' \in {"loop", "aborted"}
      BY <2>2, <2>a, <2>b DEF FirstRead
    <3>2. n \in Int /\ n <= BUFFERSIZE
      BY <2>a, <2>b
    <3>3. sent' = sent \/ sent' = sent \o Prefix(buffer', n)
      BY <2>2 DEF FirstRead
    <3>. HIDE DEF n
    <3>4. sent \o Prefix(buffer', n) \in Seq(Nat \cup {Blank})
      BY <3>1, <3>2, <2>c
    <3>. QED  BY <3>1, <3>3, <3>4
  <2>3. CASE CopyChunk
    <3>1. sent' \in Seq(Nat \cup {Blank})
      BY <2>3, <2>c DEF CopyChunk
    <3>. QED  BY <2>3, <2>a, <2>b, <3>1 DEF CopyChunk, Copying
  <2>4. CASE SendRest
    <3>. DEFINE counted == IF totalLen > request.transferLength THEN totalLen - len ELSE totalLen
                rest    == request.transferLength - counted
    <3>1. counted \in Int /\ rest \in Int
      BY <2>a
    <3>2. sent' = sent \/ (rest <= BUFFERSIZE /\ sent' = sent \o Prefix(buffer, rest))
      BY <2>4 DEF SendRest
    <3>3. sent' \in Seq(Nat \cup {Blank})
      BY <3>1, <3>2, <2>c
    <3>4. totalLen' \in Int
      BY <2>4, <3>1 DEF SendRest
    <3>. QED  BY <2>4, <3>3, <3>4 DEF SendRest
  <2>5. CASE ClientGone
    BY <2>5 DEF ClientGone
  <2>6. CASE Done \/ UNCHANGED vars
    BY <2>6 DEF Done, vars
  <2>. QED  BY <2>1, <2>2, <2>3, <2>4, <2>5, <2>6 DEF Next
<1>. QED  BY <1>1, <1>2, PTL DEF Spec

-----------------------------------------------------------------------------
(* LoopInvariant is inductive, so it holds of every run on every request,  *)
(* and what it says of an ended thread is SegmentDelivered.                *)
LEMMA LoopStep ==
  ASSUME TypeOK, LoopInvariant, [Next]_vars
  PROVE  LoopInvariant'
<1>. DEFINE start  == request.startPos
            length == request.transferLength
            size   == request.size
            long   == length >= BUFFERSIZE
            r      == ReadResult(pos)
<1>. SUFFICES ASSUME Covered(request)' PROVE LoopInvariant'
  BY DEF LoopInvariant
<1>a. request' = request
  BY DEF Next, Open, FirstRead, CopyChunk, SendRest, ClientGone, Done, vars
<1>b. Covered(request)
  BY <1>a DEF Covered
<1>c. /\ start \in Nat /\ length \in Nat /\ size \in Nat
      /\ start + length <= size
  BY <1>b, RequestsAssumption DEF TypeOK, Covered, Missing
<1>d. BUFFERSIZE \in Nat /\ BUFFERSIZE > 0
  BY BufferSizeAssumption
<1>e. Segment(start, 0) = <<>>
  BY <1>c DEF Segment
<1>f. ASSUME NEW m \in Nat, NEW n \in Nat,
             \A k \in 1..n : buffer[k] = start + m + k - 1
      PROVE  Segment(start, m) \o Prefix(buffer, n) = Segment(start, m + n)
  <2>1. start \in Nat
    BY <1>c
  <2>. HIDE DEF start
  <2>. QED  BY <2>1, <1>f, SegmentExtends, ZenonT(40)
<1>g. ASSUME NEW m \in Nat, NEW n \in Nat,
             \A k \in 1..n : buffer'[k] = start + m + k - 1
      PROVE  Segment(start, m) \o Prefix(buffer', n) = Segment(start, m + n)
  <2>1. start \in Nat
    BY <1>c
  <2>. HIDE DEF start
  <2>. QED  BY <2>1, <1>g, SegmentExtends, ZenonT(40)
<1>1. CASE Open
  BY <1>1, <1>a, <1>b, <1>c DEF Open, LoopInvariant, TypeOK, Missing
<1>2. CASE FirstRead
  <2>1. pos = start /\ sent = <<>> /\ pc = "first"
    BY <1>2, <1>b DEF FirstRead, LoopInvariant
  <2>2. /\ r \in -1..BUFFERSIZE
        /\ r = -1 => length = 0
        /\ r # -1 => r >= 1 /\ start + r <= size
        /\ ~long /\ r # -1 => r >= length
    BY <2>1, <1>c, <1>d DEF ReadResult
  <2>3. \A k \in 1..r : buffer'[k] = start + k - 1
    BY <1>2, <2>1, <2>2, <1>c, <1>d DEF FirstRead, BufferAfterRead
  <2>4. CASE long
    <3>1. /\ len' = r /\ totalLen' = r /\ pc' = "loop" /\ sent' = <<>>
          /\ r # -1 /\ pos' = start + r
      BY <1>2, <2>1, <2>2, <2>4, <1>c, <1>d DEF FirstRead
    <3>2. Segment(start, r - r) = <<>>
      BY <1>e, <2>2
    <3>. HIDE DEF r
    <3>. QED  BY <3>1, <3>2, <2>2, <2>3, <2>4, <1>a, <1>c, <1>d DEF LoopInvariant
  <2>5. CASE ~long /\ r # -1
    <3>. DEFINE n == IF r < length THEN r ELSE length
    <3>0. n = length
      BY <2>2, <2>5, <1>c, <1>d
    <3>. HIDE DEF n
    <3>1. /\ len' = -1 /\ totalLen' = length - 1 /\ pc' = "loop"
          /\ sent' = sent \o Prefix(buffer', length)
      <4>0. length < BUFFERSIZE
        BY <2>5, <1>c, <1>d
      <4>1. \/ /\ len' = -1 /\ totalLen' = length + len' /\ pc' = "loop"
               /\ sent' = sent \o Prefix(buffer', n)
            \/ n < 0
        BY <1>2, <4>0, Zenon DEF FirstRead, n
      <4>. QED  BY <4>1, <3>0, <1>c
    <3>2. \A k \in 1..length : buffer'[k] = start + 0 + k - 1
      BY <2>2, <2>3, <2>5, <1>c, <1>d
    <3>3. Segment(start, 0) \o Prefix(buffer', length) = Segment(start, 0 + length)
      BY <3>2, <1>c, <1>g
    <3>4. 0 + length = length /\ sent = Segment(start, 0)
      BY <2>1, <1>c, <1>e
    <3>5. sent' = Segment(start, length)
      BY <3>1, <3>3, <3>4
    <3>. QED  BY <3>1, <3>5, <2>5, <1>a DEF LoopInvariant
  <2>6. CASE ~long /\ r = -1
    BY <1>2, <2>2, <2>6, <1>a, <1>c, <1>d DEF FirstRead, LoopInvariant
  <2>. QED  BY <2>4, <2>5, <2>6
<1>3. CASE CopyChunk
  <2>1. /\ long /\ pc = "loop" /\ len \in 1..BUFFERSIZE
        /\ totalLen - len \in 0..length /\ totalLen \in Int /\ totalLen <= length
        /\ pos = start + totalLen /\ pos <= size
        /\ \A k \in 1..len : buffer[k] = pos - len + k - 1
        /\ sent = Segment(start, totalLen - len)
    BY <1>3, <1>b, <1>c, <1>d DEF CopyChunk, Copying, LoopInvariant, TypeOK
  <2>2. /\ r \in -1..BUFFERSIZE
        /\ r = -1 => pos = size
        /\ r # -1 => r >= 1 /\ pos + r <= size
    BY <2>1, <1>c, <1>d DEF ReadResult
  <2>3. sent' = Segment(start, totalLen)
    <3>1. totalLen - len \in Nat /\ len \in Nat
      BY <2>1, <1>c, <1>d
    <3>2. \A k \in 1..len : buffer[k] = start + (totalLen - len) + k - 1
      BY <2>1, <1>c
    <3>3. Segment(start, totalLen - len) \o Prefix(buffer, len)
            = Segment(start, (totalLen - len) + len)
      BY <3>1, <3>2, <1>c, <1>f
    <3>4. (totalLen - len) + len = totalLen
      BY <2>1
    <3>. QED  BY <1>3, <2>1, <3>3, <3>4 DEF CopyChunk
  <2>4. CASE r = -1
    <3>1. totalLen = length
      BY <2>1, <2>2, <2>4, <1>c
    <3>2. pc' = "rest" /\ totalLen' = totalLen
      BY <1>3, <2>4 DEF CopyChunk
    <3>. QED  BY <3>1, <3>2, <2>1, <2>3, <1>a DEF LoopInvariant
  <2>5. CASE r # -1
    <3>1. /\ len' = r /\ totalLen' = totalLen + r /\ pos' = pos + r /\ pc' = "loop"
      BY <1>3, <2>1, <2>2, <2>5 DEF CopyChunk
    <3>2. \A k \in 1..r : buffer'[k] = pos + k - 1
      BY <1>3, <2>1, <2>2, <2>5, <1>c, <1>d DEF CopyChunk, BufferAfterRead
    <3>. HIDE DEF r
    <3>3. /\ totalLen' - len' = totalLen
          /\ pos' - len' = pos
      BY <3>1, <2>1, <2>2, <1>c
    <3>4. sent' = Segment(start, totalLen' - len')
      BY <3>3, <2>3
    <3>. QED  BY <3>1, <3>2, <3>3, <3>4, <2>1, <2>2, <2>5, <1>a, <1>c, <1>d DEF LoopInvariant
  <2>. QED  BY <2>4, <2>5
<1>4. CASE SendRest
  <2>. DEFINE counted == IF totalLen > length THEN totalLen - len ELSE totalLen
              rest    == length - counted
  <2>0. /\ request' = request /\ buffer' = buffer
        /\ pc = "rest" \/ (pc = "loop" /\ ~Copying)
        /\ rest <= BUFFERSIZE => sent' = sent \o Prefix(buffer, rest) /\ pc' = "closed"
        /\ ~(rest <= BUFFERSIZE) => pc' = "aborted"
    BY <1>4 DEF SendRest
  <2>1. CASE pc = "loop" /\ ~long
    <3>1. /\ rest = 1 /\ sent = Segment(start, length)
      BY <2>1, <1>b, <1>c DEF LoopInvariant
    <3>2. /\ sent' = Segment(start, length) \o Prefix(buffer', 1) /\ pc' = "closed"
      <4>. HIDE DEF rest
      <4>1. rest <= BUFFERSIZE
        BY <3>1, <1>d
      <4>. QED  BY <3>1, <4>1, <2>0, Zenon
    <3>. QED  BY <3>2, <2>1, <1>a DEF LoopInvariant
  <2>2. CASE pc = "rest"
    <3>1. /\ long /\ totalLen = length /\ sent = Segment(start, length)
      BY <2>2, <1>b DEF LoopInvariant
    <3>2. rest = 0
      BY <3>1, <1>c
    <3>3. Segment(start, length) \o Prefix(buffer, 0) = Segment(start, length + 0)
      BY <1>c, <1>f
    <3>. HIDE DEF rest
    <3>4. /\ sent' = sent \o Prefix(buffer, 0) /\ pc' = "closed"
          /\ length + 0 = length
      BY <2>0, <3>2, <1>c, <1>d
    <3>5. sent' = Segment(start, length) /\ pc' = "closed"
      BY <3>1, <3>3, <3>4
    <3>. QED  BY <3>1, <3>5, <1>a DEF LoopInvariant
  <2>3. CASE pc = "loop" /\ long
    <3>1. /\ len \in 1..BUFFERSIZE /\ totalLen \in Int
          /\ totalLen - len \in 0..length /\ pos = start + totalLen
          /\ \A k \in 1..len : buffer[k] = pos - len + k - 1
          /\ sent = Segment(start, totalLen - len)
      BY <2>3, <1>b DEF LoopInvariant, TypeOK
    <3>2. totalLen > length
      BY <2>0, <2>3, <3>1, <1>c, <1>d DEF Copying
    <3>3. /\ counted = totalLen - len /\ counted \in Nat
          /\ rest \in Nat /\ rest < len /\ rest <= BUFFERSIZE
          /\ counted + rest = length
      BY <3>1, <3>2, <1>c, <1>d
    <3>4. \A k \in 1..rest : buffer[k] = start + counted + k - 1
      BY <3>1, <3>3, <1>c, <1>d
    <3>5. sent = Segment(start, counted)
      BY <3>1, <3>3
    <3>6. sent' = sent \o Prefix(buffer, rest) /\ pc' = "closed"
      BY <2>0, <3>3
    <3>. HIDE DEF counted, rest
    <3>7. Segment(start, counted) \o Prefix(buffer, rest) = Segment(start, counted + rest)
      BY <3>3, <3>4, <1>c, <1>f
    <3>8. sent' = Segment(start, length)
      BY <3>3, <3>5, <3>6, <3>7
    <3>. QED  BY <3>6, <3>8, <2>3, <1>a DEF LoopInvariant
  <2>. QED  BY <2>0, <2>1, <2>2, <2>3
<1>5. CASE ClientGone
  BY <1>5, <1>a, <1>b DEF ClientGone, LoopInvariant
<1>6. CASE Done \/ UNCHANGED vars
  BY <1>6, <1>a, <1>b DEF Done, vars, LoopInvariant
<1>. QED  BY <1>1, <1>2, <1>3, <1>4, <1>5, <1>6 DEF Next

THEOREM LoopCorrect == Spec => []LoopInvariant
<1>1. Init => LoopInvariant
  BY DEF Init, LoopInvariant
<1>2. TypeOK /\ LoopInvariant /\ [Next]_vars => LoopInvariant'
  BY LoopStep
<1>. QED  BY <1>1, <1>2, TypeCorrect, PTL DEF Spec

(* What LoopInvariant and the types say of the bytes of an ended thread. *)
LEMMA EndedThread ==
  ASSUME TypeOK, LoopInvariant, pc = "closed", Covered(request)
  PROVE  /\ SegmentDelivered
         /\ request.transferLength >= BUFFERSIZE =>
              sent = Segment(request.startPos, request.transferLength)
<1>. DEFINE start  == request.startPos
            length == request.transferLength
<1>1. /\ start \in Nat /\ length \in Nat
      /\ BUFFERSIZE \in Nat
  BY RequestsAssumption, BufferSizeAssumption DEF TypeOK
<1>2. /\ Segment(start, length) \in Seq(Nat)
      /\ Len(Segment(start, length)) = length
      /\ \A k \in 1..length : Segment(start, length)[k] = start + k - 1
  BY <1>1 DEF Segment
<1>3. CASE length >= BUFFERSIZE
  BY <1>1, <1>2, <1>3 DEF LoopInvariant, SegmentDelivered
<1>4. CASE length < BUFFERSIZE
  <2>1. sent = Segment(start, length) \o Prefix(buffer, 1)
    BY <1>1, <1>4 DEF LoopInvariant
  <2>2. Prefix(buffer, 1) \in Seq(Nat \cup {Blank}) /\ Len(Prefix(buffer, 1)) = 1
    BY <1>1, <1>4 DEF TypeOK, Prefix
  <2>3. ASSUME NEW u \in Seq(Nat), NEW v \in Seq(Nat \cup {Blank})
        PROVE  /\ Len(u \o v) = Len(u) + Len(v)
               /\ \A k \in 1..Len(u) : (u \o v)[k] = u[k]
    OBVIOUS
  <2>. QED  BY <1>1, <1>2, <1>4, <2>1, <2>2, <2>3 DEF SegmentDelivered
<1>. QED  BY <1>1, <1>3, <1>4

(* A client whose request the file still covers gets the whole segment, in *)
(* order, from a thread that ends normally: for every BUFFERSIZE, position *)
(* and length.                                                             *)
THEOREM DeliveryCorrect == Spec => []SegmentDelivered
<1>1. TypeOK /\ LoopInvariant => SegmentDelivered
  BY EndedThread DEF SegmentDelivered
<1>. QED  BY <1>1, TypeCorrect, LoopCorrect, PTL

-----------------------------------------------------------------------------
(* Every request asks for at least a buffer, of a file that holds it. *)
LongOnly == \A r \in Requests : Covered(r) /\ r.transferLength >= BUFFERSIZE

(* No byte is missing or in excess after such a request. *)
THEOREM LongSegmentsExact ==
  ASSUME LongOnly
  PROVE  Spec => []ExactLength
<1>1. TypeOK /\ LoopInvariant => ExactLength
  <2>. SUFFICES ASSUME TypeOK, LoopInvariant, pc = "closed"
                PROVE  Len(sent) = request.transferLength
    BY DEF ExactLength
  <2>1. sent = Segment(request.startPos, request.transferLength)
    BY EndedThread, LongOnly DEF TypeOK, LongOnly
  <2>2. request.startPos \in Nat /\ request.transferLength \in Nat
    BY RequestsAssumption DEF TypeOK
  <2>. QED  BY <2>1, <2>2 DEF Segment
<1>. QED  BY <1>1, TypeCorrect, LoopCorrect, PTL

(* Every step of the thread is a step of the promise, or none. *)
LEMMA StreamStep ==
  ASSUME LongOnly, TypeOK, LoopInvariant, TypeOK', LoopInvariant', [Next]_vars
  PROVE  [Stream!Next]_(Stream!vars)
<1>. DEFINE start  == request.startPos
            length == request.transferLength
<1>0. /\ start \in Nat /\ length \in Nat /\ BUFFERSIZE \in Nat
      /\ length >= BUFFERSIZE /\ Covered(request) /\ request.size # Missing
  BY RequestsAssumption, BufferSizeAssumption DEF LongOnly, TypeOK, Covered, Missing
<1>a. request' = request
  BY DEF Next, Open, FirstRead, CopyChunk, SendRest, ClientGone, Done, vars
<1>b. ASSUME NEW n \in Nat PROVE Len(Segment(start, n)) = n
  BY DEF Segment
<1>1. CASE Open
  <2>1. Outcome' = Outcome /\ sent' = sent
    BY <1>1, <1>0 DEF Open, Outcome
  <2>. QED  BY <2>1, <1>a DEF Stream!vars
<1>2. CASE FirstRead
  <2>2. sent' = sent /\ pc = "first" /\ pc' = "loop"
    BY <1>2, <1>0 DEF FirstRead
  <2>3. Outcome' = Outcome
    BY <2>2 DEF Outcome
  <2>. QED  BY <2>2, <2>3, <1>a DEF Stream!vars
<1>3. CASE CopyChunk
  <2>1. pc = "loop" /\ pc' \in {"loop", "rest"}
    BY <1>3 DEF CopyChunk
  <2>2. Outcome = "sending" /\ Outcome' = "sending"
    BY <2>1 DEF Outcome
  <2>3. PICK m \in 0..length : sent = Segment(start, m)
    BY <2>1, <1>0 DEF LoopInvariant
  <2>4. PICK n \in 0..length : sent' = Segment(start, n)
    <3>1. CASE pc' = "loop"
      <4>1. /\ totalLen' - len' \in 0..length
            /\ sent' = Segment(start, totalLen' - len')
        BY <3>1, <1>0, <1>a DEF LoopInvariant
      <4>. QED  BY <4>1
    <3>2. CASE pc' = "rest"
      BY <3>2, <1>0, <1>a DEF LoopInvariant
    <3>. QED  BY <2>1, <3>1, <3>2
  <2>5. m <= n
    <3>1. sent \in Seq(Nat \cup {Blank}) /\ Prefix(buffer, len) \in Seq(Nat \cup {Blank})
      BY <2>1, <1>0 DEF TypeOK, LoopInvariant, Prefix
    <3>2. Len(sent') >= Len(sent)
      <4>1. ASSUME NEW u \in Seq(Nat \cup {Blank}), NEW v \in Seq(Nat \cup {Blank})
            PROVE  Len(u \o v) >= Len(u)
        OBVIOUS
      <4>. QED  BY <1>3, <3>1, <4>1 DEF CopyChunk
    <3>. QED  BY <3>2, <2>3, <2>4, <1>b
  <2>6. Stream!Segment(start, n) = Segment(start, n)
    BY DEF Stream!Segment, Segment
  <2>7. Len(sent) = m
    BY <2>3, <1>b
  <2>8. Stream!Send
    BY <2>2, <2>4, <2>5, <2>6, <2>7, <1>a, <1>0 DEF Stream!Send
  <2>. QED  BY <2>8 DEF Stream!Next
<1>4. CASE SendRest
  <2>1. pc \in {"loop", "rest"} /\ pc' \in {"closed", "aborted"}
    BY <1>4 DEF SendRest
  <2>2. Outcome = "sending"
    BY <2>1 DEF Outcome
  <2>3. CASE pc' = "closed"
    <3>1. sent' = Segment(start, length) /\ Outcome' = "complete"
      BY <2>3, <1>0, <1>a DEF LoopInvariant, Outcome
    <3>2. Stream!Segment(start, length) = Segment(start, length)
      BY DEF Stream!Segment, Segment
    <3>3. Stream!Complete
      BY <2>2, <3>1, <3>2, <1>a DEF Stream!Complete
    <3>. QED  BY <3>3 DEF Stream!Next
  <2>4. CASE pc' = "aborted"
    <3>1. sent' = sent /\ Outcome' = "aborted"
      BY <1>4, <2>4 DEF SendRest, Outcome
    <3>2. Stream!Abort
      BY <2>2, <3>1, <1>a DEF Stream!Abort
    <3>. QED  BY <3>2 DEF Stream!Next
  <2>. QED  BY <2>1, <2>3, <2>4
<1>5. CASE ClientGone
  <2>1. Outcome = "sending" /\ Outcome' = "aborted" /\ sent' = sent
    BY <1>5 DEF ClientGone, Outcome
  <2>2. Stream!Abort
    BY <2>1, <1>a DEF Stream!Abort
  <2>. QED  BY <2>2 DEF Stream!Next
<1>6. CASE Done \/ UNCHANGED vars
  BY <1>6 DEF Done, vars, Stream!vars, Outcome
<1>. QED  BY <1>1, <1>2, <1>3, <1>4, <1>5, <1>6 DEF Next

(* The detailed thread implements SegmentStream for such requests. *)
THEOREM LongSegmentsImplementStream ==
  ASSUME LongOnly
  PROVE  Spec => ImplementsStream
<1>1. Init => Stream!Init
  BY RequestsAssumption DEF Init, Stream!Init, Outcome
<1>2. /\ TypeOK /\ LoopInvariant /\ TypeOK' /\ LoopInvariant'
      /\ [Next]_vars
      => [Stream!Next]_(Stream!vars)
  BY StreamStep, LongOnly
<1>. QED  BY <1>1, <1>2, TypeCorrect, LoopCorrect, PTL DEF Spec, Stream!Spec, ImplementsStream
=============================================================================
