----------------------------- MODULE JobLogProofs -----------------------------
(* Proofs about JobLogs: the log of a job on its way from the runner over  *)
(* the service to the reader, for every size of the spool and of a chunk,  *)
(* and every loss, repetition and delay of a request.                      *)
EXTENDS MCComponents, FiniteSetTheorems, SequenceTheorems, WellFoundedInduction, TLAPS

-----------------------------------------------------------------------------
LogChunk == [sequence : Nat, data : Seq(Nat), complete : BOOLEAN]

Upload == [chunk : LogChunk, attempt : Nat]

LogsType ==
    /\ output \in Nat
    /\ spool \in [ring : [0..SpoolBytes - 1 -> Nat], written : Nat, acknowledged : Nat]
    /\ spool.acknowledged <= spool.written /\ Logs!Pending <= SpoolBytes
    /\ writer \in [at : {"run", "blocked", "close", "exited"}, left : Nat, stopped : BOOLEAN]
    /\ uploader \in [at : {"select", "send", "answer", "done"}, chunk : LogChunk, last : BOOLEAN, sequence : Nat,
                     attempt : Nat, answer : {"none", "ok", "failed", "refused"}, err : BOOLEAN, discard : BOOLEAN,
                     cancelled : BOOLEAN]
    /\ net \subseteq Upload
    /\ retention \in [over : BOOLEAN, ever : BOOLEAN]
    /\ follower \in [at : {"read", "check", "again", "partial", "incomplete", "whole"}, follow : BOOLEAN,
                     sequence : Nat, text : Seq(Nat)]

(* Who waits for whom at the end of a job.                                 *)
EndsFit ==
    /\ writer.at # "blocked" => writer.left = 0
    /\ writer.at = "exited" => uploader.at = "done"
    /\ outcome = "ended" => writer.at = "exited"
    /\ follower.at = "again" => writer.at = "exited"

(* The chunks as the uploader has cut them from the output: cut[s] is the  *)
(* chunk with sequence s and begins after the byte start[s]; taken of them *)
(* exist.                                                                  *)
ChunkFits(cut, start, s) ==
    /\ cut[s].sequence = s /\ start[s + 1] = start[s] + Len(cut[s].data) /\ start[s + 1] <= output
    /\ cut[s].data = [i \in 1..Len(cut[s].data) |-> start[s] + i]

LastFits(cut, start, taken, s) ==
    cut[s].complete => start[s + 1] = output /\ Logs!Closing /\ taken = s + 1 /\ uploader.at # "select"

CutFits(cut, start, taken) ==
    /\ start[0] = 0
    /\ \A s \in 0..taken - 1 : ChunkFits(cut, start, s) /\ LastFits(cut, start, taken, s)

TakenFits(taken) ==
    /\ taken \in {uploader.sequence, uploader.sequence + 1}
    /\ uploader.at = "select" => taken = uploader.sequence
    /\ uploader.at \in {"send", "answer"} => taken = uploader.sequence + 1

(* The ring holds what follows the chunks that were acknowledged.          *)
SpoolFits(start) ==
    /\ \A p \in 0..Logs!Pending - 1 : spool.ring[(spool.acknowledged + p) % SpoolBytes] = start[uploader.sequence] + p + 1
    /\ start[uploader.sequence] + Logs!Pending <= output
    /\ ~Logs!GivesUp => start[uploader.sequence] + Logs!Pending + writer.left = output

UploaderFits(cut) ==
    /\ uploader.at \in {"send", "answer"} =>
          /\ uploader.chunk = cut[uploader.sequence] /\ Len(uploader.chunk.data) <= Logs!Pending
          /\ uploader.last /\ ~uploader.discard => uploader.chunk.complete
          /\ uploader.chunk.complete => uploader.last
    /\ uploader.at = "done" /\ ~Logs!GivesUp => uploader.sequence > 0 /\ cut[uploader.sequence - 1].complete

(* What is on its way, stored and read are these chunks.                   *)
NetFits(cut, taken) ==
    \A m \in net :
        /\ m.chunk.sequence < taken /\ m.chunk = cut[m.chunk.sequence]
        /\ m.attempt <= uploader.attempt
        /\ m.attempt = uploader.attempt => uploader.at # "select" /\ m.chunk.sequence = uploader.sequence

StoreFits(cut, taken) ==
    \E n \in 0..taken, k \in 0..taken :
        /\ DOMAIN chunks = 0..n - 1 /\ \A s \in 0..n - 1 : chunks[s] = cut[s]
        /\ latest # Logs!NoRecord => latest.next = n
        /\ synced = 0..k - 1 /\ k <= n
        /\ retention.over => retention.ever
        /\ ~retention.ever => uploader.sequence <= k
        /\ ~retention.ever /\ uploader.at = "answer" /\ uploader.answer = "ok" => uploader.sequence < k

FollowerFits(cut, taken) ==
    /\ follower.sequence <= taken
    /\ follower.at # "whole" => \A s \in 0..follower.sequence - 1 : ~cut[s].complete
    /\ Logs!IncompleteIsTrue

LogFits(cut, start, taken) ==
    /\ CutFits(cut, start, taken) /\ TakenFits(taken) /\ SpoolFits(start) /\ UploaderFits(cut)
    /\ NetFits(cut, taken) /\ StoreFits(cut, taken) /\ FollowerFits(cut, taken)

LogsInv ==
    /\ LogsType /\ EndsFit
    /\ \E cut \in [Nat -> LogChunk], start \in [Nat -> Nat], taken \in Nat : LogFits(cut, start, taken)

-----------------------------------------------------------------------------
LEMMA Division ==
    ASSUME NEW N \in Nat \ {0}, NEW a \in Nat
    PROVE  a = N * (a \div N) + (a % N) /\ a \div N \in Int /\ a % N \in 0..N - 1
<1>1. a = N * (a \div N) + (a % N)
  OBVIOUS
<1>2. a \div N \in Int
  OBVIOUS
<1>3. a % N \in 0..N - 1
  OBVIOUS
<1> QED BY <1>1, <1>2, <1>3

(* Places of the ring that are less than a round apart are different.      *)
LEMMA RingPlaces ==
    ASSUME NEW N \in Nat \ {0}, NEW a \in Nat, NEW b \in Nat, a < b, b < a + N
    PROVE  a % N # b % N
<1>1. PICK q \in Int, x \in Nat : q = a \div N /\ x = a % N /\ a = N * q + x
  BY Division
<1>2. PICK r \in Int, y \in Nat : r = b \div N /\ y = b % N /\ b = N * r + y
  BY Division
<1> SUFFICES ASSUME x = y
             PROVE  FALSE
  BY <1>1, <1>2
<1>3. b - a = N * (r - q)
  <2>1. PICK u \in Int, v \in Int : u = N * q /\ v = N * r
    OBVIOUS
  <2>2. N * (r - q) = v - u
    BY <2>1
  <2>3. a = u + x /\ b = v + y
    BY <1>1, <1>2, <2>1
  <2> QED BY <2>2, <2>3
<1>4. PICK d \in Int : d = r - q
  OBVIOUS
<1>5. N * d > 0 /\ N * d < N
  BY <1>3, <1>4
<1>6. d <= 0 \/ d >= 1
  OBVIOUS
<1>7. CASE d <= 0
  BY <1>5, <1>7
<1>8. CASE d >= 1
  BY <1>5, <1>8
<1> QED BY <1>6, <1>7, <1>8

LEMMA LesserOf ==
    ASSUME NEW a \in Nat, NEW b \in Nat
    PROVE  Logs!Min({a, b}) \in {a, b} /\ Logs!Min({a, b}) <= a /\ Logs!Min({a, b}) <= b /\ Logs!Min({a, b}) \in Nat
<1>1. \E x \in {a, b} : \A y \in {a, b} : x <= y
  OBVIOUS
<1> QED BY <1>1 DEF Logs!Min

LEMMA GreatestOf ==
    ASSUME NEW n \in Nat
    PROVE  Logs!Max(0..n) = n
<1>1. n \in 0..n /\ \A y \in 0..n : n >= y
  OBVIOUS
<1>2. \A x \in 0..n : (\A y \in 0..n : x >= y) => x = n
  OBVIOUS
<1> QED BY <1>1, <1>2 DEF Logs!Max

LEMMA PendingFacts ==
    ASSUME LogsType
    PROVE  /\ spool.acknowledged \in Nat /\ spool.written \in Nat /\ Logs!Pending \in Nat /\ Logs!Pending <= SpoolBytes
           /\ spool.written = spool.acknowledged + Logs!Pending
<1>1. PICK w \in Nat, a \in Nat, e \in Int : w = spool.written /\ a = spool.acknowledged /\ e = w - a
  BY DEF LogsType
<1>2. a <= w /\ e = Logs!Pending /\ Logs!Pending <= SpoolBytes
  BY <1>1 DEF LogsType, Logs!Pending
<1>3. e \in Nat /\ w = a + e
  BY <1>1, <1>2
<1> QED BY <1>1, <1>2, <1>3

(* The ring of the spool: k bytes more.                                    *)
LEMMA SpooledFacts ==
    ASSUME LogsType, NEW first \in Nat, NEW k \in 0..SpoolBytes - Logs!Pending, spool' = Logs!Spooled(first, k)
    PROVE  /\ spool' \in [ring : [0..SpoolBytes - 1 -> Nat], written : Nat, acknowledged : Nat]
           /\ spool'.written = spool.written + k /\ spool'.acknowledged = spool.acknowledged
           /\ Logs!Pending' = Logs!Pending + k
           /\ \A p \in 0..Logs!Pending - 1 :
                  spool'.ring[(spool.acknowledged + p) % SpoolBytes] = spool.ring[(spool.acknowledged + p) % SpoolBytes]
           /\ \A j \in 0..k - 1 : spool'.ring[(spool.written + j) % SpoolBytes] = first + j
<1> USE SpoolAssumption
<1>0. /\ spool = [ring |-> spool.ring, written |-> spool.written, acknowledged |-> spool.acknowledged]
      /\ spool.written \in Nat /\ spool.acknowledged \in Nat /\ spool.ring \in [0..SpoolBytes - 1 -> Nat]
      /\ spool.written - spool.acknowledged \in Nat
  BY DEF LogsType
<1>1. PICK w \in Nat, a \in Nat, old \in [0..SpoolBytes - 1 -> Nat], e \in Nat :
          spool = [ring |-> old, written |-> w, acknowledged |-> a] /\ e = Logs!Pending /\ e = w - a
  BY <1>0 DEF Logs!Pending
<1>2. spool.written = w /\ spool.acknowledged = a /\ spool.ring = old /\ a <= w /\ e <= SpoolBytes /\ e + k <= SpoolBytes
  BY <1>1 DEF LogsType
<1> DEFINE At(p) == \E j \in 0..k - 1 : (w + j) % SpoolBytes = p
           Place(p) == CHOOSE j \in 0..k - 1 : (w + j) % SpoolBytes = p
           new == [p \in 0..SpoolBytes - 1 |-> IF At(p) THEN first + Place(p) ELSE old[p]]
<1>3. spool' = [ring |-> new, written |-> w + k, acknowledged |-> a]
  BY <1>1 DEF Logs!Spooled
<1>4. \A p : At(p) => Place(p) \in 0..k - 1 /\ (w + Place(p)) % SpoolBytes = p
  OBVIOUS
<1>5. \A i, j \in 0..k - 1 : (w + i) % SpoolBytes = (w + j) % SpoolBytes => i = j
  <2> SUFFICES ASSUME NEW i \in 0..k - 1, NEW j \in 0..k - 1, i < j
               PROVE  (w + i) % SpoolBytes # (w + j) % SpoolBytes
    OBVIOUS
  <2>1. w + i < w + j /\ w + j < (w + i) + SpoolBytes /\ w + i \in Nat /\ w + j \in Nat
    BY <1>2
  <2>2. SpoolBytes \in Nat \ {0}
    OBVIOUS
  <2> QED BY ONLY <2>1, <2>2, RingPlaces
<1> HIDE DEF At, Place
<1>6. \A p \in 0..SpoolBytes - 1 : new[p] \in Nat
  BY <1>4
<1>7. new \in [0..SpoolBytes - 1 -> Nat]
  BY <1>6
<1>8. ASSUME NEW j \in 0..k - 1
      PROVE  new[(w + j) % SpoolBytes] = first + j
  <2>1. PICK p \in 0..SpoolBytes - 1 : p = (w + j) % SpoolBytes
    OBVIOUS
  <2>2. At(p)
    BY <2>1 DEF At
  <2>3. Place(p) = j
    BY <1>4, <1>5, <2>1, <2>2
  <2> QED BY <2>1, <2>2, <2>3
<1>9. ASSUME NEW p \in 0..e - 1
      PROVE  new[(a + p) % SpoolBytes] = old[(a + p) % SpoolBytes]
  <2>1. PICK q \in 0..SpoolBytes - 1 : q = (a + p) % SpoolBytes
    BY <1>1
  <2>2. ~At(q)
    <3> SUFFICES ASSUME NEW j \in 0..k - 1
                 PROVE  (w + j) % SpoolBytes # (a + p) % SpoolBytes
      BY <2>1 DEF At
    <3>1. a + p < w + j /\ w + j < (a + p) + SpoolBytes /\ a + p \in Nat /\ w + j \in Nat
      BY <1>1, <1>2
    <3>2. (a + p) % SpoolBytes # (w + j) % SpoolBytes
      BY <3>1, RingPlaces
    <3> QED BY <3>2
  <2> QED BY <2>1, <2>2
<1> HIDE DEF new
<1>10. spool'.ring = new /\ spool'.written = w + k /\ spool'.acknowledged = a
  BY <1>3
<1>11. spool' \in [ring : [0..SpoolBytes - 1 -> Nat], written : Nat, acknowledged : Nat]
  BY <1>3, <1>7
<1>12. Logs!Pending' = Logs!Pending + k
  BY <1>1, <1>10 DEF Logs!Pending
<1> QED BY <1>1, <1>2, <1>8, <1>9, <1>10, <1>11, <1>12

-----------------------------------------------------------------------------
(* A non-empty set of numbers has a least element.                         *)
LEMMA LeastNumber ==
    ASSUME NEW S, S \subseteq Nat, S # {}
    PROVE  \E x \in S : \A y \in S : x <= y
<1>1. PICK x \in S : \A y \in S : ~ (<<y, x>> \in OpToRel(<, Nat))
  BY NatLessThanWellFounded, WFMin, Zenon
<1>2. \A y \in S : x <= y
  <2>1. ASSUME NEW y \in S, y < x PROVE FALSE
    BY <1>1, <2>1, Zenon DEF OpToRel
  <2> QED BY <2>1
<1> QED BY <1>2

LEMMA NumbersJoined ==
    ASSUME NEW a \in Nat, NEW l \in Nat, NEW s, s = [j \in 1..l |-> a + j]
    PROVE  Logs!Numbers(a) \o s = Logs!Numbers(a + l)
<1>1. PICK x, y : x = Logs!Numbers(a) /\ y = Logs!Numbers(a + l)
  OBVIOUS
<1>2. x \in Seq(Nat) /\ Len(x) = a /\ \A b \in 1..a : x[b] = b
  BY <1>1 DEF Logs!Numbers
<1>3. y \in Seq(Nat) /\ Len(y) = a + l /\ \A b \in 1..a + l : y[b] = b
  BY <1>1 DEF Logs!Numbers
<1>4. s \in Seq(Nat) /\ Len(s) = l /\ \A j \in 1..l : s[j] = a + j
  <2>1. \A j \in 1..l : a + j \in Nat
    OBVIOUS
  <2>2. s \in [1..l -> Nat]
    BY <2>1
  <2> QED BY <2>2
<1>5. PICK z : z = x \o s
  BY Zenon
<1>6. /\ z \in Seq(Nat) /\ Len(z) = a + l
      /\ \A b \in 1..a + l : z[b] = IF b <= a THEN x[b] ELSE s[b - a]
  <2>1. /\ z \in Seq(Nat) /\ Len(z) = Len(x) + Len(s)
        /\ \A b \in 1..Len(x) + Len(s) : z[b] = IF b <= Len(x) THEN x[b] ELSE s[b - Len(x)]
    <3>1. /\ x \o s \in Seq(Nat) /\ Len(x \o s) = Len(x) + Len(s)
          /\ \A b \in 1..Len(x) + Len(s) : (x \o s)[b] = IF b <= Len(x) THEN x[b] ELSE s[b - Len(x)]
      BY <1>2, <1>4, ConcatProperties, Zenon
    <3> QED BY <1>5, <3>1, Zenon
  <2> QED BY <1>2, <1>4, <2>1, Zenon
<1>7. ASSUME NEW b \in 1..a + l
      PROVE  z[b] = y[b]
  <2>1. CASE b <= a
    BY <1>2, <1>3, <1>6, <2>1
  <2>2. CASE b > a
    <3>1. z[b] = s[b - a] /\ b - a \in 1..l
      BY <1>6, <2>2
    <3> QED BY <1>3, <1>4, <3>1
  <2> QED BY <2>1, <2>2
<1> QED BY <1>1, <1>3, <1>5, <1>6, <1>7, SeqEqual

(* FlattenSeq joins consecutive pieces of the output to the output.        *)
Consecutive(seqs, start) ==
    \A i \in 1..Len(seqs) : /\ start[i] = start[i - 1] + Len(seqs[i])
                            /\ seqs[i] = [j \in 1..Len(seqs[i]) |-> start[i - 1] + j]

LEMMA FlattenedNumbers ==
    ASSUME NEW n \in Nat, NEW seqs \in Seq(Seq(Nat)), Len(seqs) = n, NEW start \in [Nat -> Nat], start[0] = 0,
           Consecutive(seqs, start)
    PROVE  Logs!FlattenSeq(seqs) = Logs!Numbers(start[n])
<1>1. CASE n = 0
  <2>1. seqs = <<>>
    BY <1>1, EmptySeq
  <2>2. Logs!Numbers(0) = <<>>
    BY DEF Logs!Numbers
  <2> QED BY <1>1, <2>1, <2>2 DEF Logs!FlattenSeq
<1>2. CASE n > 0
  <2> DEFINE Joins(f) == f = [i \in 1..Len(seqs) |-> IF i = 1 THEN seqs[i] ELSE f[i - 1] \o seqs[i]]
             prefixes == [i \in 1..n |-> Logs!Numbers(start[i])]
             flatten == CHOOSE f : Joins(f)
  <2>1. Logs!FlattenSeq(seqs) = flatten[n]
    BY <1>2 DEF Logs!FlattenSeq
  <2>2. ASSUME NEW i \in 1..n, i > 1
        PROVE  Logs!Numbers(start[i - 1]) \o seqs[i] = Logs!Numbers(start[i])
    <3>1. PICK a \in Nat, l \in Nat, s \in Seq(Nat) : a = start[i - 1] /\ s = seqs[i] /\ l = Len(s)
      <4>1. i - 1 \in Nat /\ start[i - 1] \in Nat
        BY <2>2
      <4>2. seqs[i] \in Seq(Nat)
        BY ElementOfSeq
      <4> QED BY <4>1, <4>2
    <3>2. start[i] = a + l /\ s = [j \in 1..l |-> a + j]
      BY <3>1 DEF Consecutive
    <3>3. Logs!Numbers(a) \o s = Logs!Numbers(a + l)
      BY <3>2, NumbersJoined, Zenon
    <3> QED BY <3>1, <3>2, <3>3, Zenon
  <2>3. seqs[1] = Logs!Numbers(start[1])
    <3>1. 1 \in 1..n /\ 1 - 1 = 0
      BY <1>2
    <3>2. start[1] = 0 + Len(seqs[1]) /\ seqs[1] = [j \in 1..Len(seqs[1]) |-> 0 + j]
      BY <3>1 DEF Consecutive
    <3>3. PICK l \in Nat : l = Len(seqs[1])
      BY <3>1
    <3>4. seqs[1] = [j \in 1..l |-> j] /\ start[1] = l
      <4>1. [j \in 1..l |-> 0 + j] = [j \in 1..l |-> j]
        OBVIOUS
      <4> QED BY <3>2, <3>3, <4>1
    <3> QED BY <3>4 DEF Logs!Numbers
  <2>4. \A i \in 1..n : prefixes[i] = IF i = 1 THEN seqs[i] ELSE prefixes[i - 1] \o seqs[i]
    <3> SUFFICES ASSUME NEW i \in 1..n
                 PROVE  Logs!Numbers(start[i]) = IF i = 1 THEN seqs[i] ELSE prefixes[i - 1] \o seqs[i]
      OBVIOUS
    <3>1. CASE i = 1
      BY <2>3, <3>1
    <3>2. CASE i > 1
      <4>1. prefixes[i - 1] = Logs!Numbers(start[i - 1])
        BY <3>2
      <4>2. prefixes[i - 1] \o seqs[i] = Logs!Numbers(start[i])
        BY <2>2, <3>2, <4>1, Zenon
      <4>3. i # 1
        BY <3>2
      <4> QED BY <4>2, <4>3, Zenon
    <3> QED BY <3>1, <3>2
  <2>5. Joins(prefixes)
    BY <2>4
  <2> HIDE DEF prefixes
  <2>6. Joins(flatten)
    BY <2>5, Zenon
  <2> HIDE DEF flatten
  <2>7. \A i \in 1..n : flatten[i] = IF i = 1 THEN seqs[i] ELSE flatten[i - 1] \o seqs[i]
    BY <2>6
  <2>8. \A i \in 1..n : flatten[i] = prefixes[i]
    <3> SUFFICES ASSUME NEW i0 \in 1..n, flatten[i0] # prefixes[i0]
                 PROVE  FALSE
      OBVIOUS
    <3>1. PICK S : S = {i \in 1..n : flatten[i] # prefixes[i]}
      OBVIOUS
    <3>2. S \subseteq Nat /\ S # {}
      <4>1. S \subseteq 1..n /\ i0 \in S
        BY <3>1, Zenon
      <4>2. 1..n \subseteq Nat
        OBVIOUS
      <4> QED BY <4>1, <4>2, Zenon
    <3>3. PICK i \in S : \A j \in S : i <= j
      BY <3>2, LeastNumber
    <3>4. i \in 1..n /\ flatten[i] # prefixes[i]
      BY <3>1
    <3>5. i = 1 \/ (i # 1 /\ flatten[i - 1] = prefixes[i - 1])
      <4>1. i \in 1..n /\ (i = 1 \/ (i # 1 /\ i - 1 \in 1..n /\ ~(i <= i - 1)))
        BY <3>4
      <4> QED BY <3>1, <3>3, <4>1, Zenon
    <3>6. flatten[i] = (IF i = 1 THEN seqs[i] ELSE flatten[i - 1] \o seqs[i])
      BY <2>7, <3>4, Zenon
    <3>7. prefixes[i] = (IF i = 1 THEN seqs[i] ELSE prefixes[i - 1] \o seqs[i])
      BY <2>4, <3>4, Zenon
    <3> QED BY <3>4, <3>5, <3>6, <3>7, Zenon
  <2>9. prefixes[n] = Logs!Numbers(start[n])
    BY <1>2 DEF prefixes
  <2> QED BY <1>2, <2>1, <2>8, <2>9
<1> QED BY <1>1, <1>2

-----------------------------------------------------------------------------
LEMMA LogsInitInv == ASSUME Logs!LogsInit PROVE LogsInv
<1> USE SpoolAssumption
<1>1. /\ output = 0 /\ spool = [ring |-> [p \in 0..SpoolBytes - 1 |-> 0], written |-> 0, acknowledged |-> 0]
      /\ writer = [at |-> "run", left |-> 0, stopped |-> FALSE]
      /\ uploader = [at |-> "select", chunk |-> Logs!NoChunk, last |-> FALSE, sequence |-> 0, attempt |-> 0,
                     answer |-> "none", err |-> FALSE, discard |-> FALSE, cancelled |-> FALSE]
      /\ net = {} /\ chunks = <<>> /\ synced = {} /\ latest = Logs!NoRecord
      /\ retention = [over |-> FALSE, ever |-> FALSE] /\ outcome = "none"
      /\ \E f \in BOOLEAN : follower = [at |-> "read", follow |-> f, sequence |-> 0, text |-> <<>>]
  BY DEF Logs!LogsInit
<1>2. Logs!NoChunk \in LogChunk
  BY DEF Logs!NoChunk, LogChunk
<1>3. Logs!Pending = 0
  BY <1>1 DEF Logs!Pending
<1>4. LogsType
  BY <1>1, <1>2, <1>3 DEF LogsType
<1>5. EndsFit
  BY <1>1 DEF EndsFit
<1>6. PICK cut, start : cut = [s \in Nat |-> Logs!NoChunk] /\ start = [s \in Nat |-> 0]
  BY Zenon
<1>7. cut \in [Nat -> LogChunk] /\ start \in [Nat -> Nat] /\ start[0] = 0
  BY <1>2, <1>6
<1>8. CutFits(cut, start, 0) /\ TakenFits(0) /\ NetFits(cut, 0)
  BY <1>1, <1>7 DEF CutFits, TakenFits, NetFits
<1>9. SpoolFits(start) /\ UploaderFits(cut)
  BY <1>1, <1>3, <1>7 DEF SpoolFits, UploaderFits
<1>10. StoreFits(cut, 0)
  <2>1. DOMAIN chunks = 0..0 - 1 /\ synced = 0..0 - 1
    BY <1>1
  <2> QED BY <1>1, <2>1 DEF StoreFits
<1>11. FollowerFits(cut, 0)
  BY <1>1 DEF FollowerFits, Logs!IncompleteIsTrue
<1> QED BY <1>4, <1>5, <1>7, <1>8, <1>9, <1>10, <1>11 DEF LogsInv, LogFits

(* A step that only makes the uploader give up, or the writer end.         *)
LEMMA EndingInv ==
    ASSUME LogsInv, LogsType', EndsFit', UNCHANGED <<output, spool, net, chunks, synced, latest, retention, follower>>,
           /\ uploader'.at = uploader.at /\ uploader'.chunk = uploader.chunk /\ uploader'.last = uploader.last
           /\ uploader'.sequence = uploader.sequence /\ uploader'.attempt = uploader.attempt
           /\ uploader'.answer = uploader.answer,
           Logs!GivesUp => Logs!GivesUp', uploader.discard => uploader'.discard,
           writer'.left = writer.left, Logs!Closing => Logs!Closing'
    PROVE  LogsInv'
<1>1. PICK cut \in [Nat -> LogChunk], start \in [Nat -> Nat], taken \in Nat : LogFits(cut, start, taken)
  BY DEF LogsInv
<1>2. Logs!Pending' = Logs!Pending
  BY DEF Logs!Pending
<1>3. CutFits(cut, start, taken)'
  BY <1>1 DEF LogFits, CutFits, ChunkFits, LastFits
<1>4. TakenFits(taken)' /\ SpoolFits(start)'
  BY <1>1, <1>2 DEF LogFits, TakenFits, SpoolFits
<1>5. UploaderFits(cut)' /\ NetFits(cut, taken)'
  BY <1>1, <1>2 DEF LogFits, UploaderFits, NetFits
<1>6. StoreFits(cut, taken)' /\ FollowerFits(cut, taken)'
  BY <1>1 DEF LogFits, StoreFits, FollowerFits, Logs!IncompleteIsTrue
<1> QED BY <1>3, <1>4, <1>5, <1>6 DEF LogsInv, LogFits

LEMMA EndingStep ==
    ASSUME LogsInv,
           \/ Logs!Discard \/ Logs!SpoolStaysFull \/ Logs!FlushTimeout
           \/ Logs!StopOutput \/ Logs!Close \/ Logs!CloseReturns \/ Logs!PublishResult
    PROVE  LogsInv'
<1>1. UNCHANGED <<output, spool, net, chunks, synced, latest, retention, follower>>
  BY DEF Logs!Discard, Logs!SpoolStaysFull, Logs!FlushTimeout, Logs!StopOutput, Logs!Close, Logs!CloseReturns,
         Logs!PublishResult, Logs!store
<1>2. /\ uploader' \in [at : {"select", "send", "answer", "done"}, chunk : LogChunk, last : BOOLEAN, sequence : Nat,
                        attempt : Nat, answer : {"none", "ok", "failed", "refused"}, err : BOOLEAN, discard : BOOLEAN,
                        cancelled : BOOLEAN]
      /\ uploader'.at = uploader.at /\ uploader'.chunk = uploader.chunk /\ uploader'.last = uploader.last
      /\ uploader'.sequence = uploader.sequence /\ uploader'.attempt = uploader.attempt
      /\ uploader'.answer = uploader.answer
      /\ (uploader.err => uploader'.err) /\ (uploader.discard => uploader'.discard)
  <2>1. CASE Logs!Discard
    BY <2>1 DEF Logs!Discard, LogsInv, LogsType
  <2>2. CASE Logs!SpoolStaysFull
    BY <2>2 DEF Logs!SpoolStaysFull, LogsInv, LogsType
  <2>3. CASE Logs!FlushTimeout
    BY <2>3 DEF Logs!FlushTimeout, LogsInv, LogsType
  <2>4. CASE Logs!StopOutput \/ Logs!Close \/ Logs!CloseReturns \/ Logs!PublishResult
    BY <2>4 DEF Logs!StopOutput, Logs!Close, Logs!CloseReturns, Logs!PublishResult, LogsInv, LogsType
  <2> QED BY <2>1, <2>2, <2>3, <2>4
<1>3. /\ writer' \in [at : {"run", "blocked", "close", "exited"}, left : Nat, stopped : BOOLEAN]
      /\ writer'.left = writer.left /\ (Logs!Closing => Logs!Closing')
      /\ writer'.at # writer.at => \/ writer.at = "run" /\ writer'.at = "close"
                                   \/ writer'.at = "exited" /\ writer.at = "close" /\ uploader.at = "done"
  <2>1. CASE UNCHANGED writer
    BY <2>1 DEF LogsInv, LogsType, Logs!Closing
  <2>2. CASE Logs!StopOutput
    BY <2>2 DEF LogsInv, LogsType, Logs!Closing, Logs!StopOutput
  <2>3. CASE Logs!Close
    BY <2>3 DEF LogsInv, LogsType, Logs!Closing, Logs!Close
  <2>4. CASE Logs!CloseReturns
    BY <2>4 DEF LogsInv, LogsType, Logs!Closing, Logs!CloseReturns
  <2> QED BY <2>1, <2>2, <2>3, <2>4 DEF Logs!Discard, Logs!SpoolStaysFull, Logs!FlushTimeout, Logs!PublishResult
<1>4. LogsType'
  BY <1>1, <1>2, <1>3 DEF LogsInv, LogsType, Logs!Pending
<1>5. EndsFit'
  <2>1. writer'.at = "exited" => uploader'.at = "done"
    BY <1>2, <1>3 DEF LogsInv, EndsFit
  <2>2. outcome' = "ended" => outcome = "ended" \/ writer'.at = "exited"
    BY DEF Logs!Discard, Logs!SpoolStaysFull, Logs!FlushTimeout, Logs!StopOutput, Logs!Close, Logs!CloseReturns,
           Logs!PublishResult
  <2>3. writer.at = "exited" => writer'.at = "exited"
    BY <1>3
  <2>4. writer.at # "blocked" => writer'.at # "blocked"
    BY <1>3
  <2>5. writer'.at # "blocked" => writer.at # "blocked"
    BY <1>3
  <2> QED BY <1>1, <1>3, <2>1, <2>2, <2>3, <2>5 DEF LogsInv, EndsFit
<1>6. Logs!GivesUp => Logs!GivesUp'
  BY <1>2 DEF Logs!GivesUp
<1> QED BY <1>1, <1>2, <1>3, <1>4, <1>5, <1>6, EndingInv

(* Steps of the uploader that keep the chunk it works on.                  *)
LEMMA UploaderMoves ==
    ASSUME LogsInv, LogsType', UNCHANGED <<output, spool, writer, chunks, synced, latest, retention, outcome, follower>>,
           /\ uploader'.chunk = uploader.chunk /\ uploader'.last = uploader.last
           /\ uploader'.sequence = uploader.sequence /\ uploader'.discard = uploader.discard,
           uploader.err => uploader'.err, uploader.at # "done", uploader'.at = "done" => Logs!GivesUp',
           \/ uploader.at \in {"send", "answer"} /\ uploader'.at \in {"send", "answer", "done"}
           \/ uploader.at = "select" /\ uploader'.at = "done",
           uploader'.attempt >= uploader.attempt,
           uploader'.at = "answer" /\ uploader'.answer = "ok" => uploader.at = "answer" /\ uploader.answer = "ok",
           \A m \in net' : m \in net \/ ( /\ uploader.at = "send" /\ uploader'.attempt = uploader.attempt
                                          /\ m.chunk = uploader.chunk /\ m.attempt = uploader.attempt )
    PROVE  LogsInv'
<1>1. PICK cut \in [Nat -> LogChunk], start \in [Nat -> Nat], taken \in Nat : LogFits(cut, start, taken)
  BY DEF LogsInv
<1>2. Logs!Pending' = Logs!Pending /\ (Logs!GivesUp => Logs!GivesUp') /\ (Logs!Closing' <=> Logs!Closing)
  BY DEF Logs!Pending, Logs!GivesUp, Logs!Closing
<1>3. uploader.sequence \in Nat /\ uploader.attempt \in Nat /\ uploader'.attempt \in Nat
  BY DEF LogsInv, LogsType
<1>4. EndsFit'
  BY DEF LogsInv, EndsFit
<1>5. CutFits(cut, start, taken)'
  BY <1>1, <1>2 DEF LogFits, CutFits, ChunkFits, LastFits
<1>6. TakenFits(taken)'
  BY <1>1 DEF LogFits, TakenFits
<1>7. SpoolFits(start)'
  BY <1>1, <1>2 DEF LogFits, SpoolFits
<1>8. UploaderFits(cut)'
  BY <1>1, <1>2 DEF LogFits, UploaderFits
<1>9. NetFits(cut, taken)'
  <2>1. uploader.at = "send" => uploader.sequence < taken /\ uploader.chunk = cut[uploader.sequence]
                                /\ uploader.chunk.sequence = uploader.sequence
    <3> SUFFICES ASSUME uploader.at = "send"
                 PROVE  /\ uploader.sequence < taken /\ uploader.chunk = cut[uploader.sequence]
                        /\ uploader.chunk.sequence = uploader.sequence
      OBVIOUS
    <3>1. taken = uploader.sequence + 1 /\ uploader.chunk = cut[uploader.sequence]
      BY <1>1 DEF LogFits, TakenFits, UploaderFits
    <3>2. uploader.sequence \in 0..taken - 1
      BY <1>3, <3>1
    <3>3. ChunkFits(cut, start, uploader.sequence)
      BY <1>1, <3>2 DEF LogFits, CutFits
    <3> QED BY <1>3, <3>1, <3>3 DEF ChunkFits
  <2> SUFFICES ASSUME NEW m \in net'
               PROVE  /\ m.chunk.sequence < taken /\ m.chunk = cut[m.chunk.sequence]
                      /\ m.attempt <= uploader'.attempt
                      /\ m.attempt = uploader'.attempt =>
                            uploader'.at # "select" /\ m.chunk.sequence = uploader'.sequence
    BY DEF NetFits
  <2>2. CASE m \in net
    <3>1. m.attempt \in Nat
      BY <2>2 DEF LogsInv, LogsType, Upload
    <3> QED BY <1>1, <1>3, <2>2, <3>1 DEF LogFits, NetFits
  <2>3. CASE m \notin net
    BY <1>3, <2>1, <2>3
  <2> QED BY <2>2, <2>3
<1>10. StoreFits(cut, taken)'
  BY <1>1 DEF LogFits, StoreFits
<1>11. FollowerFits(cut, taken)'
  BY <1>1, <1>2 DEF LogFits, FollowerFits, Logs!IncompleteIsTrue
<1> QED BY <1>1, <1>4, <1>5, <1>6, <1>7, <1>8, <1>9, <1>10, <1>11 DEF LogsInv, LogFits

(* A request that is over is no longer on its way.                         *)
LEMMA ReceivedInv ==
    ASSUME LogsInv, net' \subseteq net,
           UNCHANGED <<output, spool, writer, uploader, chunks, synced, latest, retention, outcome, follower>>
    PROVE  LogsInv'
<1>1. PICK cut \in [Nat -> LogChunk], start \in [Nat -> Nat], taken \in Nat : LogFits(cut, start, taken)
  BY DEF LogsInv
<1>2. LogsType' /\ EndsFit'
  <2>1. net' \subseteq Upload /\ LogsType
    BY DEF LogsInv, LogsType
  <2>2. Logs!Pending' = Logs!Pending
    BY DEF Logs!Pending
  <2>3. LogsType'
    <3>1. output' = output /\ spool' = spool /\ writer' = writer /\ uploader' = uploader /\ retention' = retention
          /\ follower' = follower
      OBVIOUS
    <3> QED BY <2>1, <2>2, <3>1, Zenon DEF LogsType
  <2>4. EndsFit'
    BY DEF LogsInv, EndsFit
  <2> QED BY <2>3, <2>4
<1>3. NetFits(cut, taken)'
  BY <1>1 DEF LogFits, NetFits
<1>4. /\ CutFits(cut, start, taken)' /\ TakenFits(taken)' /\ SpoolFits(start)' /\ UploaderFits(cut)'
      /\ StoreFits(cut, taken)' /\ FollowerFits(cut, taken)'
  <2>1. Logs!Pending' = Logs!Pending /\ (Logs!GivesUp' <=> Logs!GivesUp) /\ (Logs!Closing' <=> Logs!Closing)
    BY DEF Logs!Pending, Logs!GivesUp, Logs!Closing
  <2>2. CutFits(cut, start, taken)' /\ TakenFits(taken)'
    BY <1>1, <2>1 DEF LogFits, CutFits, ChunkFits, LastFits, TakenFits
  <2>3. SpoolFits(start)' /\ UploaderFits(cut)'
    BY <1>1, <2>1 DEF LogFits, SpoolFits, UploaderFits
  <2>4. StoreFits(cut, taken)'
    BY <1>1 DEF LogFits, StoreFits
  <2>5. FollowerFits(cut, taken)'
    BY <1>1, <2>1 DEF LogFits, FollowerFits, Logs!IncompleteIsTrue
  <2> QED BY <2>2, <2>3, <2>4, <2>5
<1> QED BY <1>1, <1>2, <1>3, <1>4 DEF LogsInv, LogFits

UploaderState ==
    [at : {"select", "send", "answer", "done"}, chunk : LogChunk, last : BOOLEAN, sequence : Nat,
     attempt : Nat, answer : {"none", "ok", "failed", "refused"}, err : BOOLEAN, discard : BOOLEAN,
     cancelled : BOOLEAN]

LEMMA UploaderStays ==
    ASSUME LogsInv,
           \/ Logs!Transmit \/ Logs!AnswerLate \/ Logs!SendEnds \/ Logs!SendAgain \/ Logs!UploaderEnds
           \/ \E m \in net : Logs!UploadLost(m)
    PROVE  LogsInv'
<1> DEFINE Step == /\ UNCHANGED <<output, spool, writer, chunks, synced, latest, retention, outcome, follower>>
                   /\ uploader' \in UploaderState
                   /\ uploader'.chunk = uploader.chunk /\ uploader'.last = uploader.last
                   /\ uploader'.sequence = uploader.sequence /\ uploader'.discard = uploader.discard
                   /\ uploader.err => uploader'.err
                   /\ uploader.at # "done"
                   /\ uploader'.at = "done" => Logs!GivesUp'
                   /\ \/ uploader.at \in {"send", "answer"} /\ uploader'.at \in {"send", "answer", "done"}
                      \/ uploader.at = "select" /\ uploader'.at = "done"
                   /\ uploader'.attempt >= uploader.attempt
                   /\ uploader'.at = "answer" /\ uploader'.answer = "ok" => uploader.at = "answer" /\ uploader.answer = "ok"
           Kept == /\ uploader' \in UploaderState
                   /\ uploader'.chunk = uploader.chunk /\ uploader'.last = uploader.last
                   /\ uploader'.sequence = uploader.sequence /\ uploader'.discard = uploader.discard
                   /\ uploader.err => uploader'.err
           Sends == \A m \in net' : m \in net \/ ( /\ uploader.at = "send" /\ uploader'.attempt = uploader.attempt
                                                   /\ m.chunk = uploader.chunk /\ m.attempt = uploader.attempt )
           Same == Step /\ net' \subseteq net
<1>1. uploader \in UploaderState
  BY DEF LogsInv, LogsType, UploaderState
<1>2. ASSUME Step, Sends, net' \subseteq Upload
      PROVE  LogsInv'
  <2>1. LogsType'
    BY <1>2 DEF LogsInv, LogsType, Logs!Pending, UploaderState
  <2> QED BY <1>2, <2>1, UploaderMoves
<1>3. ASSUME Same
      PROVE  LogsInv'
  <2>1. net' \subseteq Upload /\ Sends
    BY <1>3 DEF LogsInv, LogsType
  <2> QED BY <1>2, <1>3, <2>1
<1>10. uploader.attempt \in Nat
  BY <1>1 DEF UploaderState
<1>4. CASE Logs!Transmit
  <2>1. PICK n : n = [chunk |-> uploader.chunk, attempt |-> uploader.attempt]
    OBVIOUS
  <2>2. net' = net \cup {n} /\ n.chunk = uploader.chunk /\ n.attempt = uploader.attempt /\ n \in Upload
    BY <1>1, <1>4, <2>1 DEF Logs!Transmit, Upload, UploaderState
  <2>3. net' \subseteq Upload
    BY <2>2 DEF LogsInv, LogsType
  <2>4. Step
    <3>1. /\ uploader.at = "send" /\ uploader' = [uploader EXCEPT !.at = "answer", !.answer = "none"]
          /\ UNCHANGED <<output, spool, writer, chunks, synced, latest, retention, outcome, follower>>
      BY <1>4 DEF Logs!Transmit, Logs!store
    <3>2. Kept /\ uploader'.at = "answer" /\ uploader'.answer = "none" /\ uploader'.attempt = uploader.attempt
      BY <1>1, <3>1 DEF UploaderState
    <3> QED BY <3>1, <3>2, <1>10
  <2>5. uploader.at = "send" /\ uploader'.attempt = uploader.attempt
    BY <1>1, <1>4 DEF Logs!Transmit, UploaderState
  <2>6. Sends
    BY <2>2, <2>5
  <2> QED BY <1>2, <2>3, <2>4, <2>6
<1>5. CASE Logs!AnswerLate
  <2>1. /\ uploader.at = "answer" /\ uploader' = [uploader EXCEPT !.at = "send", !.attempt = @ + 1]
        /\ UNCHANGED <<output, spool, writer, chunks, synced, latest, retention, outcome, follower, net>>
    BY <1>5 DEF Logs!AnswerLate, Logs!store
  <2>2. Kept /\ uploader'.at = "send" /\ uploader'.attempt = uploader.attempt + 1
    <3>1. PICK a \in Nat : a = uploader.attempt + 1
      BY <1>10
    <3>2. uploader' = [uploader EXCEPT !.at = "send", !.attempt = a]
      BY <2>1, <3>1
    <3> QED BY <1>1, <3>1, <3>2 DEF UploaderState
  <2>3. Same
    BY <1>10, <2>1, <2>2
  <2> QED BY <1>3, <2>3
<1>6. CASE Logs!SendEnds
  <2>1. /\ uploader.at \in {"send", "answer"} /\ uploader' = [uploader EXCEPT !.at = "done", !.err = TRUE]
        /\ UNCHANGED <<output, spool, writer, chunks, synced, latest, retention, outcome, follower, net>>
    BY <1>6 DEF Logs!SendEnds, Logs!store
  <2>2. Kept /\ uploader'.at = "done" /\ Logs!GivesUp' /\ uploader'.attempt = uploader.attempt
    <3>1. /\ uploader' \in UploaderState
          /\ uploader'.chunk = uploader.chunk /\ uploader'.last = uploader.last
          /\ uploader'.sequence = uploader.sequence /\ uploader'.discard = uploader.discard
          /\ uploader'.err = TRUE /\ uploader'.at = "done" /\ uploader'.attempt = uploader.attempt
      BY <1>1, <2>1 DEF UploaderState
    <3> QED BY <3>1 DEF Logs!GivesUp
  <2>3. Same
    BY <1>10, <2>1, <2>2
  <2> QED BY <1>3, <2>3
<1>7. CASE Logs!SendAgain
  <2>1. Same
    BY <1>1, <1>7 DEF Logs!SendAgain, Logs!store, Logs!GivesUp, UploaderState
  <2> QED BY <1>3, <2>1
<1>8. CASE Logs!UploaderEnds
  <2>1. /\ uploader.at = "select" /\ uploader' = [uploader EXCEPT !.at = "done", !.err = uploader.err \/ uploader.cancelled]
        /\ uploader.err \/ uploader.cancelled \/ uploader.discard
        /\ UNCHANGED <<output, spool, writer, chunks, synced, latest, retention, outcome, follower, net>>
    BY <1>8 DEF Logs!UploaderEnds, Logs!store
  <2>2. uploader.err \in BOOLEAN /\ uploader.cancelled \in BOOLEAN /\ uploader.discard \in BOOLEAN
    BY <1>1 DEF UploaderState
  <2>3. PICK e \in BOOLEAN : e = (uploader.err \/ uploader.cancelled)
    BY <2>2
  <2>4. /\ uploader' \in UploaderState
        /\ uploader'.chunk = uploader.chunk /\ uploader'.last = uploader.last
        /\ uploader'.sequence = uploader.sequence /\ uploader'.discard = uploader.discard
        /\ uploader'.err = e /\ uploader'.at = "done" /\ uploader'.attempt = uploader.attempt
    BY <1>1, <2>1, <2>3 DEF UploaderState
  <2>5. Kept /\ Logs!GivesUp'
    BY <2>1, <2>3, <2>4 DEF Logs!GivesUp
  <2>6. Same
    BY <1>10, <2>1, <2>4, <2>5
  <2> QED BY <1>3, <2>6
<1>9. ASSUME NEW m \in net, Logs!UploadLost(m)
      PROVE  LogsInv'
  <2>1. CASE Logs!Current(m)
    <3>1. Same
      BY <1>1, <1>9, <2>1 DEF Logs!UploadLost, Logs!Current, Logs!store, Logs!GivesUp, UploaderState
    <3> QED BY <1>3, <3>1
  <2>2. CASE ~Logs!Current(m)
    <3>1. PICK n : n = net \ {m}
      OBVIOUS
    <3>2. /\ UNCHANGED <<output, spool, writer, uploader, chunks, synced, latest, retention, outcome, follower>>
          /\ net' = n
      BY <1>9, <2>2, <3>1 DEF Logs!UploadLost, Logs!store
    <3> QED BY <3>1, <3>2, ReceivedInv
  <2> QED BY <2>1, <2>2
<1> QED BY <1>4, <1>5, <1>6, <1>7, <1>8, <1>9

-----------------------------------------------------------------------------
(* Output, spooled or dropped: no chunk is the last one yet.               *)
LEMMA WritingInv ==
    ASSUME LogsInv, LogsType', UNCHANGED <<uploader, net, chunks, synced, latest, retention, outcome, follower>>,
           writer.at \in {"run", "blocked"}, writer'.at \in {"run", "blocked"}, writer'.at # "blocked" => writer'.left = 0,
           output' >= output, Logs!Pending' >= Logs!Pending,
           \A start \in [Nat -> Nat] : SpoolFits(start) => SpoolFits(start)'
    PROVE  LogsInv'
<1>1. PICK cut \in [Nat -> LogChunk], start \in [Nat -> Nat], taken \in Nat : LogFits(cut, start, taken)
  BY DEF LogsInv
<1>2. ~Logs!Closing /\ (Logs!GivesUp' <=> Logs!GivesUp)
  BY DEF Logs!Closing, Logs!GivesUp
<1>3. EndsFit'
  BY DEF LogsInv, EndsFit
<1>4. CutFits(cut, start, taken)'
  <2>1. output \in Nat /\ output' \in Nat
    BY DEF LogsInv, LogsType
  <2>2. start[0] = 0
    BY <1>1 DEF LogFits, CutFits
  <2>3. ASSUME NEW s \in 0..taken - 1
        PROVE  ChunkFits(cut, start, s)' /\ LastFits(cut, start, taken, s)'
    <3>1. ChunkFits(cut, start, s) /\ LastFits(cut, start, taken, s)
      BY <1>1 DEF LogFits, CutFits
    <3>2. start[s + 1] \in Nat
      OBVIOUS
    <3>3. start[s + 1] <= output'
      <4>1. start[s + 1] <= output
        BY <3>1 DEF ChunkFits
      <4> QED BY <2>1, <3>2, <4>1
    <3>5. ChunkFits(cut, start, s)'
      BY <3>1, <3>3, Zenon DEF ChunkFits
    <3>4. LastFits(cut, start, taken, s)'
      BY <1>2, <3>1 DEF LastFits
    <3> QED BY <3>4, <3>5
  <2> QED BY <2>2, <2>3 DEF CutFits
<1>5. TakenFits(taken)' /\ SpoolFits(start)'
  BY <1>1 DEF LogFits, TakenFits
<1>6. UploaderFits(cut)'
  <2>1. uploader.at \in {"send", "answer"} => Len(uploader.chunk.data) <= Logs!Pending'
    <3>1. uploader.at \in {"send", "answer"} => Len(uploader.chunk.data) <= Logs!Pending
      BY <1>1 DEF LogFits, UploaderFits
    <3>2. uploader.chunk.data \in Seq(Nat)
      BY DEF LogsInv, LogsType, LogChunk
    <3>3. Logs!Pending \in Nat
      BY PendingFacts DEF LogsInv
    <3>4. Logs!Pending' \in Int
      <4>1. spool'.written \in Nat /\ spool'.acknowledged \in Nat
        BY DEF LogsType
      <4> QED BY <4>1 DEF Logs!Pending
    <3>5. Len(uploader.chunk.data) \in Nat
      BY <3>2, SMTT(30)
    <3> QED BY <3>1, <3>3, <3>4, <3>5
  <2> QED BY <1>1, <1>2, <2>1 DEF LogFits, UploaderFits
<1>7. NetFits(cut, taken)' /\ StoreFits(cut, taken)'
  BY <1>1 DEF LogFits, NetFits, StoreFits
<1>8. FollowerFits(cut, taken)'
  BY <1>1, <1>2 DEF LogFits, FollowerFits, Logs!IncompleteIsTrue
<1> QED BY <1>1, <1>3, <1>4, <1>5, <1>6, <1>7, <1>8 DEF LogsInv, LogFits

LEMMA PlaceOfWrite ==
    ASSUME NEW b \in Nat, NEW e \in Nat, NEW l \in Nat, NEW o \in Nat, NEW p \in Nat, NEW n \in Nat,
           b + e + l = o, p + l = o + n
    PROVE  p = b + e + n /\ p - n + 1 = b + e + 1
OBVIOUS

LEMMA PutInv ==
    ASSUME LogsInv, NEW n \in Nat, NEW first, Logs!Put(first, n), first = output' - n + 1,
           output' \in Nat, output' + writer.left = output + n, output' >= output, ~Logs!GivesUp,
           writer.at \in {"run", "blocked"},
           UNCHANGED <<uploader, net, chunks, synced, latest, retention, outcome, follower>>
    PROVE  LogsInv'
<1> USE SpoolAssumption
<1>1. Logs!Pending \in Nat /\ Logs!Free = SpoolBytes - Logs!Pending /\ Logs!Free \in Nat /\ writer.left \in Nat
      /\ output \in Nat /\ spool.acknowledged \in Nat /\ spool.written = spool.acknowledged + Logs!Pending
  <2>1. LogsType /\ output \in Nat /\ writer.left \in Nat
    BY DEF LogsInv, LogsType
  <2>2. Logs!Free = SpoolBytes - Logs!Pending
    BY DEF Logs!Free
  <2>3. SpoolBytes - Logs!Pending \in Nat
    BY <2>1, PendingFacts
  <2> QED BY <2>1, <2>2, <2>3, PendingFacts
<1>2. PICK k \in Nat : k = Logs!Min({n, Logs!Free})
  BY <1>1, LesserOf
<1>3. k <= n /\ k <= Logs!Free /\ k \in 0..SpoolBytes - Logs!Pending
  BY <1>1, <1>2, LesserOf
<1>4. spool' = Logs!Spooled(first, k)
      /\ writer' = [writer EXCEPT !.left = n - k, !.at = IF n = k THEN "run" ELSE "blocked"]
  BY <1>2 DEF Logs!Put
<1>5. /\ writer' \in [at : {"run", "blocked", "close", "exited"}, left : Nat, stopped : BOOLEAN]
      /\ writer'.left = n - k /\ writer'.at = IF n = k THEN "run" ELSE "blocked"
  <2>0. n - k \in Nat
    BY <1>3
  <2>1. PICK l \in Nat, a \in {"run", "blocked"} : l = n - k /\ a = IF n = k THEN "run" ELSE "blocked"
    BY <2>0
  <2>2. writer' = [writer EXCEPT !.left = l, !.at = a]
    BY <1>4, <2>1
  <2> QED BY <2>1, <2>2 DEF LogsInv, LogsType
<1>6. ASSUME NEW start \in [Nat -> Nat], SpoolFits(start)
      PROVE  /\ first = start[uploader.sequence] + Logs!Pending + 1 /\ first \in Nat
             /\ output' = start[uploader.sequence] + Logs!Pending + n
  <2>1. PICK b \in Nat, e \in Nat : b = start[uploader.sequence] /\ e = Logs!Pending
    BY <1>1 DEF LogsInv, LogsType
  <2>2. b + e + writer.left = output
    BY <1>6, <2>1 DEF SpoolFits
  <2>3. PICK l \in Nat, o \in Nat, p \in Nat : l = writer.left /\ o = output /\ p = output'
    BY <1>1
  <2>4. b + e + l = o /\ p + l = o + n /\ first = p - n + 1
    BY <2>2, <2>3
  <2>5. p = b + e + n /\ first = b + e + 1
    <3>1. b \in Nat /\ e \in Nat /\ l \in Nat /\ o \in Nat /\ p \in Nat /\ n \in Nat
      OBVIOUS
    <3>2. p = b + e + n /\ p - n + 1 = b + e + 1
      BY ONLY <2>4, <3>1, PlaceOfWrite
    <3> QED BY <2>4, <3>2, Zenon
  <2>6. b + e + 1 \in Nat
    OBVIOUS
  <2> QED BY <2>1, <2>3, <2>5, <2>6, Zenon
<1>7. first \in Nat
  BY <1>6 DEF LogsInv, LogFits
<1>8. /\ spool' \in [ring : [0..SpoolBytes - 1 -> Nat], written : Nat, acknowledged : Nat]
      /\ spool'.written = spool.written + k /\ spool'.acknowledged = spool.acknowledged
      /\ Logs!Pending' = Logs!Pending + k
      /\ \A p \in 0..Logs!Pending - 1 :
             spool'.ring[(spool.acknowledged + p) % SpoolBytes] = spool.ring[(spool.acknowledged + p) % SpoolBytes]
      /\ \A j \in 0..k - 1 : spool'.ring[(spool.written + j) % SpoolBytes] = first + j
  BY <1>3, <1>4, <1>7, SpooledFacts DEF LogsInv
<1>9. LogsType'
  <2>1. PICK e \in Nat, a \in Nat : e = Logs!Pending /\ a = spool.acknowledged
    BY <1>1
  <2>2. e + k <= SpoolBytes
    BY <1>1, <1>3, <2>1
  <2>3. spool'.acknowledged = a /\ spool'.written = (a + e) + k /\ Logs!Pending' = e + k
    BY <1>1, <1>8, <2>1
  <2>4. spool'.acknowledged <= spool'.written /\ Logs!Pending' <= SpoolBytes
    BY <2>2, <2>3
  <2>5. spool' \in [ring : [0..SpoolBytes - 1 -> Nat], written : Nat, acknowledged : Nat]
    BY <1>8
  <2>6. LogsType
    BY DEF LogsInv
  <2>7. /\ uploader' = uploader /\ net' = net /\ retention' = retention /\ follower' = follower
    OBVIOUS
  <2> QED BY <1>5, <2>4, <2>5, <2>6, <2>7, Zenon DEF LogsType
<1>10. ASSUME NEW start \in [Nat -> Nat], SpoolFits(start)
       PROVE  SpoolFits(start)'
  <2>1. PICK b \in Nat, e \in Nat, a \in Nat :
            b = start[uploader.sequence] /\ e = Logs!Pending /\ a = spool.acknowledged
    BY <1>1 DEF LogsInv, LogsType
  <2>2. first = b + e + 1 /\ output' = b + e + n /\ output' = b + (e + k) + (n - k)
    <3>1. first = b + e + 1 /\ output' = b + e + n
      BY <1>6, <1>10, <2>1
    <3>2. b + (e + k) + (n - k) = b + e + n
      OBVIOUS
    <3> QED BY <3>1, <3>2
  <2>3. ASSUME NEW p \in 0..(e + k) - 1
        PROVE  spool'.ring[(a + p) % SpoolBytes] = b + p + 1
    <3>1. CASE p < e
      <4>1. p \in 0..e - 1
        BY <3>1
      <4> QED BY <1>8, <1>10, <2>1, <4>1 DEF SpoolFits
    <3>2. CASE p >= e
      <4>1. PICK j \in 0..k - 1 : p = e + j
        BY <3>2
      <4>2. spool.written + j = a + p
        BY <1>1, <2>1, <4>1
      <4>3. spool'.ring[(spool.written + j) % SpoolBytes] = first + j
        BY <1>8
      <4>4. first + j = b + p + 1
        BY <2>2, <4>1
      <4> QED BY <4>2, <4>3, <4>4
    <3> QED BY <3>1, <3>2
  <2>4. start[uploader'.sequence] = b /\ Logs!Pending' = e + k /\ spool'.acknowledged = a
    BY <1>8, <2>1
  <2>5. b + (e + k) <= output' /\ b + (e + k) + writer'.left = output'
    BY <1>3, <1>5, <2>2
  <2> QED BY <2>3, <2>4, <2>5 DEF SpoolFits
<1>11. Logs!Pending' >= Logs!Pending
  BY <1>1, <1>8
<1>12. writer'.at \in {"run", "blocked"} /\ (writer'.at # "blocked" => writer'.left = 0)
  BY <1>3, <1>5
<1> QED BY <1>9, <1>10, <1>11, <1>12, WritingInv

LEMMA WriteStep ==
    ASSUME LogsInv, \/ \E n \in WriteSizes : Logs!Write(n)
                    \/ Logs!WriteResumes
    PROVE  LogsInv'
<1> USE SpoolAssumption
<1>1. output \in Nat /\ writer.left \in Nat /\ (writer.at = "run" => writer.left = 0) /\ LogsType
  BY DEF LogsInv, LogsType, EndsFit
<1>2. ASSUME Logs!GivesUp, output' >= output, output' \in Nat, writer.at \in {"run", "blocked"},
             writer' \in [at : {"run"}, left : {0}, stopped : BOOLEAN],
             UNCHANGED <<spool, uploader, net, chunks, synced, latest, retention, outcome, follower>>
      PROVE  LogsInv'
  <2>1. Logs!Pending' = Logs!Pending /\ Logs!Pending \in Nat /\ Logs!GivesUp'
    BY <1>1, <1>2 DEF Logs!Pending, Logs!GivesUp, LogsType
  <2>2. LogsType'
    BY <1>1, <1>2, <2>1, SMTT(30) DEF LogsType
  <2>3. ASSUME NEW start \in [Nat -> Nat], SpoolFits(start)
        PROVE  SpoolFits(start)'
    <3>1. start[uploader.sequence] \in Nat
      BY <1>1 DEF LogsType
    <3> QED BY <1>1, <1>2, <2>1, <2>3, <3>1 DEF SpoolFits
  <2> QED BY <1>2, <2>1, <2>2, <2>3, WritingInv
<1>3. ASSUME NEW n \in WriteSizes, Logs!Write(n)
      PROVE  LogsInv'
  <2>1. /\ writer.at = "run" /\ output' = output + n /\ n \in Nat
        /\ UNCHANGED <<uploader, net, chunks, synced, latest, retention, outcome, follower>>
    BY <1>3 DEF Logs!Write, Logs!store
  <2>2. CASE Logs!GivesUp
    <3>1. UNCHANGED <<spool, writer>>
      BY <1>3, <2>2 DEF Logs!Write
    <3>2. writer' \in [at : {"run"}, left : {0}, stopped : BOOLEAN]
      BY <1>1, <2>1, <3>1 DEF LogsType
    <3> QED BY <1>1, <1>2, <2>1, <2>2, <3>1, <3>2
  <2>3. CASE ~Logs!GivesUp
    <3>1. Logs!Put(output + 1, n)
      BY <1>3, <2>3 DEF Logs!Write
    <3>2. output + 1 = output' - n + 1 /\ output' + writer.left = output + n /\ output' >= output /\ output' \in Nat
      BY <1>1, <2>1
    <3> QED BY <2>1, <2>3, <3>1, <3>2, PutInv
  <2> QED BY <2>2, <2>3
<1>4. CASE Logs!WriteResumes
  <2>1. /\ writer.at = "blocked" /\ output' = output
        /\ UNCHANGED <<uploader, net, chunks, synced, latest, retention, outcome, follower>>
    BY <1>4 DEF Logs!WriteResumes, Logs!store
  <2>2. CASE Logs!GivesUp
    <3>1. writer' = [writer EXCEPT !.at = "run", !.left = 0] /\ UNCHANGED spool
      BY <1>4, <2>2 DEF Logs!WriteResumes
    <3>2. writer' \in [at : {"run"}, left : {0}, stopped : BOOLEAN]
      BY <1>1, <3>1 DEF LogsType
    <3> QED BY <1>1, <1>2, <2>1, <2>2, <3>1, <3>2
  <2>3. CASE ~Logs!GivesUp
    <3>1. Logs!Put(output - writer.left + 1, writer.left)
      BY <1>4, <2>3 DEF Logs!WriteResumes
    <3>2. output - writer.left + 1 = output' - writer.left + 1 /\ output' + writer.left = output + writer.left
          /\ output' >= output /\ output' \in Nat
      BY <1>1, <2>1
    <3> QED BY <1>1, <2>1, <2>3, <3>1, <3>2, PutInv
  <2> QED BY <2>2, <2>3
<1> QED BY <1>3, <1>4

-----------------------------------------------------------------------------
(* The chunk the uploader takes is what follows the last one in the output. *)
LEMMA NextChunkFacts ==
    ASSUME LogsInv, NEW start \in [Nat -> Nat], SpoolFits(start), NEW L \in Nat, L = Logs!Length
    PROVE  /\ Logs!NextChunk \in LogChunk /\ L <= Logs!Pending
           /\ Logs!NextChunk.sequence = uploader.sequence /\ Logs!NextChunk.complete = Logs!Complete
           /\ Logs!NextChunk.data = [i \in 1..L |-> start[uploader.sequence] + i]
           /\ Len(Logs!NextChunk.data) = L
<1> USE SpoolAssumption
<1>1. PICK b \in Nat, e \in Nat, a \in Nat, q \in Nat :
          b = start[uploader.sequence] /\ e = Logs!Pending /\ a = spool.acknowledged /\ q = uploader.sequence
  <2>1. uploader.sequence \in Nat
    BY DEF LogsInv, LogsType
  <2> QED BY <2>1, PendingFacts DEF LogsInv
<1>2. L <= e
  BY <1>1, LesserOf DEF Logs!Length
<1>3. PICK data : data = [i \in 1..L |-> spool.ring[(a + i - 1) % SpoolBytes]]
  OBVIOUS
<1>4. ASSUME NEW i \in 1..L
      PROVE  data[i] = b + i
  <2>1. PICK p \in 0..e - 1 : p = i - 1 /\ i = p + 1
    BY <1>2
  <2>2. spool.ring[(a + p) % SpoolBytes] = b + p + 1
    BY <1>1 DEF SpoolFits
  <2>3. a + i - 1 = a + p /\ b + p + 1 = b + i
    BY <2>1
  <2>4. data[i] = spool.ring[(a + i - 1) % SpoolBytes]
    BY <1>3
  <2> QED BY <2>2, <2>3, <2>4
<1>5. data = [i \in 1..L |-> b + i]
  <2>1. data = [i \in 1..L |-> data[i]]
    BY <1>3
  <2> QED BY <1>4, <2>1
<1>6. data \in Seq(Nat) /\ Len(data) = L
  <2>1. \A i \in 1..L : b + i \in Nat
    OBVIOUS
  <2>2. data \in [1..L -> Nat]
    BY <1>5, <2>1
  <2> QED BY <2>2
<1>7. PICK c \in BOOLEAN : c = Logs!Complete
  BY DEF Logs!Complete, Logs!Finished, Logs!Closing, LogsInv, LogsType
<1>8. Logs!NextChunk = [sequence |-> q, data |-> data, complete |-> c]
  BY <1>1, <1>3, <1>7, Zenon DEF Logs!NextChunk
<1> QED BY <1>1, <1>2, <1>5, <1>6, <1>7, <1>8 DEF LogChunk

LEMMA TakeChunkStep ==
    ASSUME LogsInv, NEW flush \in BOOLEAN, Logs!TakeChunk(flush)
    PROVE  LogsInv'
<1> USE SpoolAssumption
<1>1. PICK cut \in [Nat -> LogChunk], start \in [Nat -> Nat], taken \in Nat : LogFits(cut, start, taken)
  BY DEF LogsInv
<1>2. PICK q \in Nat : q = uploader.sequence /\ taken = q
  <2>1. uploader.sequence \in Nat
    BY DEF LogsInv, LogsType
  <2> QED BY <1>1, <2>1 DEF LogFits, TakenFits, Logs!TakeChunk
<1>3. PICK L \in Nat, b \in Nat, e \in Nat : L = Logs!Length /\ b = start[q] /\ e = Logs!Pending
  <2>1. Logs!Pending \in Nat
    BY PendingFacts DEF LogsInv
  <2> QED BY <2>1, LesserOf DEF Logs!Length
<1>4. PICK c \in LogChunk : c = Logs!NextChunk
  BY <1>1, <1>3, NextChunkFacts DEF LogFits
<1>5. /\ c.sequence = q /\ c.complete = Logs!Complete /\ c.data = [i \in 1..L |-> b + i] /\ Len(c.data) = L
      /\ L <= e
  <2>1. SpoolFits(start)
    BY <1>1 DEF LogFits
  <2>2. /\ L <= Logs!Pending
        /\ Logs!NextChunk.sequence = uploader.sequence /\ Logs!NextChunk.complete = Logs!Complete
        /\ Logs!NextChunk.data = [i \in 1..L |-> start[uploader.sequence] + i]
        /\ Len(Logs!NextChunk.data) = L
    BY <1>3, <2>1, NextChunkFacts
  <2> QED BY <1>2, <1>3, <1>4, <2>2, Zenon
<1>6. PICK l \in BOOLEAN : l = Logs!Finished
  BY DEF Logs!Finished, Logs!Closing
<1>7. /\ uploader.at = "select" /\ ~uploader.err
      /\ uploader' = [uploader EXCEPT !.at = "send", !.chunk = c, !.last = l]
      /\ UNCHANGED <<output, spool, writer, net, chunks, synced, latest, retention, outcome, follower>>
  BY <1>4, <1>6 DEF Logs!TakeChunk, Logs!store
<1>8. /\ uploader' \in UploaderState
      /\ uploader'.at = "send" /\ uploader'.chunk = c /\ uploader'.last = l /\ uploader'.sequence = q
      /\ uploader'.attempt = uploader.attempt /\ uploader'.err = uploader.err /\ uploader'.discard = uploader.discard
  BY <1>2, <1>7 DEF LogsInv, LogsType, UploaderState
<1>9. /\ Logs!Pending' = Logs!Pending /\ (Logs!GivesUp' <=> Logs!GivesUp) /\ (Logs!Closing' <=> Logs!Closing)
  BY <1>7, <1>8 DEF Logs!Pending, Logs!GivesUp, Logs!Closing
<1>10. LogsType' /\ EndsFit'
  <2>1. LogsType'
    BY <1>7, <1>8, <1>9, Zenon DEF LogsInv, LogsType, UploaderState
  <2>2. EndsFit'
    BY <1>7, <1>8 DEF LogsInv, EndsFit
  <2> QED BY <2>1, <2>2
<1>11. PICK cut2, start2, taken2 :
           /\ cut2 = [cut EXCEPT ![q] = c] /\ start2 = [start EXCEPT ![q + 1] = b + L] /\ taken2 = q + 1
           /\ taken2 \in Nat
  <2>1. q + 1 \in Nat
    OBVIOUS
  <2> QED BY <2>1, Zenon
<1>12. /\ cut2 \in [Nat -> LogChunk] /\ start2 \in [Nat -> Nat]
       /\ cut2[q] = c /\ start2[q + 1] = b + L /\ start2[q] = b
       /\ \A s \in 0..q - 1 : cut2[s] = cut[s] /\ start2[s] = start[s] /\ start2[s + 1] = start[s + 1]
  BY <1>3, <1>11
<1>13. CutFits(cut2, start2, taken2)'
  <2>1. start2[0] = 0
    <3>1. start[0] = 0 /\ q + 1 # 0
      BY <1>1 DEF LogFits, CutFits
    <3> QED BY <1>11, <3>1
  <2>2. ASSUME NEW s \in 0..q - 1
        PROVE  ChunkFits(cut2, start2, s)' /\ LastFits(cut2, start2, taken2, s)'
    <3>1. ChunkFits(cut, start, s) /\ LastFits(cut, start, taken, s)
      BY <1>1, <1>2 DEF LogFits, CutFits
    <3>2. cut2[s] = cut[s] /\ start2[s] = start[s] /\ start2[s + 1] = start[s + 1] /\ output' = output
      BY <1>7, <1>12
    <3>3. ChunkFits(cut2, start2, s)'
      BY <3>1, <3>2, Zenon DEF ChunkFits
    <3>4. ~cut2[s].complete
      BY <1>7, <3>1, <3>2, Zenon DEF LastFits
    <3> QED BY <3>3, <3>4 DEF LastFits
  <2>3. ChunkFits(cut2, start2, q)'
    <3>1. b + L <= output'
      <4>1. b + e <= output /\ output \in Nat
        BY <1>1, <1>2, <1>3 DEF LogFits, SpoolFits, LogsInv, LogsType
      <4> QED BY <1>5, <1>7, <4>1
    <3>2. cut2[q].data = [i \in 1..L |-> b + i]
      BY <1>5, <1>12
    <3> QED BY <1>5, <1>12, <3>1, <3>2, Zenon DEF ChunkFits
  <2>4. LastFits(cut2, start2, taken2, q)'
    <3> SUFFICES ASSUME c.complete
                 PROVE  start2[q + 1] = output' /\ Logs!Closing' /\ taken2 = q + 1 /\ uploader'.at # "select"
      BY <1>12 DEF LastFits
    <3>1. Logs!Finished /\ ~uploader.discard
      BY <1>5 DEF Logs!Complete
    <3>2. Logs!Closing /\ L = e
      BY <1>3, <3>1 DEF Logs!Finished
    <3>3. writer.left = 0 /\ ~Logs!GivesUp
      BY <1>7, <3>1, <3>2 DEF Logs!Closing, Logs!GivesUp, LogsInv, EndsFit
    <3>4. b + e + 0 = output
      BY <1>1, <1>2, <1>3, <3>3 DEF LogFits, SpoolFits
    <3>5. b + L = output'
      BY <1>7, <3>2, <3>4
    <3> QED BY <1>8, <1>9, <1>11, <1>12, <3>2, <3>5
  <2>5. \A s \in 0..taken2 - 1 : s \in 0..q - 1 \/ s = q
    BY <1>11
  <2> QED BY <2>1, <2>2, <2>3, <2>4, <2>5, Zenon DEF CutFits
<1>14. TakenFits(taken2)' /\ SpoolFits(start2)'
  <2>1. TakenFits(taken2)'
    BY <1>8, <1>11 DEF TakenFits
  <2>2. start2[uploader'.sequence] = start[uploader.sequence]
    BY <1>2, <1>3, <1>8, <1>12
  <2> QED BY <1>1, <1>7, <1>9, <2>1, <2>2 DEF LogFits, SpoolFits
<1>15. UploaderFits(cut2)'
  <2>1. uploader'.chunk = cut2[uploader'.sequence] /\ Len(uploader'.chunk.data) <= Logs!Pending'
    BY <1>3, <1>5, <1>8, <1>9, <1>12
  <2>2. uploader'.chunk.complete <=> (uploader'.last /\ ~uploader'.discard)
    <3>1. Logs!Complete <=> (l /\ ~uploader.discard)
      BY <1>6 DEF Logs!Complete
    <3>2. PICK x : x = Logs!Complete
      OBVIOUS
    <3>3. uploader'.chunk.complete = x /\ uploader'.last = l /\ uploader'.discard = uploader.discard
      BY <1>5, <1>8, <3>2
    <3>4. x <=> (l /\ ~uploader.discard)
      BY <3>1, <3>2
    <3> QED BY <3>3, <3>4
  <2> QED BY <1>8, <2>1, <2>2 DEF UploaderFits
<1>16. NetFits(cut2, taken2)'
  <2> SUFFICES ASSUME NEW m \in net
               PROVE  /\ m.chunk.sequence < taken2 /\ m.chunk = cut2[m.chunk.sequence]
                      /\ m.attempt <= uploader'.attempt
                      /\ m.attempt = uploader'.attempt =>
                            uploader'.at # "select" /\ m.chunk.sequence = uploader'.sequence
    BY <1>7 DEF NetFits
  <2>1. m.chunk.sequence \in Nat
    BY DEF LogsInv, LogsType, Upload, LogChunk
  <2>2. /\ m.chunk.sequence < q /\ m.chunk = cut[m.chunk.sequence] /\ m.attempt <= uploader.attempt
        /\ m.attempt # uploader.attempt
    BY <1>1, <1>2, <1>7 DEF LogFits, NetFits
  <2>3. m.chunk.sequence \in 0..q - 1
    BY <2>1, <2>2
  <2> QED BY <1>8, <1>11, <1>12, <2>2, <2>3
<1>17. StoreFits(cut2, taken2)'
  <2>1. PICK n \in 0..q, k \in 0..q :
          /\ DOMAIN chunks = 0..n - 1 /\ \A s \in 0..n - 1 : chunks[s] = cut[s]
          /\ latest # Logs!NoRecord => latest.next = n
          /\ synced = 0..k - 1 /\ k <= n
          /\ retention.over => retention.ever
          /\ ~retention.ever => uploader.sequence <= k
    BY <1>1, <1>2 DEF LogFits, StoreFits
  <2>2. n \in 0..taken2 /\ k \in 0..taken2 /\ \A s \in 0..n - 1 : s \in 0..q - 1
    BY <1>11
  <2>3. \A s \in 0..n - 1 : chunks[s] = cut2[s]
    BY <1>12, <2>1, <2>2
  <2>4. uploader'.at # "answer" /\ uploader'.sequence = uploader.sequence
    BY <1>2, <1>8
  <2>5. /\ DOMAIN chunks' = 0..n - 1 /\ \A s \in 0..n - 1 : chunks'[s] = cut2[s]
        /\ latest' # Logs!NoRecord => latest'.next = n
        /\ synced' = 0..k - 1 /\ k <= n
        /\ retention'.over => retention'.ever
        /\ ~retention'.ever => uploader'.sequence <= k
        /\ ~retention'.ever /\ uploader'.at = "answer" /\ uploader'.answer = "ok" => uploader'.sequence < k
    BY <1>7, <2>1, <2>3, <2>4, Zenon
  <2> QED BY <2>2, <2>5, Zenon DEF StoreFits
<1>18. FollowerFits(cut2, taken2)'
  <2>1. follower.sequence \in Nat /\ follower.sequence <= q
    BY <1>1, <1>2 DEF LogFits, FollowerFits, LogsInv, LogsType
  <2>2. follower.sequence <= taken2 /\ \A s \in 0..follower.sequence - 1 : s \in 0..q - 1
    BY <1>11, <2>1
  <2>3. follower.at # "whole" => \A s \in 0..follower.sequence - 1 : ~cut2[s].complete
    <3>1. follower.at # "whole" => \A s \in 0..follower.sequence - 1 : ~cut[s].complete
      BY <1>1 DEF LogFits, FollowerFits
    <3> QED BY <1>12, <2>2, <3>1
  <2>4. Logs!IncompleteIsTrue'
    BY <1>1, <1>7, <1>9 DEF LogFits, FollowerFits, Logs!IncompleteIsTrue
  <2> QED BY <1>7, <2>2, <2>3, <2>4 DEF FollowerFits
<1> QED BY <1>10, <1>11, <1>12, <1>13, <1>14, <1>15, <1>16, <1>17, <1>18 DEF LogsInv, LogFits

-----------------------------------------------------------------------------
(* An acknowledged chunk leaves the ring.                                  *)
LEMMA AcknowledgeStep ==
    ASSUME LogsInv, Logs!Acknowledge
    PROVE  LogsInv'
<1>1. PICK cut \in [Nat -> LogChunk], start \in [Nat -> Nat], taken \in Nat : LogFits(cut, start, taken)
  BY DEF LogsInv
<1>2. PICK q \in Nat, t \in Nat : q = uploader.sequence /\ taken = q + 1 /\ t = uploader.attempt
  <2>1. uploader.sequence \in Nat /\ uploader.attempt \in Nat
    BY DEF LogsInv, LogsType
  <2> QED BY <1>1, <2>1 DEF LogFits, TakenFits, Logs!Acknowledge
<1>3. PICK b \in Nat, e \in Nat, a \in Nat, w \in Nat, S \in Nat :
          /\ b = start[q] /\ e = Logs!Pending /\ a = spool.acknowledged /\ w = spool.written /\ S = SpoolBytes
          /\ w = a + e /\ e <= S
  BY SpoolAssumption, PendingFacts DEF LogsInv
<1>0. PICK ring : ring \in [0..SpoolBytes - 1 -> Nat] /\ spool = [ring |-> ring, written |-> w, acknowledged |-> a]
  <2>1. spool = [ring |-> spool.ring, written |-> spool.written, acknowledged |-> spool.acknowledged]
        /\ spool.ring \in [0..SpoolBytes - 1 -> Nat]
    BY DEF LogsInv, LogsType
  <2> QED BY <1>3, <2>1
<1>4. PICK L \in Nat : L = Len(uploader.chunk.data)
  BY DEF LogsInv, LogsType, LogChunk
<1>5. /\ uploader.at = "answer" /\ uploader.answer = "ok"
      /\ uploader' = [uploader EXCEPT !.at = IF uploader.last THEN "done" ELSE "select", !.sequence = q + 1,
                                      !.attempt = t + 1, !.answer = "none"]
      /\ UNCHANGED <<output, writer, net, chunks, synced, latest, retention, outcome, follower>>
  BY <1>2 DEF Logs!Acknowledge, Logs!store
<1>6. /\ uploader.chunk = cut[q] /\ L <= e
      /\ uploader.last /\ ~uploader.discard => uploader.chunk.complete
      /\ uploader.chunk.complete => uploader.last
  BY <1>1, <1>2, <1>3, <1>4, <1>5 DEF LogFits, UploaderFits
<1>7. start[q + 1] = b + L /\ b + L \in Nat
  <2>1. q \in 0..taken - 1
    BY <1>2
  <2>2. ChunkFits(cut, start, q)
    BY <1>1, <2>1 DEF LogFits, CutFits
  <2>3. start[q + 1] = start[q] + Len(cut[q].data)
    BY <2>2, Zenon DEF ChunkFits
  <2> QED BY <1>3, <1>4, <1>6, <2>3, SMTT(30)
<1>8. spool' = IF a + L = w THEN [ring |-> ring, written |-> 0, acknowledged |-> 0]
               ELSE [ring |-> ring, written |-> w, acknowledged |-> a + L]
  <2>1. spool' = IF a + L = w THEN [spool EXCEPT !.written = 0, !.acknowledged = 0]
                 ELSE [spool EXCEPT !.acknowledged = a + L]
    BY <1>3, <1>4, Zenon DEF Logs!Acknowledge
  <2>3. PICK y : y = a + L
    OBVIOUS
  <2>5. spool = [ring |-> ring, written |-> w, acknowledged |-> a]
    BY <1>0, Zenon
  <2>6. PICK u : u = [spool EXCEPT !.written = 0]
    OBVIOUS
  <2>7. u = [ring |-> ring, written |-> 0, acknowledged |-> a]
    BY <2>5, <2>6
  <2>8. [u EXCEPT !.acknowledged = 0] = [ring |-> ring, written |-> 0, acknowledged |-> 0]
    BY <2>7
  <2>2. [spool EXCEPT !.written = 0, !.acknowledged = 0] = [ring |-> ring, written |-> 0, acknowledged |-> 0]
    BY <2>6, <2>8
  <2>4. [spool EXCEPT !.acknowledged = y] = [ring |-> ring, written |-> w, acknowledged |-> y]
    BY <2>5
  <2> QED BY <2>1, <2>2, <2>3, <2>4, Zenon
<1>9. PICK x \in Nat : x = e - L
  BY <1>6
<1>10. /\ spool' \in [ring : [0..SpoolBytes - 1 -> Nat], written : Nat, acknowledged : Nat]
       /\ spool'.ring = ring /\ spool'.acknowledged <= spool'.written /\ Logs!Pending' = x
       /\ x > 0 => spool'.acknowledged = a + L
  <2>1. CASE a + L = w
    <3>1. x = 0
      BY ONLY <1>3, <1>9, <2>1, a \in Nat, e \in Nat, L \in Nat, w \in Nat
    <3>2. spool' = [ring |-> ring, written |-> 0, acknowledged |-> 0]
      BY <1>8, <2>1, Zenon
    <3> QED BY <1>0, <3>1, <3>2 DEF Logs!Pending
  <2>2. CASE a + L # w
    <3>1. PICK y \in Nat : y = a + L
      OBVIOUS
    <3>2. spool' = [ring |-> ring, written |-> w, acknowledged |-> y]
      BY <1>8, <2>2, <3>1
    <3>3. w - y = x /\ y <= w
      <4>1. a \in Nat /\ e \in Nat /\ L \in Nat /\ w \in Nat /\ w = a + e /\ L <= e /\ y = a + L
        BY <1>3, <1>6, <3>1
      <4> QED BY ONLY <1>9, <4>1
    <3> QED BY <1>0, <3>1, <3>2, <3>3 DEF Logs!Pending
  <2> QED BY <2>1, <2>2
<1>11. /\ uploader' \in UploaderState
       /\ uploader'.at = IF uploader.last THEN "done" ELSE "select"
       /\ uploader'.sequence = q + 1 /\ uploader'.attempt = t + 1 /\ uploader'.answer = "none"
       /\ uploader'.chunk = uploader.chunk /\ uploader'.last = uploader.last
       /\ uploader'.err = uploader.err /\ uploader'.discard = uploader.discard
  <2>1. PICK u \in {"done", "select"}, r \in Nat, v \in Nat :
            u = (IF uploader.last THEN "done" ELSE "select") /\ r = q + 1 /\ v = t + 1
    OBVIOUS
  <2>2. uploader \in UploaderState
    BY DEF LogsInv, LogsType, UploaderState
  <2>3. uploader' = [uploader EXCEPT !.at = u, !.sequence = r, !.attempt = v, !.answer = "none"]
    BY <1>5, <2>1
  <2> QED BY <2>1, <2>2, <2>3 DEF UploaderState
<1>12. (Logs!GivesUp' <=> Logs!GivesUp) /\ (Logs!Closing' <=> Logs!Closing)
  BY <1>5, <1>11 DEF Logs!GivesUp, Logs!Closing
<1>13. LogsType' /\ EndsFit'
  <2>1. x <= SpoolBytes
    <3>1. e \in Nat /\ L \in Nat /\ S \in Nat /\ e <= S
      BY <1>3
    <3>2. x <= S
      BY ONLY <1>9, <3>1
    <3> QED BY <1>3, <3>2
  <2>2. LogsType'
    BY <1>5, <1>10, <1>11, <2>1, Zenon DEF LogsInv, LogsType, UploaderState
  <2>3. EndsFit'
    BY <1>5, <1>11 DEF LogsInv, EndsFit
  <2> QED BY <2>2, <2>3
<1>14. CutFits(cut, start, taken)'
  <2>1. start[0] = 0
    BY <1>1 DEF LogFits, CutFits
  <2>2. ASSUME NEW s \in 0..taken - 1
        PROVE  ChunkFits(cut, start, s)' /\ LastFits(cut, start, taken, s)'
    <3>1. ChunkFits(cut, start, s) /\ LastFits(cut, start, taken, s)
      BY <1>1 DEF LogFits, CutFits
    <3>2. ChunkFits(cut, start, s)'
      BY <1>5, <3>1, Zenon DEF ChunkFits
    <3>3. cut[s].complete => uploader'.at # "select"
      <4> SUFFICES ASSUME cut[s].complete
                   PROVE  uploader'.at # "select"
        OBVIOUS
      <4>1. s = q
        BY <1>2, <3>1 DEF LastFits
      <4> QED BY <1>6, <1>11, <4>1
    <3> QED BY <1>5, <1>12, <3>1, <3>2, <3>3 DEF LastFits
  <2> QED BY <2>1, <2>2 DEF CutFits
<1>15. TakenFits(taken)'
  BY <1>2, <1>11 DEF TakenFits
<1>16. SpoolFits(start)'
  <2>1. /\ \A p \in 0..e - 1 : ring[(a + p) % SpoolBytes] = b + p + 1
        /\ b + e <= output /\ (~Logs!GivesUp => b + e + writer.left = output)
    <3>1. spool.ring = ring
      BY <1>0
    <3> QED BY <1>1, <1>2, <1>3, <3>1, Zenon DEF LogFits, SpoolFits
  <2>2. start[uploader'.sequence] = b + L /\ b + L + x = b + e
    BY <1>6, <1>7, <1>9, <1>11
  <2>3. ASSUME NEW p \in 0..x - 1
        PROVE  spool'.ring[(spool'.acknowledged + p) % SpoolBytes] = b + L + p + 1
    <3>1. PICK o \in 0..e - 1 : o = L + p
      BY <1>6, <1>9
    <3>2. ring[(a + o) % SpoolBytes] = b + o + 1
      BY <2>1
    <3>3. a + o = (a + L) + p /\ b + o + 1 = b + L + p + 1 /\ x > 0
      BY <3>1
    <3> QED BY <1>10, <3>2, <3>3
  <2>4. \A p \in 0..Logs!Pending' - 1 :
            spool'.ring[(spool'.acknowledged + p) % SpoolBytes] = start[uploader'.sequence] + p + 1
    BY <1>10, <2>2, <2>3
  <2>5. start[uploader'.sequence] + Logs!Pending' = b + e
    BY <1>10, <2>2
  <2> QED BY <1>5, <1>12, <2>1, <2>4, <2>5 DEF SpoolFits
<1>17. UploaderFits(cut)'
  <2>1. uploader'.at \notin {"send", "answer"}
    BY <1>11
  <2>2. ASSUME uploader'.at = "done", ~Logs!GivesUp'
        PROVE  uploader'.sequence > 0 /\ cut[uploader'.sequence - 1].complete
    <3>1. uploader.last /\ ~uploader.discard
      BY <1>11, <2>2 DEF Logs!GivesUp
    <3>2. cut[q].complete
      BY <1>6, <3>1
    <3>3. uploader'.sequence > 0 /\ uploader'.sequence - 1 = q
      BY <1>11
    <3> QED BY <3>2, <3>3
  <2> QED BY <2>1, <2>2 DEF UploaderFits
<1>18. NetFits(cut, taken)'
  <2> SUFFICES ASSUME NEW m \in net
               PROVE  /\ m.chunk.sequence < taken /\ m.chunk = cut[m.chunk.sequence]
                      /\ m.attempt <= uploader'.attempt /\ m.attempt # uploader'.attempt
    BY <1>5 DEF NetFits
  <2>1. m.attempt \in Nat
    BY DEF LogsInv, LogsType, Upload
  <2> QED BY <1>1, <1>2, <1>11, <2>1 DEF LogFits, NetFits
<1>19. StoreFits(cut, taken)'
  <2>1. PICK n \in 0..taken, k \in 0..taken :
          /\ DOMAIN chunks = 0..n - 1 /\ \A s \in 0..n - 1 : chunks[s] = cut[s]
          /\ latest # Logs!NoRecord => latest.next = n
          /\ synced = 0..k - 1 /\ k <= n
          /\ retention.over => retention.ever
          /\ ~retention.ever /\ uploader.at = "answer" /\ uploader.answer = "ok" => uploader.sequence < k
    BY <1>1 DEF LogFits, StoreFits
  <2>2. ~retention.ever => uploader'.sequence <= k
    <3>1. ~retention.ever => q < k
      BY <1>2, <1>5, <2>1, Zenon
    <3>2. q < k => q + 1 <= k
      OBVIOUS
    <3> QED BY <1>5, <1>11, <3>1, <3>2, Zenon
  <2>3. uploader'.answer # "ok"
    BY <1>11
  <2>5. /\ DOMAIN chunks' = 0..n - 1 /\ \A s \in 0..n - 1 : chunks'[s] = cut[s]
        /\ latest' # Logs!NoRecord => latest'.next = n
        /\ synced' = 0..k - 1 /\ k <= n
        /\ retention'.over => retention'.ever
        /\ ~retention'.ever => uploader'.sequence <= k
        /\ ~retention'.ever /\ uploader'.at = "answer" /\ uploader'.answer = "ok" => uploader'.sequence < k
    BY <1>5, <2>1, <2>2, <2>3, Zenon
  <2> QED BY <2>5, Zenon DEF StoreFits
<1>20. FollowerFits(cut, taken)'
  BY <1>1, <1>5, <1>12 DEF LogFits, FollowerFits, Logs!IncompleteIsTrue
<1> QED BY <1>13, <1>14, <1>15, <1>16, <1>17, <1>18, <1>19, <1>20 DEF LogsInv, LogFits

-----------------------------------------------------------------------------
(* A step of the service: the runner only receives an answer.              *)
LEMMA ServiceInv ==
    ASSUME LogsInv, UNCHANGED <<output, spool, writer, outcome, follower>>, net' \subseteq net,
           uploader' \in UploaderState,
           /\ uploader'.at = uploader.at /\ uploader'.chunk = uploader.chunk /\ uploader'.last = uploader.last
           /\ uploader'.sequence = uploader.sequence /\ uploader'.attempt = uploader.attempt
           /\ uploader'.err = uploader.err /\ uploader'.discard = uploader.discard,
           retention' \in [over : BOOLEAN, ever : BOOLEAN], retention.ever => retention'.ever,
           \A cut \in [Nat -> LogChunk], taken \in Nat :
               NetFits(cut, taken) /\ StoreFits(cut, taken) => StoreFits(cut, taken)'
    PROVE  LogsInv'
<1>1. PICK cut \in [Nat -> LogChunk], start \in [Nat -> Nat], taken \in Nat : LogFits(cut, start, taken)
  BY DEF LogsInv
<1>2. Logs!Pending' = Logs!Pending /\ (Logs!GivesUp' <=> Logs!GivesUp) /\ (Logs!Closing' <=> Logs!Closing)
  BY DEF Logs!Pending, Logs!GivesUp, Logs!Closing
<1>3. LogsType'
  <2>1. net' \subseteq Upload /\ LogsType
    BY DEF LogsInv, LogsType
  <2>2. output' = output /\ spool' = spool /\ writer' = writer /\ follower' = follower
    OBVIOUS
  <2> QED BY <1>2, <2>1, <2>2, Zenon DEF LogsType, UploaderState
<1>4. EndsFit'
  BY DEF LogsInv, EndsFit
<1>5. CutFits(cut, start, taken)' /\ TakenFits(taken)' /\ SpoolFits(start)' /\ UploaderFits(cut)'
  <2>1. CutFits(cut, start, taken)' /\ TakenFits(taken)'
    BY <1>1, <1>2 DEF LogFits, CutFits, ChunkFits, LastFits, TakenFits
  <2>2. SpoolFits(start)' /\ UploaderFits(cut)'
    BY <1>1, <1>2 DEF LogFits, SpoolFits, UploaderFits
  <2> QED BY <2>1, <2>2
<1>6. NetFits(cut, taken)'
  BY <1>1 DEF LogFits, NetFits
<1>7. StoreFits(cut, taken)'
  BY <1>1 DEF LogFits
<1>8. FollowerFits(cut, taken)'
  BY <1>1, <1>2 DEF LogFits, FollowerFits, Logs!IncompleteIsTrue
<1> QED BY <1>1, <1>3, <1>4, <1>5, <1>6, <1>7, <1>8 DEF LogsInv, LogFits

LEMMA AnswerFacts ==
    ASSUME LogsInv, NEW m \in net, NEW a \in {"none", "ok", "failed", "refused"}, Logs!Answer(m, a)
    PROVE  /\ net' \subseteq net /\ uploader' \in UploaderState
           /\ uploader'.at = uploader.at /\ uploader'.chunk = uploader.chunk /\ uploader'.last = uploader.last
           /\ uploader'.sequence = uploader.sequence /\ uploader'.attempt = uploader.attempt
           /\ uploader'.err = uploader.err /\ uploader'.discard = uploader.discard
           /\ uploader'.answer # uploader.answer =>
                  uploader'.answer = a /\ uploader.at = "answer" /\ m.attempt = uploader.attempt
<1>1. uploader \in UploaderState
  BY DEF LogsInv, LogsType, UploaderState
<1>2. net' \subseteq net
  BY DEF Logs!Answer
<1>3. CASE Logs!Current(m)
  <2>1. uploader' = [uploader EXCEPT !.answer = a]
    BY <1>3 DEF Logs!Answer
  <2>2. /\ uploader' \in UploaderState
        /\ uploader'.at = uploader.at /\ uploader'.chunk = uploader.chunk /\ uploader'.last = uploader.last
        /\ uploader'.sequence = uploader.sequence /\ uploader'.attempt = uploader.attempt
        /\ uploader'.err = uploader.err /\ uploader'.discard = uploader.discard /\ uploader'.answer = a
    BY <1>1, <2>1 DEF UploaderState
  <2> QED BY <1>2, <1>3, <2>2 DEF Logs!Current
<1>4. CASE ~Logs!Current(m)
  <2>1. uploader' = uploader
    BY <1>4 DEF Logs!Answer
  <2> QED BY <1>1, <1>2, <2>1
<1> QED BY <1>3, <1>4

(* The chunks the service has: n of them are stored, k are durable.        *)
Stored(cut, n, k) ==
    /\ DOMAIN chunks = 0..n - 1 /\ \A s \in 0..n - 1 : chunks[s] = cut[s]
    /\ latest # Logs!NoRecord => latest.next = n
    /\ synced = 0..k - 1 /\ k <= n
    /\ retention.over => retention.ever
    /\ ~retention.ever => uploader.sequence <= k
    /\ ~retention.ever /\ uploader.at = "answer" /\ uploader.answer = "ok" => uploader.sequence < k

LEMMA LastRecordNext ==
    ASSUME NEW cut, NEW n \in Nat, NEW k, Stored(cut, n, k)
    PROVE  Logs!LastRecord.next = n
<1>1. CASE latest # Logs!NoRecord
  BY <1>1 DEF Stored, Logs!LastRecord
<1>2. CASE latest = Logs!NoRecord /\ DOMAIN chunks = {}
  <2>1. n = 0
    <3>1. 0..n - 1 = {}
      BY <1>2 DEF Stored
    <3>2. n > 0 => 0 \in 0..n - 1
      OBVIOUS
    <3> QED BY <3>1, <3>2
  <2> QED BY <1>2, <2>1 DEF Logs!LastRecord, Logs!NoRecord
<1>3. CASE latest = Logs!NoRecord /\ DOMAIN chunks # {}
  <2>1. PICK h \in Nat : n = h + 1 /\ DOMAIN chunks = 0..h
    <3>1. DOMAIN chunks = 0..n - 1
      BY DEF Stored
    <3>2. n > 0
      BY <1>3, <3>1
    <3> QED BY <3>1, <3>2
  <2>2. Logs!Max(DOMAIN chunks) = h
    BY <2>1, GreatestOf
  <2>3. Logs!LastRecord.next = Logs!Max(DOMAIN chunks) + 1
    BY <1>3 DEF Logs!LastRecord
  <2> QED BY <2>1, <2>2, <2>3
<1> QED BY <1>1, <1>2, <1>3

LEMMA AppendStep ==
    ASSUME LogsInv, NEW m \in net, Logs!AppendChunk(m)
    PROVE  LogsInv'
<1> DEFINE c == m.chunk
           stored == [s \in DOMAIN chunks \cup {c.sequence} |-> IF s = c.sequence THEN c ELSE chunks[s]]
           Fresh == m.chunk.sequence = Logs!LastRecord.next
           Known == m.chunk.sequence \in DOMAIN chunks
           Seen == chunks' = chunks /\ synced' = synced /\ latest' = Logs!LastRecord /\ retention' = retention
           Found == chunks' = chunks /\ synced' = DOMAIN chunks /\ latest' = Logs!LastRecord /\ retention' = retention
           Adds == chunks' = stored /\ synced' = DOMAIN stored /\ latest'.next = c.sequence + 1
                   /\ retention' = [retention EXCEPT !.over = FALSE]
           Tears == chunks' = stored /\ synced' = synced /\ latest' = Logs!NoRecord
                    /\ retention' = [retention EXCEPT !.over = FALSE]
<1>1. PICK a \in {"none", "ok", "failed", "refused"} :
          /\ Logs!Answer(m, a)
          /\ \/ a # "ok" /\ Seen
             \/ Known /\ Found
             \/ Fresh /\ Adds
             \/ a # "ok" /\ Fresh /\ Tears
  <2> DEFINE Outcome(a) == /\ Logs!Answer(m, a)
                           /\ \/ a # "ok" /\ Seen
                              \/ Known /\ Found
                              \/ Fresh /\ Adds
                              \/ a # "ok" /\ Fresh /\ Tears
  <2>1. CASE Logs!AppendStored(m) /\ Known /\ UNCHANGED <<chunks, retention>>
    <3>1. \/ synced' = DOMAIN chunks /\ Logs!Answer(m, "ok")
          \/ Logs!Answer(m, "failed") /\ UNCHANGED synced
      BY <2>1 DEF Logs!AppendStored
    <3>2. latest' = Logs!LastRecord
      BY <2>1 DEF Logs!AppendStored
    <3>3. Outcome("ok") \/ Outcome("failed")
      BY <2>1, <3>1, <3>2
    <3> QED BY <3>3
  <2>2. CASE Logs!AppendNew(m) /\ Fresh
    <3>1. \/ /\ chunks' = stored /\ synced' = DOMAIN stored
             /\ latest' = [next |-> c.sequence + 1, bytes |-> Logs!LastRecord.bytes + Len(c.data), complete |-> c.complete]
             /\ retention' = [retention EXCEPT !.over = FALSE] /\ Logs!Answer(m, "ok")
          \/ Logs!Answer(m, "failed") /\ (Seen \/ Tears)
      BY <2>2, Zenon DEF Logs!AppendNew
    <3>2. Outcome("ok") \/ Outcome("failed")
      <4>1. CASE Logs!Answer(m, "failed") /\ (Seen \/ Tears)
        BY <2>2, <4>1, Zenon
      <4>2. CASE /\ chunks' = stored /\ synced' = DOMAIN stored
                 /\ latest' = [next |-> c.sequence + 1, bytes |-> Logs!LastRecord.bytes + Len(c.data), complete |-> c.complete]
                 /\ retention' = [retention EXCEPT !.over = FALSE] /\ Logs!Answer(m, "ok")
        <5>1. latest'.next = c.sequence + 1
          BY <4>2
        <5> QED BY <2>2, <4>2, <5>1, Zenon
      <4> QED BY <3>1, <4>1, <4>2, Zenon
    <3> QED BY <3>2
  <2>3. CASE Logs!Answer(m, "failed") /\ Seen
    <3>1. Outcome("failed")
      BY <2>3, Zenon
    <3> QED BY <3>1
  <2>4. CASE Logs!Answer(m, "refused") /\ Seen
    <3>1. Outcome("refused")
      BY <2>4, Zenon
    <3> QED BY <3>1
  <2>5. \/ Logs!AppendStored(m) /\ Known /\ UNCHANGED <<chunks, retention>>
        \/ Logs!AppendNew(m) /\ Fresh
        \/ Logs!Answer(m, "failed") /\ Seen
        \/ Logs!Answer(m, "refused") /\ Seen
    BY Zenon DEF Logs!AppendChunk
  <2> QED BY <2>1, <2>2, <2>3, <2>4, <2>5, Zenon
<1>2. /\ net' \subseteq net /\ uploader' \in UploaderState
      /\ uploader'.at = uploader.at /\ uploader'.chunk = uploader.chunk /\ uploader'.last = uploader.last
      /\ uploader'.sequence = uploader.sequence /\ uploader'.attempt = uploader.attempt
      /\ uploader'.err = uploader.err /\ uploader'.discard = uploader.discard
      /\ uploader'.answer # uploader.answer =>
             uploader'.answer = a /\ uploader.at = "answer" /\ m.attempt = uploader.attempt
  BY <1>1, AnswerFacts
<1>3. /\ UNCHANGED <<output, spool, writer, outcome, follower>>
  BY DEF Logs!AppendChunk
<1>4. /\ retention' \in [over : BOOLEAN, ever : BOOLEAN] /\ retention'.ever = retention.ever
      /\ retention'.over => retention.over
  <2>1. retention \in [over : BOOLEAN, ever : BOOLEAN]
    BY DEF LogsInv, LogsType
  <2>2. retention' = retention \/ retention' = [retention EXCEPT !.over = FALSE]
    BY <1>1
  <2> QED BY <2>1, <2>2
<1> HIDE DEF c, stored, Fresh, Known, Seen, Found, Adds, Tears
<1>5. ASSUME NEW cut \in [Nat -> LogChunk], NEW taken \in Nat, NetFits(cut, taken), StoreFits(cut, taken)
      PROVE  StoreFits(cut, taken)'
  <2>1. PICK n \in 0..taken, k \in 0..taken : Stored(cut, n, k)
    BY <1>5 DEF StoreFits, Stored
  <2>2. PICK q \in Nat, s \in Nat : /\ q = uploader.sequence /\ s = m.chunk.sequence /\ s < taken
                                    /\ m.attempt = uploader.attempt => s = q
    <3>1. uploader.sequence \in Nat /\ m.chunk.sequence \in Nat
      BY DEF LogsInv, LogsType, Upload, LogChunk
    <3> QED BY <1>5, <3>1 DEF NetFits
  <2>11. m.chunk = cut[s]
    BY <1>5, <2>2 DEF NetFits
  <2>3. ASSUME NEW i \in Nat, NEW j \in 0..i, i <= taken,
               DOMAIN chunks' = 0..i - 1, \A r \in 0..i - 1 : chunks'[r] = cut[r],
               latest' # Logs!NoRecord => latest'.next = i, synced' = 0..j - 1, k <= j,
               a = "ok" => s < j
        PROVE  StoreFits(cut, taken)'
    <3>1. ~retention'.ever => q <= j
      <4>1. ~retention.ever => q <= k
        BY <2>1, <2>2, Zenon DEF Stored
      <4>2. k \in Nat /\ j \in Nat /\ k <= j
        BY <2>3
      <4>3. q <= k => q <= j
        BY <4>2
      <4> QED BY <1>4, <4>1, <4>3, Zenon
    <3>2. ~retention'.ever /\ uploader'.at = "answer" /\ uploader'.answer = "ok" => q < j
      <4> SUFFICES ASSUME ~retention'.ever, uploader'.at = "answer", uploader'.answer = "ok"
                   PROVE  q < j
        OBVIOUS
      <4>1. CASE uploader'.answer = uploader.answer
        <5>1. q < k
          BY <1>2, <1>4, <2>1, <2>2, <4>1, Zenon DEF Stored
        <5>2. k \in Nat /\ j \in Nat /\ k <= j
          BY <2>3
        <5> QED BY <5>1, <5>2
      <4>2. CASE uploader'.answer # uploader.answer
        <5>1. a = "ok" /\ s = q
          BY <1>2, <2>2, <4>2, Zenon
        <5> QED BY <2>3, <5>1, Zenon
      <4> QED BY <4>1, <4>2
    <3>3. retention'.over => retention'.ever
      BY <1>4, <2>1 DEF Stored
    <3>4. uploader'.sequence = q
      BY <1>2, <2>2
    <3>5. i \in 0..taken /\ j \in 0..taken /\ j <= i
      <4>1. i <= taken
        BY <2>3
      <4> QED BY ONLY <4>1, taken \in Nat, i \in Nat, j \in 0..i
    <3> QED BY <2>3, <3>1, <3>2, <3>3, <3>4, <3>5, Zenon DEF StoreFits
  <2>4. Logs!LastRecord.next = n
    BY <2>1, LastRecordNext
  <2>5. n \in Nat /\ k \in 0..n /\ n <= taken /\ DOMAIN chunks = 0..n - 1 /\ (\A r \in 0..n - 1 : chunks[r] = cut[r])
        /\ synced = 0..k - 1
    BY <2>1 DEF Stored
  <2>6. ASSUME chunks' = stored, Fresh
        PROVE  /\ s = n /\ n + 1 <= taken /\ DOMAIN stored = 0..n /\ (\A r \in 0..n : stored[r] = cut[r])
    <3>1. s = n /\ n + 1 <= taken
      <4>1. s = n
        BY <2>2, <2>4, <2>6, Zenon DEF Fresh
      <4>2. s < taken => s + 1 <= taken
        OBVIOUS
      <4> QED BY <2>2, <4>1, <4>2, Zenon
    <3>2. stored = [r \in DOMAIN chunks \cup {n} |-> IF r = n THEN cut[n] ELSE chunks[r]]
      BY <2>2, <2>11, <3>1, Zenon DEF stored, c
    <3>3. (0..n - 1) \cup {n} = 0..n
      BY <2>5
    <3>4. stored = [r \in 0..n |-> IF r = n THEN cut[n] ELSE chunks[r]]
      BY <2>5, <3>2, <3>3
    <3>5. \A r \in 0..n : r = n \/ r \in 0..n - 1
      BY <2>5
    <3> QED BY <2>5, <3>1, <3>4, <3>5
  <2>7. CASE a # "ok" /\ Seen
    <3>1. /\ DOMAIN chunks' = 0..n - 1 /\ (\A r \in 0..n - 1 : chunks'[r] = cut[r]) /\ synced' = 0..k - 1
          /\ latest'.next = n
      BY <2>4, <2>5, <2>7, Zenon DEF Seen
    <3>2. k <= k
      BY <2>5
    <3> QED BY <2>3, <2>5, <2>7, <3>1, <3>2, Zenon
  <2>8. CASE Known /\ Found
    <3>1. /\ DOMAIN chunks' = 0..n - 1 /\ (\A r \in 0..n - 1 : chunks'[r] = cut[r]) /\ synced' = 0..n - 1
          /\ latest'.next = n /\ s \in 0..n - 1
      BY <2>2, <2>4, <2>5, <2>8, Zenon DEF Known, Found
    <3>2. n \in 0..n /\ k <= n /\ s < n
      BY <2>5, <3>1
    <3> QED BY <2>3, <2>5, <3>1, <3>2, Zenon
  <2>9. CASE Fresh /\ Adds
    <3>1. chunks' = stored /\ synced' = DOMAIN stored /\ latest'.next = s + 1
      BY <2>2, <2>9, Zenon DEF Adds, c
    <3>2. /\ s = n /\ n + 1 <= taken /\ DOMAIN stored = 0..n /\ (\A r \in 0..n : stored[r] = cut[r])
      BY <2>6, <2>9, <3>1
    <3>3. PICK i \in Nat : i = n + 1 /\ i - 1 = n /\ s < i /\ k <= i /\ i \in 0..i
      BY <2>5, <3>2
    <3>4. DOMAIN chunks' = 0..i - 1 /\ synced' = 0..i - 1 /\ (\A r \in 0..i - 1 : chunks'[r] = cut[r])
          /\ latest'.next = i /\ i <= taken
      BY <3>1, <3>2, <3>3
    <3> QED BY <2>3, <3>3, <3>4
  <2>10. CASE a # "ok" /\ Fresh /\ Tears
    <3>1. chunks' = stored /\ synced' = synced /\ latest' = Logs!NoRecord
      BY <2>10 DEF Tears
    <3>2. /\ s = n /\ n + 1 <= taken /\ DOMAIN stored = 0..n /\ (\A r \in 0..n : stored[r] = cut[r])
      BY <2>6, <2>10, <3>1
    <3>3. PICK i \in Nat : i = n + 1 /\ i - 1 = n /\ k \in 0..i
      BY <2>5, <3>2
    <3>4. DOMAIN chunks' = 0..i - 1 /\ synced' = 0..k - 1 /\ (\A r \in 0..i - 1 : chunks'[r] = cut[r])
          /\ i <= taken /\ k <= k
      BY <2>5, <3>1, <3>2, <3>3
    <3> QED BY <2>3, <2>10, <3>1, <3>3, <3>4
  <2> QED BY <1>1, <2>7, <2>8, <2>9, <2>10, Zenon
<1>6. retention.ever => retention'.ever
  BY <1>4
<1> QED BY <1>2, <1>3, <1>4, <1>5, <1>6, ServiceInv

LEMMA ServiceStep ==
    ASSUME LogsInv, Logs!RetentionPasses \/ Logs!CleanupLogs \/ Logs!ServiceCrash
    PROVE  LogsInv'
<1>1. UNCHANGED <<output, spool, writer, uploader, net, outcome, follower>>
  BY DEF Logs!RetentionPasses, Logs!CleanupLogs, Logs!ServiceCrash
<1>2. uploader \in UploaderState /\ retention \in [over : BOOLEAN, ever : BOOLEAN]
  BY DEF LogsInv, LogsType, UploaderState
<1>3. /\ retention' \in [over : BOOLEAN, ever : BOOLEAN] /\ (retention.ever => retention'.ever)
      /\ retention'.over => retention.over \/ retention'.ever
  <2>1. CASE Logs!RetentionPasses
    BY <2>1 DEF Logs!RetentionPasses
  <2>2. CASE Logs!CleanupLogs
    BY <1>2, <2>2 DEF Logs!CleanupLogs
  <2>3. CASE Logs!ServiceCrash
    BY <1>2, <2>3 DEF Logs!ServiceCrash
  <2> QED BY <2>1, <2>2, <2>3
<1>4. ASSUME NEW cut \in [Nat -> LogChunk], NEW taken \in Nat, StoreFits(cut, taken)
      PROVE  StoreFits(cut, taken)'
  <2>1. PICK n \in 0..taken, k \in 0..taken : Stored(cut, n, k)
    BY <1>4 DEF StoreFits, Stored
  <2>2. /\ n \in Nat /\ k \in Nat /\ k <= n /\ n <= taken
        /\ DOMAIN chunks = 0..n - 1 /\ (\A r \in 0..n - 1 : chunks[r] = cut[r]) /\ synced = 0..k - 1
    BY <2>1 DEF Stored
  <2>3. ASSUME NEW i \in 0..taken,
               Stored(cut, n, k) => Stored(cut, i, k)'
        PROVE  StoreFits(cut, taken)'
    <3>1. Stored(cut, i, k)'
      BY <2>1, <2>3
    <3> QED BY <3>1, Zenon DEF StoreFits, Stored
  <2>4. CASE Logs!RetentionPasses
    <3>1. retention' = [over |-> TRUE, ever |-> TRUE] /\ UNCHANGED <<chunks, synced, latest>>
      BY <2>4 DEF Logs!RetentionPasses
    <3>2. Stored(cut, n, k)'
      BY <2>1, <3>1 DEF Stored
    <3> QED BY <2>3, <3>2
  <2>5. CASE Logs!CleanupLogs
    <3>1. /\ chunks' = <<>> /\ synced' = {} /\ latest' = Logs!NoRecord
          /\ retention' = [retention EXCEPT !.over = FALSE] /\ retention.over
      BY <2>5 DEF Logs!CleanupLogs, Logs!Forgotten
    <3>2. retention'.ever /\ ~retention'.over
      BY <1>2, <2>1, <3>1 DEF Stored
    <3>3. DOMAIN chunks' = 0..0 - 1 /\ synced' = 0..0 - 1
      BY <3>1
    <3> QED BY <3>1, <3>2, <3>3 DEF StoreFits
  <2>6. CASE Logs!ServiceCrash
    <3>1. PICK keep \in {DOMAIN chunks, synced} :
              chunks' = [s \in keep |-> chunks[s]] /\ synced' = synced \cap keep
      BY <2>6 DEF Logs!ServiceCrash
    <3>2. latest' = Logs!NoRecord /\ retention' = retention
      BY <2>6 DEF Logs!ServiceCrash
    <3>3. PICK i \in {n, k} : keep = 0..i - 1
      BY <2>2, <3>1
    <3>4. i \in 0..taken /\ k <= i /\ (\A s \in 0..k - 1 : s \in 0..i - 1) /\ (\A s \in 0..i - 1 : s \in 0..n - 1)
      BY <2>2
    <3>5. synced' = 0..k - 1
      BY <2>2, <3>1, <3>3, <3>4
    <3>6. DOMAIN chunks' = 0..i - 1 /\ \A s \in 0..i - 1 : chunks'[s] = cut[s]
      BY <2>2, <3>1, <3>3, <3>4
    <3>7. Stored(cut, n, k) => Stored(cut, i, k)'
      BY <1>1, <3>2, <3>4, <3>5, <3>6, Zenon DEF Stored
    <3> QED BY <2>3, <3>4, <3>7
  <2> QED BY <2>4, <2>5, <2>6
<1> QED BY <1>1, <1>2, <1>3, <1>4, ServiceInv

-----------------------------------------------------------------------------
(* A step of the reader.                                                   *)
LEMMA FollowerInv ==
    ASSUME LogsInv, UNCHANGED <<output, spool, writer, uploader, net, chunks, synced, latest, retention, outcome>>,
           follower' \in [at : {"read", "check", "again", "partial", "incomplete", "whole"}, follow : BOOLEAN,
                          sequence : Nat, text : Seq(Nat)],
           follower'.at = "again" => writer.at = "exited",
           \A cut \in [Nat -> LogChunk], start \in [Nat -> Nat], taken \in Nat :
               LogFits(cut, start, taken) => FollowerFits(cut, taken)'
    PROVE  LogsInv'
<1>1. PICK cut \in [Nat -> LogChunk], start \in [Nat -> Nat], taken \in Nat : LogFits(cut, start, taken)
  BY DEF LogsInv
<1>2. Logs!Pending' = Logs!Pending /\ (Logs!GivesUp' <=> Logs!GivesUp) /\ (Logs!Closing' <=> Logs!Closing)
  BY DEF Logs!Pending, Logs!GivesUp, Logs!Closing
<1>3. LogsType'
  <2>1. /\ output' = output /\ spool' = spool /\ writer' = writer /\ uploader' = uploader /\ net' = net
        /\ retention' = retention /\ LogsType
    BY DEF LogsInv
  <2> QED BY <1>2, <2>1, Zenon DEF LogsType
<1>4. EndsFit'
  BY DEF LogsInv, EndsFit
<1>5. CutFits(cut, start, taken)' /\ TakenFits(taken)'
  BY <1>1, <1>2 DEF LogFits, CutFits, ChunkFits, LastFits, TakenFits
<1>6. SpoolFits(start)' /\ UploaderFits(cut)'
  BY <1>1, <1>2 DEF LogFits, SpoolFits, UploaderFits
<1>7. NetFits(cut, taken)' /\ StoreFits(cut, taken)'
  BY <1>1 DEF LogFits, NetFits, StoreFits
<1>8. FollowerFits(cut, taken)'
  BY <1>1
<1> QED BY <1>3, <1>4, <1>5, <1>6, <1>7, <1>8 DEF LogsInv, LogFits

FollowerState ==
    [at : {"read", "check", "again", "partial", "incomplete", "whole"}, follow : BOOLEAN,
     sequence : Nat, text : Seq(Nat)]

LEMMA FollowerStep ==
    ASSUME LogsInv, Logs!ReadChunk \/ Logs!CheckUploads \/ Logs!ReadAgain
    PROVE  LogsInv'
<1>1. UNCHANGED <<output, spool, writer, uploader, net, chunks, synced, latest, retention, outcome>>
  BY DEF Logs!ReadChunk, Logs!CheckUploads, Logs!ReadAgain, Logs!store
<1>2. follower \in FollowerState
  BY DEF LogsInv, LogsType, FollowerState
<1>3. CASE (follower.at = "read" /\ follower' = [follower EXCEPT !.at = "check"]) \/ Logs!CheckUploads
  <2>1. PICK t \in {"check", "again", "read", "partial"} :
            /\ follower' = [follower EXCEPT !.at = t]
            /\ t = "again" => Logs!UploadsStopped
    BY <1>3 DEF Logs!CheckUploads
  <2>2. /\ follower' \in FollowerState /\ follower'.at = t /\ follower'.sequence = follower.sequence
    BY <1>2, <2>1 DEF FollowerState
  <2>3. t = "again" => writer.at = "exited"
    BY <2>1 DEF Logs!UploadsStopped, LogsInv, EndsFit
  <2>4. follower.at # "whole"
    BY <1>3 DEF Logs!CheckUploads
  <2>5. ASSUME NEW cut \in [Nat -> LogChunk], NEW start \in [Nat -> Nat], NEW taken \in Nat, LogFits(cut, start, taken)
        PROVE  FollowerFits(cut, taken)'
    BY <2>2, <2>4, <2>5 DEF LogFits, FollowerFits, Logs!IncompleteIsTrue
  <2> QED BY <1>1, <2>2, <2>3, <2>5, FollowerInv DEF FollowerState
<1>4. CASE Logs!Readable(follower.sequence) /\ follower.at \in {"read", "again"} /\ Logs!Receive
  <2>1. PICK f \in Nat, text \in Seq(Nat) : f = follower.sequence /\ text = follower.text
    BY <1>2 DEF FollowerState
  <2>2. PICK c : c = chunks[f]
    OBVIOUS
  <2>3. follower' = [follower EXCEPT !.at = IF c.complete THEN "whole" ELSE "read", !.sequence = f + 1,
                                     !.text = text \o c.data]
    BY <1>4, <2>1, <2>2, Zenon DEF Logs!Receive
  <2>4. ASSUME NEW cut \in [Nat -> LogChunk], NEW start \in [Nat -> Nat], NEW taken \in Nat, LogFits(cut, start, taken)
        PROVE  f + 1 <= taken /\ c = cut[f] /\ c \in LogChunk
    <3>1. PICK n \in 0..taken : DOMAIN chunks = 0..n - 1 /\ \A s \in 0..n - 1 : chunks[s] = cut[s]
      BY <2>4 DEF LogFits, StoreFits
    <3>2. f \in 0..n - 1
      BY <1>4, <2>1, <3>1 DEF Logs!Readable
    <3> QED BY <2>2, <3>1, <3>2
  <2>5. c.data \in Seq(Nat)
    BY <2>4 DEF LogsInv, LogChunk
  <2>6. PICK t \in {"whole", "read"}, g \in Nat, whole \in Seq(Nat) :
            t = (IF c.complete THEN "whole" ELSE "read") /\ g = f + 1 /\ whole = text \o c.data
    <3>1. PICK whole : whole = text \o c.data
      BY Zenon
    <3>2. whole \in Seq(Nat)
      BY <2>5, <3>1, ConcatProperties
    <3>3. PICK t : t = IF c.complete THEN "whole" ELSE "read"
      OBVIOUS
    <3>4. t \in {"whole", "read"}
      BY <3>3
    <3>5. f + 1 \in Nat
      OBVIOUS
    <3> QED BY <3>1, <3>2, <3>3, <3>4, <3>5, Zenon
  <2>7. follower' = [follower EXCEPT !.at = t, !.sequence = g, !.text = whole]
    BY <2>3, <2>6, Zenon
  <2>8. follower' \in FollowerState /\ follower'.at = t /\ follower'.sequence = g
    BY <1>2, <2>7 DEF FollowerState
  <2>9. ASSUME NEW cut \in [Nat -> LogChunk], NEW start \in [Nat -> Nat], NEW taken \in Nat, LogFits(cut, start, taken)
        PROVE  FollowerFits(cut, taken)'
    <3>1. f + 1 <= taken /\ c = cut[f]
      BY <2>4, <2>9
    <3>2. \A s \in 0..f - 1 : ~cut[s].complete
      BY <1>4, <2>1, <2>9 DEF LogFits, FollowerFits
    <3>3. \A s \in 0..g - 1 : s \in 0..f - 1 \/ s = f
      BY <2>6
    <3>4. t # "whole" => \A s \in 0..g - 1 : ~cut[s].complete
      BY <2>6, <3>1, <3>2, <3>3
    <3>5. Logs!IncompleteIsTrue'
      BY <2>8 DEF Logs!IncompleteIsTrue
    <3> QED BY <2>6, <2>8, <3>1, <3>4, <3>5 DEF FollowerFits
  <2> QED BY <1>1, <2>8, <2>9, FollowerInv DEF FollowerState
<1>5. CASE follower.at = "again" /\ ~Logs!Readable(follower.sequence) /\ follower' = [follower EXCEPT !.at = "incomplete"]
  <2>1. /\ follower' \in FollowerState /\ follower'.at = "incomplete" /\ follower'.sequence = follower.sequence
    BY <1>2, <1>5 DEF FollowerState
  <2>2. ASSUME NEW cut \in [Nat -> LogChunk], NEW start \in [Nat -> Nat], NEW taken \in Nat, LogFits(cut, start, taken)
        PROVE  FollowerFits(cut, taken)'
    <3>1. follower.sequence <= taken /\ \A s \in 0..follower.sequence - 1 : ~cut[s].complete
      BY <1>5, <2>2 DEF LogFits, FollowerFits
    <3>2. Logs!GivesUp \/ retention.ever
      <4> SUFFICES ASSUME ~Logs!GivesUp, ~retention.ever
                   PROVE  FALSE
        OBVIOUS
      <4>1. uploader.at = "done"
        BY <1>5 DEF LogsInv, EndsFit
      <4>2. PICK f \in Nat, q \in Nat : f = follower.sequence /\ q = uploader.sequence
        BY <1>2 DEF FollowerState, LogsInv, LogsType
      <4>3. q > 0 /\ cut[q - 1].complete
        BY <2>2, <4>1, <4>2 DEF LogFits, UploaderFits
      <4>4. PICK n \in 0..taken, k \in 0..taken :
                DOMAIN chunks = 0..n - 1 /\ k <= n /\ uploader.sequence <= k /\ ~retention.over
        BY <2>2 DEF LogFits, StoreFits
      <4>5. f \notin 0..n - 1
        BY <1>5, <4>2, <4>4 DEF Logs!Readable
      <4>6. q - 1 \in 0..f - 1
        <5>1. q <= k /\ k <= n /\ k \in Nat /\ n \in Nat
          BY <4>2, <4>4
        <5> QED BY <4>3, <4>5, <5>1
      <4> QED BY <3>1, <4>2, <4>3, <4>6
    <3>3. Logs!IncompleteIsTrue'
      <4>1. (Logs!GivesUp' <=> Logs!GivesUp) /\ retention' = retention
        BY <1>1 DEF Logs!GivesUp
      <4> QED BY <3>2, <4>1 DEF Logs!IncompleteIsTrue
    <3> QED BY <2>1, <3>1, <3>3 DEF FollowerFits
  <2>3. follower'.at # "again"
    BY <2>1
  <2>4. /\ output' = output /\ spool' = spool /\ writer' = writer /\ uploader' = uploader /\ net' = net
        /\ chunks' = chunks /\ synced' = synced /\ latest' = latest /\ retention' = retention /\ outcome' = outcome
    BY <1>1
  <2> QED BY <2>1, <2>2, <2>3, <2>4, FollowerInv, Zenon DEF FollowerState
<1> QED BY <1>3, <1>4, <1>5 DEF Logs!ReadChunk, Logs!ReadAgain

-----------------------------------------------------------------------------
LEMMA LogsNextInv == ASSUME LogsInv, Logs!LogsNext PROVE LogsInv'
<1>1. CASE (\E n \in WriteSizes : Logs!Write(n)) \/ Logs!WriteResumes
  BY <1>1, WriteStep
<1>2. CASE \/ Logs!Discard \/ Logs!SpoolStaysFull \/ Logs!FlushTimeout
           \/ Logs!StopOutput \/ Logs!Close \/ Logs!CloseReturns \/ Logs!PublishResult
  BY <1>2, EndingStep
<1>3. CASE \E flush \in BOOLEAN : Logs!TakeChunk(flush)
  BY <1>3, TakeChunkStep
<1>4. CASE \/ Logs!Transmit \/ Logs!AnswerLate \/ Logs!SendEnds \/ Logs!SendAgain \/ Logs!UploaderEnds
           \/ \E m \in net : Logs!UploadLost(m)
  BY <1>4, UploaderStays
<1>5. CASE Logs!Acknowledge
  BY <1>5, AcknowledgeStep
<1>6. CASE \E m \in net : Logs!AppendChunk(m)
  BY <1>6, AppendStep
<1>7. CASE Logs!RetentionPasses \/ Logs!CleanupLogs \/ Logs!ServiceCrash
  BY <1>7, ServiceStep
<1>8. CASE Logs!ReadChunk \/ Logs!CheckUploads \/ Logs!ReadAgain
  BY <1>8, FollowerStep
<1> QED BY <1>1, <1>2, <1>3, <1>4, <1>5, <1>6, <1>7, <1>8, Zenon
        DEF Logs!LogsNext, Logs!WriterStep, Logs!UploaderStep, Logs!FollowerStep

LEMMA LogsStillInv == ASSUME LogsInv, UNCHANGED logsVars PROVE LogsInv'
<1>1. UNCHANGED <<output, spool, writer, uploader, net, chunks, synced, latest, retention, outcome, follower>>
  BY DEF logsVars
<1>2. net' \subseteq net
  BY <1>1
<1> QED BY <1>1, <1>2, ReceivedInv

LEMMA CountOfNumbers ==
    ASSUME NEW n \in Nat
    PROVE  Logs!Cardinality(0..n - 1) = n
<1>1. Logs!Cardinality(0..n - 1) = Cardinality(0..n - 1)
  BY DEF Logs!Cardinality, Cardinality
<1>2. 0 \in Int /\ n - 1 \in Int
  OBVIOUS
<1>3. Cardinality(0..n - 1) = IF 0 > n - 1 THEN 0 ELSE (n - 1) - 0 + 1
  BY <1>2, FS_Interval
<1> QED BY <1>1, <1>3

(* What the service keeps of a log is what begins the output.              *)
LEMMA ArchivedNumbers ==
    ASSUME NEW cut \in [Nat -> LogChunk], NEW start \in [Nat -> Nat], NEW taken \in Nat, NEW n \in 0..taken,
           CutFits(cut, start, taken), DOMAIN chunks = 0..n - 1, \A s \in 0..n - 1 : chunks[s] = cut[s]
    PROVE  Logs!Archived = Logs!Numbers(start[n]) /\ Logs!Cardinality(DOMAIN chunks) = n /\ Len(Logs!Archived) = start[n]
<1>1. PICK seqs : seqs = [i \in 1..n |-> chunks[i - 1].data]
  OBVIOUS
<1>2. ASSUME NEW i \in 1..n
      PROVE  /\ i - 1 \in 0..taken - 1 /\ seqs[i] = cut[i - 1].data /\ cut[i - 1] \in LogChunk
             /\ start[i] = start[i - 1] + Len(seqs[i])
             /\ seqs[i] = [j \in 1..Len(seqs[i]) |-> start[i - 1] + j]
  <2>1. PICK s \in 0..n - 1 : s = i - 1 /\ s + 1 = i
    OBVIOUS
  <2>2. s \in 0..taken - 1
    BY <2>1
  <2>3. ChunkFits(cut, start, s)
    BY <2>2 DEF CutFits
  <2>4. seqs[i] = cut[s].data
    BY <1>1, <2>1
  <2>5. start[s + 1] = start[s] + Len(cut[s].data) /\ cut[s].data = [j \in 1..Len(cut[s].data) |-> start[s] + j]
    BY <2>3, Zenon DEF ChunkFits
  <2> QED BY <2>1, <2>2, <2>4, <2>5
<1>3. seqs \in Seq(Seq(Nat)) /\ Len(seqs) = n
  <2>1. \A i \in 1..n : seqs[i] \in Seq(Nat)
    BY <1>2 DEF LogChunk
  <2>2. seqs \in [1..n -> Seq(Nat)]
    BY <1>1, <2>1
  <2> QED BY <2>2
<1>4. Consecutive(seqs, start)
  BY <1>2, <1>3 DEF Consecutive
<1>5. start[0] = 0
  BY DEF CutFits
<1>6. n \in Nat
  OBVIOUS
<1>7. Logs!FlattenSeq(seqs) = Logs!Numbers(start[n])
  BY <1>3, <1>4, <1>5, <1>6, FlattenedNumbers
<1>8. Logs!Cardinality(DOMAIN chunks) = n
  BY <1>6, CountOfNumbers
<1>9. Logs!Archived = Logs!Numbers(start[n])
  BY <1>1, <1>7, <1>8, Zenon DEF Logs!Archived
<1>10. Len(Logs!Numbers(start[n])) = start[n]
  <2>1. PICK l \in Nat : l = start[n]
    BY <1>6
  <2>2. Len([b \in 1..l |-> b]) = l
    OBVIOUS
  <2> QED BY <2>1, <2>2 DEF Logs!Numbers
<1> QED BY <1>8, <1>9, <1>10

LEMMA LogsInvFaithful ==
    ASSUME LogsInv
    PROVE  Logs!ArchiveIsOutput /\ Logs!CompleteIsWhole /\ Logs!AcknowledgedKept /\ Logs!IncompleteIsTrue
<1>1. PICK cut \in [Nat -> LogChunk], start \in [Nat -> Nat], taken \in Nat : LogFits(cut, start, taken)
  BY DEF LogsInv
<1>2. PICK n \in 0..taken, k \in 0..taken : Stored(cut, n, k)
  <2>1. StoreFits(cut, taken)
    BY <1>1 DEF LogFits
  <2> QED BY <2>1, Zenon DEF StoreFits, Stored
<1>3. DOMAIN chunks = 0..n - 1 /\ (\A s \in 0..n - 1 : chunks[s] = cut[s]) /\ k <= n /\ n \in Nat /\ k \in Nat
  BY <1>2 DEF Stored
<1>4. Logs!Archived = Logs!Numbers(start[n]) /\ Logs!Cardinality(DOMAIN chunks) = n /\ Len(Logs!Archived) = start[n]
  BY <1>1, <1>3, ArchivedNumbers DEF LogFits
<1>5. Logs!ArchiveIsOutput
  <2>1. start[n] <= output
    <3>1. CASE n = 0
      BY <1>1, <3>1 DEF LogFits, CutFits, LogsInv, LogsType
    <3>2. CASE n > 0
      <4>1. PICK s \in 0..taken - 1 : s + 1 = n
        BY <3>2
      <4> QED BY <1>1, <4>1 DEF LogFits, CutFits, ChunkFits
    <3> QED BY <1>3, <3>1, <3>2
  <2> QED BY <1>3, <1>4, <2>1 DEF Logs!ArchiveIsOutput
<1>6. Logs!CompleteIsWhole
  <2> SUFFICES ASSUME NEW s \in 0..n - 1, cut[s].complete
               PROVE  start[n] = output
    BY <1>3, <1>4 DEF Logs!CompleteIsWhole
  <2>1. LastFits(cut, start, taken, s)
    BY <1>1 DEF LogFits, CutFits
  <2>2. start[s + 1] = output /\ taken = s + 1
    BY <2>1 DEF LastFits
  <2>3. s + 1 = n
    BY <2>2
  <2> QED BY <2>2, <2>3
<1>7. Logs!AcknowledgedKept
  <2>1. uploader.sequence \in Nat
    BY DEF LogsInv, LogsType
  <2>2. ~retention.ever => uploader.sequence <= n
    <3>1. ~retention.ever => uploader.sequence <= k
      BY <1>2 DEF Stored
    <3> QED BY <1>3, <2>1, <3>1
  <2>3. ~retention.ever => \A s \in 0..uploader.sequence - 1 : s \in 0..n - 1
    BY <1>3, <2>1, <2>2
  <2> QED BY <1>3, <2>3 DEF Logs!AcknowledgedKept
<1>8. Logs!IncompleteIsTrue
  BY <1>1 DEF LogFits, FollowerFits
<1> QED BY <1>5, <1>6, <1>7, <1>8

LEMMA LogsStep ==
    ASSUME On("logs") => LogsInv, [Next]_vars
    PROVE  (On("logs") => LogsInv)'
<1>1. focus' = focus
  BY DEF Next, Alone, vars
<1> SUFFICES ASSUME On("logs")
             PROVE  LogsInv'
  BY <1>1 DEF On
<1>2. CASE Next
  <2>1. Logs!LogsNext
    BY <1>2 DEF Next, On
  <2> QED BY <2>1, LogsNextInv DEF On
<1>3. CASE UNCHANGED vars
  <2>1. UNCHANGED logsVars
    BY <1>3 DEF vars
  <2> QED BY <2>1, LogsStillInv DEF On
<1> QED BY <1>2, <1>3

(* The log of a job, for every size of its ring and of a chunk and every   *)
(* number of losses, late answers, retries, crashes of the service and     *)
(* cleanups: the archive is a beginning of the output in order and without *)
(* a gap, a chunk marked complete ends the whole output, what was          *)
(* acknowledged survives until the retention is over, and a reader is told *)
(* that a log is incomplete only when the upload gave up or the retention  *)
(* was over.                                                               *)
THEOREM LogsAreFaithful == Spec => []LogsFaithful
<1>1. Init => (On("logs") => LogsInv)
  BY LogsInitInv DEF Init
<1>2. (On("logs") => LogsInv) /\ [Next]_vars => (On("logs") => LogsInv)'
  BY LogsStep
<1>3. (On("logs") => LogsInv) => LogsFaithful
  BY LogsInvFaithful DEF LogsFaithful
<1> QED BY <1>1, <1>2, <1>3, PTL DEF Spec
=============================================================================
