------------------------ MODULE IdentityStatusProofs ------------------------
(* Proofs about the numbers of WorkflowRuns (RunIdentity) and the commit   *)
(* statuses they report (StatusReports), for every number of runs and of   *)
(* controllers.                                                            *)
EXTENDS MCComponents, TLAPS

-----------------------------------------------------------------------------
(* RunIdentity.                                                            *)

Sequence == [next : 1..MaxNumber, version : Nat]

Allocation == [at : {"idle", "read", "write", "exhausted", "store"}, run : Runs \cup {0},
               got : Seq(Nat), next : Nat, version : Nat]

IdentityType ==
    /\ sequences \in [1..2 -> Sequence]
    /\ allocator \in [Controllers -> Allocation]
    /\ \A x \in given : x[2] \in Seq(Nat)

(* What a controller has reserved so far is complete when it stores it.    *)
ReservedSoFar ==
    \A c \in Controllers :
        /\ allocator[c].at \in {"read", "write", "exhausted"} => Len(allocator[c].got) < 2
        /\ allocator[c].at = "store" => Len(allocator[c].got) = 2

(* The version guards the value: a value read under the current version is *)
(* the current one, and one that was read to be written can be given.      *)
ReadUnderVersion ==
    \A c \in Controllers :
        allocator[c].at = "write" =>
            LET s == sequences[Len(allocator[c].got) + 1] IN
            /\ allocator[c].version <= s.version
            /\ allocator[c].version = s.version => allocator[c].next = s.next
            /\ allocator[c].next \in 1..MaxNumber - 1

(* Numbers that were reserved or given lie behind the sequence.            *)
ReservedBehind ==
    /\ \A c \in Controllers : \A i \in 1..Len(allocator[c].got) :
          i \in 1..2 /\ allocator[c].got[i] \in 1..sequences[i].next - 1
    /\ \A x \in given : \A i \in 1..2 : x[2][i] \in 1..sequences[i].next - 1

(* Nobody has reserved what somebody else has reserved or what was given.  *)
ReservedOnce ==
    /\ \A c, d \in Controllers : c # d =>
          \A i \in 1..2 : i <= Len(allocator[c].got) /\ i <= Len(allocator[d].got)
                             => allocator[c].got[i] # allocator[d].got[i]
    /\ \A c \in Controllers : \A x \in given : \A i \in 1..2 :
          i <= Len(allocator[c].got) => allocator[c].got[i] # x[2][i]
    /\ \A x, y \in given : x # y => \A i \in 1..2 : x[2][i] # y[2][i]

IdentityInv == IdentityType /\ ReservedSoFar /\ ReadUnderVersion /\ ReservedBehind /\ ReservedOnce

LEMMA IdentityInitInv == ASSUME Identity!IdentityInit PROVE IdentityInv
<1> USE NumberAssumption DEF Identity!IdentityInit, Identity!NoAllocation
<1>1. IdentityType BY DEF IdentityType, Allocation, Sequence
<1>2. \A c \in Controllers : allocator[c].at = "idle" /\ allocator[c].got = <<>> OBVIOUS
<1>3. QED BY <1>1, <1>2 DEF IdentityInv, ReservedSoFar, ReadUnderVersion, ReservedBehind, ReservedOnce

(* A step that only gives up what one controller holds.                    *)
LEMMA DropAllocation ==
    ASSUME IdentityInv, NEW c \in Controllers, NEW a,
           a \in Allocation, a.at \in {"idle", "read"}, a.got = <<>>,
           allocator' = [allocator EXCEPT ![c] = a],
           UNCHANGED <<sequences, given>>
    PROVE  IdentityInv'
<1>1. <<>> \in Seq(Nat) /\ Len(<<>>) = 0 OBVIOUS
<1>2. IdentityType' BY <1>1 DEF IdentityInv, IdentityType
<1>3. \A d \in Controllers : IF d = c THEN allocator'[d] = a ELSE allocator'[d] = allocator[d]
  BY DEF IdentityInv, IdentityType
<1>4. ReservedSoFar' BY <1>1, <1>3 DEF IdentityInv, ReservedSoFar
<1>5. ReadUnderVersion' BY <1>3 DEF IdentityInv, ReadUnderVersion
<1>6. ReservedBehind' BY <1>1, <1>3 DEF IdentityInv, ReservedBehind
<1>7. ReservedOnce' BY <1>1, <1>3 DEF IdentityInv, ReservedOnce
<1>8. QED BY <1>2, <1>4, <1>5, <1>6, <1>7 DEF IdentityInv

LEMMA ReadSequenceInv ==
    ASSUME IdentityInv, NEW c \in Controllers, Identity!ReadSequence(c)
    PROVE  IdentityInv'
<1> DEFINE i == Len(allocator[c].got) + 1
           goesTo == IF sequences[i].next = MaxNumber THEN "exhausted" ELSE "write"
           a == [allocator[c] EXCEPT !.at = goesTo,
                                     !.next = sequences[i].next, !.version = sequences[i].version]
<1> USE NumberAssumption
<1>1. allocator[c] \in Allocation /\ allocator[c].at = "read" /\ Len(allocator[c].got) < 2
  BY DEF IdentityInv, IdentityType, ReservedSoFar, Identity!ReadSequence
<1>2. i \in 1..2 BY <1>1 DEF Allocation
<1>3. sequences[i] \in Sequence BY <1>2 DEF IdentityInv, IdentityType
<1>4. UNCHANGED <<sequences, given>> BY DEF Identity!ReadSequence
<1>5. allocator' = [allocator EXCEPT ![c] = a]
  BY DEF Identity!ReadSequence, Identity!SequenceOver, Identity!Position, IdentityInv, IdentityType
<1>at. goesTo \in {"exhausted", "write"} OBVIOUS
<1> HIDE DEF i, goesTo
<1>6. a \in Allocation /\ a.at \in {"exhausted", "write"} /\ a.got = allocator[c].got
  <2>1. sequences[i].next \in Nat /\ sequences[i].version \in Nat BY <1>3 DEF Sequence
  <2>2. goesTo \in {"idle", "read", "write", "exhausted", "store"} BY <1>at
  <2>3. a \in Allocation BY <1>1, <2>1, <2>2, Zenon DEF Allocation
  <2>4. a.at = goesTo /\ a.got = allocator[c].got BY <1>1 DEF Allocation
  <2>5. QED BY <1>at, <2>3, <2>4
<1>7. a.at = "write" => /\ a.version = sequences[i].version /\ a.next = sequences[i].next
                        /\ sequences[i].next \in 1..MaxNumber - 1 /\ sequences[i].version \in Nat
  <2>1. /\ a.version = sequences[i].version /\ a.next = sequences[i].next
        /\ a.at = IF sequences[i].next = MaxNumber THEN "exhausted" ELSE "write"
    BY <1>1 DEF Allocation, goesTo
  <2>2. sequences[i].next \in 1..MaxNumber /\ sequences[i].version \in Nat BY <1>3 DEF Sequence
  <2> HIDE DEF a
  <2>3. QED BY <2>1, <2>2
<1> HIDE DEF a
<1>8. /\ allocator'[c] = a /\ allocator'[c].got = allocator[c].got
      /\ \A d \in Controllers : allocator'[d].got = allocator[d].got /\ (d # c => allocator'[d] = allocator[d])
  BY <1>5, <1>6 DEF IdentityInv, IdentityType
<1>9. IdentityType' BY <1>4, <1>5, <1>6 DEF IdentityInv, IdentityType
<1>10. ReservedSoFar' BY <1>1, <1>6, <1>8 DEF IdentityInv, ReservedSoFar
<1>11. ReadUnderVersion'
  <2> SUFFICES ASSUME NEW d \in Controllers, allocator'[d].at = "write"
               PROVE  LET s == sequences[Len(allocator[d].got) + 1] IN
                      /\ allocator'[d].version <= s.version
                      /\ allocator'[d].version = s.version => allocator'[d].next = s.next
                      /\ allocator'[d].next \in 1..MaxNumber - 1
    BY <1>4, <1>8 DEF ReadUnderVersion
  <2>1. CASE d = c BY <1>7, <1>8, <2>1 DEF i
  <2>2. CASE d # c BY <1>8, <2>2 DEF IdentityInv, ReadUnderVersion
  <2>3. QED BY <2>1, <2>2
<1>12. ReservedBehind' BY <1>4, <1>8 DEF IdentityInv, ReservedBehind
<1>13. ReservedOnce'
  <2>1. \A d \in Controllers : allocator'[d].got = allocator[d].got BY <1>8
  <2>2. ReservedOnce BY DEF IdentityInv
  <2>3. ASSUME NEW d \in Controllers, NEW e \in Controllers, d # e, NEW j \in 1..2,
               j <= Len(allocator'[d].got), j <= Len(allocator'[e].got)
        PROVE  allocator'[d].got[j] # allocator'[e].got[j]
    <3>1. j <= Len(allocator[d].got) /\ j <= Len(allocator[e].got) BY <2>1, <2>3
    <3>2. allocator[d].got[j] # allocator[e].got[j] BY <2>2, <2>3, <3>1 DEF ReservedOnce
    <3>3. QED BY <2>1, <3>2
  <2>4. ASSUME NEW d \in Controllers, NEW x \in given, NEW j \in 1..2, j <= Len(allocator'[d].got)
        PROVE  allocator'[d].got[j] # x[2][j]
    BY <2>1, <2>2, <2>4 DEF ReservedOnce
  <2>5. QED BY <1>4, <2>2, <2>3, <2>4 DEF ReservedOnce
<1>14. QED BY <1>9, <1>10, <1>11, <1>12, <1>13 DEF IdentityInv

(* The accepted write is where a number becomes the controller's: it was   *)
(* read under the version that is still current, so that it is the next    *)
(* one, beyond all that were reserved or given before.                     *)
LEMMA WriteSequenceInv ==
    ASSUME IdentityInv, NEW c \in Controllers, Identity!WriteSequence(c)
    PROVE  IdentityInv'
<1> DEFINE i == Len(allocator[c].got) + 1
           n == allocator[c].next
<1> USE NumberAssumption
<1>1. /\ i \in 1..2 /\ sequences[i] \in Sequence /\ allocator[c] \in Allocation
      /\ n \in 1..MaxNumber - 1 /\ allocator[c].at = "write"
      /\ allocator[c].got \in Seq(Nat) /\ sequences[i].version \in Nat
  <2>1. allocator[c] \in Allocation /\ allocator[c].at = "write" /\ Len(allocator[c].got) < 2
    BY DEF IdentityInv, IdentityType, ReservedSoFar, Identity!WriteSequence
  <2>2. i \in 1..2 /\ allocator[c].got \in Seq(Nat) BY <2>1 DEF Allocation
  <2>3. n \in 1..MaxNumber - 1 BY <2>1 DEF IdentityInv, ReadUnderVersion
  <2>4. sequences[i] \in Sequence BY <2>2 DEF IdentityInv, IdentityType
  <2>5. QED BY <2>1, <2>2, <2>3, <2>4 DEF Sequence
<1>2. given' = given BY DEF Identity!WriteSequence
<1>3. CASE ~Identity!Accepted(c)
  <2>1. allocator' = [allocator EXCEPT ![c].at = "read"] /\ UNCHANGED <<sequences, given>>
    BY <1>3 DEF Identity!WriteSequence
  <2>2. \A d \in Controllers : allocator'[d].got = allocator[d].got /\ (d # c => allocator'[d] = allocator[d])
    BY <2>1 DEF IdentityInv, IdentityType
  <2>3. allocator'[c].at = "read" BY <2>1 DEF IdentityInv, IdentityType
  <2>4. IdentityType' BY <1>1, <2>1 DEF IdentityInv, IdentityType, Allocation
  <2>5. ReservedSoFar' BY <1>1, <2>2, <2>3 DEF IdentityInv, ReservedSoFar
  <2>6. ReadUnderVersion' BY <2>1, <2>2, <2>3 DEF IdentityInv, ReadUnderVersion
  <2>7. ReservedBehind' BY <2>1, <2>2 DEF IdentityInv, ReservedBehind
  <2>8. ReservedOnce' BY <2>1, <2>2 DEF IdentityInv, ReservedOnce
  <2>9. QED BY <2>4, <2>5, <2>6, <2>7, <2>8 DEF IdentityInv
<1>4. CASE Identity!Accepted(c)
  <2>1. n = sequences[i].next
    BY <1>1, <1>4 DEF IdentityInv, ReadUnderVersion, Identity!Accepted, Identity!Position
  <2> DEFINE got == Append(allocator[c].got, n)
             a == [allocator[c] EXCEPT !.got = got, !.at = IF i = 2 THEN "store" ELSE "read"]
             t == [next |-> n + 1, version |-> sequences[i].version + 1]
  <2>2. sequences' = [sequences EXCEPT ![i] = t] /\ allocator' = [allocator EXCEPT ![c] = a]
    BY <1>4 DEF Identity!WriteSequence, Identity!Position, Identity!Scopes, IdentityInv, IdentityType
  <2>3. got \in Seq(Nat) /\ Len(got) = i /\ got[i] = n /\ \A j \in 1..i - 1 : got[j] = allocator[c].got[j]
    BY <1>1
  <2>4. t \in Sequence /\ t.next = n + 1 /\ t.version = sequences[i].version + 1
    BY <1>1 DEF Sequence
  <2> HIDE DEF i, n, got
  <2>5. a \in Allocation /\ a.got = got /\ a.at = IF i = 2 THEN "store" ELSE "read"
    BY <1>1, <2>3 DEF Allocation
  <2> HIDE DEF a, t
  <2>6. allocator'[c] = a /\ \A d \in Controllers : d # c => allocator'[d] = allocator[d]
    BY <2>2 DEF IdentityInv, IdentityType
  <2>7. /\ sequences'[i].next = n + 1 /\ sequences'[i].version = sequences[i].version + 1
        /\ \A j \in 1..2 : j # i => sequences'[j] = sequences[j]
    BY <1>1, <2>2, <2>4 DEF IdentityInv, IdentityType
  <2>8. IdentityType' BY <1>1, <1>2, <2>2, <2>4, <2>5 DEF IdentityInv, IdentityType
  <2>9. ReservedSoFar'
    <3>1. a.at = "store" => i = 2 BY <2>5
    <3>2. a.at = "read" => i < 2 BY <1>1, <2>5
    <3>3. a.at \in {"store", "read"} /\ Len(a.got) = i BY <2>3, <2>5
    <3>4. \A d \in Controllers : d # c =>
             /\ allocator'[d].at \in {"read", "write", "exhausted"} => Len(allocator'[d].got) < 2
             /\ allocator'[d].at = "store" => Len(allocator'[d].got) = 2
      BY <2>6 DEF IdentityInv, ReservedSoFar
    <3>5. /\ allocator'[c].at \in {"read", "write", "exhausted"} => Len(allocator'[c].got) < 2
          /\ allocator'[c].at = "store" => Len(allocator'[c].got) = 2
      BY <2>6, <3>1, <3>2, <3>3
    <3>6. QED BY <3>4, <3>5 DEF ReservedSoFar
  <2>10. ReadUnderVersion'
    <3> SUFFICES ASSUME NEW d \in Controllers, allocator'[d].at = "write"
                 PROVE  LET s == sequences'[Len(allocator'[d].got) + 1] IN
                        /\ allocator'[d].version <= s.version
                        /\ allocator'[d].version = s.version => allocator'[d].next = s.next
                        /\ allocator'[d].next \in 1..MaxNumber - 1
      BY DEF ReadUnderVersion
    <3>1. d # c /\ allocator'[d] = allocator[d] BY <2>5, <2>6
    <3> DEFINE j == Len(allocator[d].got) + 1
    <3>2. j \in 1..2 /\ allocator[d].version \in Nat
      <4>1. allocator[d] \in Allocation /\ Len(allocator[d].got) < 2
        BY <3>1 DEF IdentityInv, IdentityType, ReservedSoFar
      <4>2. QED BY <4>1 DEF Allocation
    <3>3. /\ allocator[d].version <= sequences[j].version
          /\ allocator[d].version = sequences[j].version => allocator[d].next = sequences[j].next
          /\ allocator[d].next \in 1..MaxNumber - 1
      BY <3>1 DEF IdentityInv, ReadUnderVersion
    <3>4. Len(allocator'[d].got) + 1 = j BY <3>1
    <3> HIDE DEF j
    <3>5. CASE j = i
      <4>1. allocator[d].version < sequences'[j].version BY <1>1, <2>7, <3>2, <3>3, <3>5
      <4>2. sequences'[j].version \in Nat BY <1>1, <2>7, <3>5
      <4>3. allocator[d].version # sequences'[j].version /\ allocator[d].version <= sequences'[j].version
        BY <3>2, <4>1, <4>2
      <4>4. QED BY <3>1, <3>3, <3>4, <4>3
    <3>6. CASE j # i BY <2>7, <3>1, <3>2, <3>3, <3>4, <3>6
    <3>7. QED BY <3>5, <3>6
  <2>11. \A j \in 1..2 : sequences[j].next \in Nat /\ sequences'[j].next \in Nat /\ sequences'[j].next >= sequences[j].next
    <3>1. \A j \in 1..2 : sequences[j].next \in Nat
      BY DEF IdentityInv, IdentityType, Sequence
    <3>2. \A j \in 1..2 : j # i => sequences'[j].next = sequences[j].next
      BY <2>7
    <3>3. sequences'[i].next = n + 1 /\ sequences[i].next = n /\ n \in Nat
      BY <1>1, <2>1, <2>7
    <3>4. QED BY <3>1, <3>2, <3>3
  <2>12. ReservedBehind'
    <3>1. ASSUME NEW d \in Controllers, NEW j \in 1..Len(allocator'[d].got)
          PROVE  j \in 1..2 /\ allocator'[d].got[j] \in 1..sequences'[j].next - 1
      <4>1. CASE d # c \/ j # i
        <5>1. j \in 1..Len(allocator[d].got) /\ allocator'[d].got[j] = allocator[d].got[j]
          <6>1. CASE d # c BY <2>6, <6>1
          <6>2. CASE d = c
            <7>1. j \in 1..i - 1 BY <1>1, <2>3, <2>5, <2>6, <4>1, <6>2
            <7>2. i - 1 = Len(allocator[c].got) BY <1>1 DEF i
            <7>3. QED BY <2>3, <2>5, <2>6, <6>2, <7>1, <7>2
          <6>3. QED BY <6>1, <6>2
        <5>2. j \in 1..2 /\ allocator[d].got[j] \in 1..sequences[j].next - 1
          BY <5>1 DEF IdentityInv, ReservedBehind
        <5>3. sequences[j].next \in Nat /\ sequences'[j].next \in Nat /\ sequences'[j].next >= sequences[j].next
          BY <2>11, <5>2
        <5>4. PICK v, k, l : v = allocator[d].got[j] /\ k = sequences[j].next /\ l = sequences'[j].next OBVIOUS
        <5>5. v \in 1..l - 1
          <6>1. k \in Nat /\ l \in Nat /\ l >= k /\ v \in 1..k - 1 BY <5>2, <5>3, <5>4
          <6>2. QED BY <6>1
        <5>6. QED BY <5>1, <5>2, <5>4, <5>5
      <4>2. CASE d = c /\ j = i
        BY <1>1, <2>3, <2>5, <2>6, <2>7, <4>2
      <4>3. QED BY <4>1, <4>2
    <3>2. ASSUME NEW x \in given, NEW j \in 1..2 PROVE x[2][j] \in 1..sequences'[j].next - 1
      <4>1. x[2][j] \in 1..sequences[j].next - 1 BY DEF IdentityInv, ReservedBehind
      <4>2. QED BY <2>11, <4>1
    <3>3. QED BY <1>2, <3>1, <3>2 DEF ReservedBehind
  <2>13. ReservedOnce'
    <3>1. ASSUME NEW d \in Controllers, d # c, i <= Len(allocator[d].got) PROVE allocator[d].got[i] # n
      <4>1. i \in 1..Len(allocator[d].got)
        BY <1>1, <3>1 DEF IdentityInv, IdentityType, Allocation
      <4>2. allocator[d].got[i] \in 1..sequences[i].next - 1
        BY <4>1 DEF IdentityInv, ReservedBehind
      <4>3. QED BY <1>1, <2>1, <4>2
    <3>2. ASSUME NEW x \in given PROVE x[2][i] # n
      <4>1. x[2][i] \in 1..sequences[i].next - 1 BY <1>1 DEF IdentityInv, ReservedBehind
      <4>2. QED BY <1>1, <2>1, <4>1
    <3>3. \A j \in 1..2 : j <= Len(allocator'[c].got) =>
             \/ j = i /\ allocator'[c].got[j] = n
             \/ j <= Len(allocator[c].got) /\ allocator'[c].got[j] = allocator[c].got[j]
      <4>1. i - 1 = Len(allocator[c].got) BY <1>1 DEF i
      <4>2. QED BY <1>1, <2>3, <2>5, <2>6, <4>1
    <3>4. ASSUME NEW d \in Controllers, NEW e \in Controllers, d # e, NEW j \in 1..2,
                 j <= Len(allocator'[d].got), j <= Len(allocator'[e].got)
          PROVE  allocator'[d].got[j] # allocator'[e].got[j]
      <4>1. CASE d = c BY <2>6, <3>1, <3>3, <3>4, <4>1 DEF IdentityInv, ReservedOnce
      <4>2. CASE e = c BY <2>6, <3>1, <3>3, <3>4, <4>2 DEF IdentityInv, ReservedOnce
      <4>3. CASE d # c /\ e # c BY <2>6, <3>4, <4>3 DEF IdentityInv, ReservedOnce
      <4>4. QED BY <4>1, <4>2, <4>3
    <3>5. ASSUME NEW d \in Controllers, NEW x \in given, NEW j \in 1..2, j <= Len(allocator'[d].got)
          PROVE  allocator'[d].got[j] # x[2][j]
      <4>1. CASE d = c BY <3>2, <3>3, <3>5, <4>1 DEF IdentityInv, ReservedOnce
      <4>2. CASE d # c BY <2>6, <3>5, <4>2 DEF IdentityInv, ReservedOnce
      <4>3. QED BY <4>1, <4>2
    <3>6. \A x, y \in given : x # y => \A j \in 1..2 : x[2][j] # y[2][j]
      BY DEF IdentityInv, ReservedOnce
    <3>7. QED BY <1>2, <3>4, <3>5, <3>6 DEF ReservedOnce
  <2>14. QED BY <2>8, <2>9, <2>10, <2>12, <2>13 DEF IdentityInv
<1>5. QED BY <1>3, <1>4

LEMMA StoreIdentityInv ==
    ASSUME IdentityInv, NEW c \in Controllers, Identity!StoreIdentity(c)
    PROVE  IdentityInv'
<1> DEFINE got == allocator[c].got
           x == <<allocator[c].run, got>>
<1>1. got \in Seq(Nat) /\ Len(got) = 2
  BY DEF IdentityInv, IdentityType, Allocation, ReservedSoFar, Identity!StoreIdentity
<1>2. /\ given' = given \cup {x} /\ UNCHANGED sequences
      /\ allocator' = [allocator EXCEPT ![c] = Identity!NoAllocation]
  BY DEF Identity!StoreIdentity
<1>3. \A j \in 1..2 : got[j] \in 1..sequences[j].next - 1
  BY <1>1 DEF IdentityInv, ReservedBehind
<1>4. ASSUME NEW y \in given, NEW j \in 1..2 PROVE x[2][j] # y[2][j]
  BY <1>1 DEF IdentityInv, ReservedOnce
<1>5. ASSUME NEW d \in Controllers, d # c, NEW j \in 1..2, j <= Len(allocator[d].got)
      PROVE  allocator[d].got[j] # x[2][j]
  BY <1>1, <1>5 DEF IdentityInv, ReservedOnce
<1>6. /\ \A d \in Controllers : d # c => allocator'[d] = allocator[d]
      /\ allocator'[c] = Identity!NoAllocation
  BY <1>2 DEF IdentityInv, IdentityType
<1>7. <<>> \in Seq(Nat) /\ Len(<<>>) = 0 OBVIOUS
<1>8. Identity!NoAllocation.at = "idle" /\ Identity!NoAllocation.got = <<>> BY DEF Identity!NoAllocation
<1>9. IdentityType'
  <2>1. allocator' \in [Controllers -> Allocation]
    BY <1>2, <1>7 DEF IdentityInv, IdentityType, Allocation, Identity!NoAllocation
  <2>2. \A y \in given' : y[2] \in Seq(Nat) BY <1>1, <1>2 DEF IdentityInv, IdentityType
  <2>3. QED BY <1>2, <2>1, <2>2 DEF IdentityInv, IdentityType
<1>10. ReservedSoFar' BY <1>6, <1>7, <1>8 DEF IdentityInv, ReservedSoFar
<1>11. ReadUnderVersion' BY <1>2, <1>6, <1>8 DEF IdentityInv, ReadUnderVersion
<1>12. ReservedBehind'
  <2>1. ASSUME NEW d \in Controllers, NEW j \in 1..Len(allocator'[d].got)
        PROVE  j \in 1..2 /\ allocator'[d].got[j] \in 1..sequences'[j].next - 1
    <3>1. d # c BY <1>6, <1>7, <1>8
    <3>2. QED BY <1>2, <1>6, <3>1 DEF IdentityInv, ReservedBehind
  <2>2. ASSUME NEW y \in given', NEW j \in 1..2 PROVE y[2][j] \in 1..sequences'[j].next - 1
    BY <1>2, <1>3 DEF IdentityInv, ReservedBehind
  <2>3. QED BY <2>1, <2>2 DEF ReservedBehind
<1>13. ReservedOnce'
  <2>1. ASSUME NEW d \in Controllers, NEW j \in 1..2, j <= Len(allocator'[d].got)
        PROVE  d # c /\ allocator'[d] = allocator[d]
    BY <1>6, <1>7, <1>8, <2>1
  <2>2. \A d, e \in Controllers : d # e =>
          \A j \in 1..2 : j <= Len(allocator'[d].got) /\ j <= Len(allocator'[e].got)
                             => allocator'[d].got[j] # allocator'[e].got[j]
    BY <2>1 DEF IdentityInv, ReservedOnce
  <2>3. ASSUME NEW d \in Controllers, NEW y \in given', NEW j \in 1..2, j <= Len(allocator'[d].got)
        PROVE  allocator'[d].got[j] # y[2][j]
    BY <1>2, <1>5, <2>1, <2>3 DEF IdentityInv, ReservedOnce
  <2>4. ASSUME NEW y \in given', NEW z \in given', y # z, NEW j \in 1..2 PROVE y[2][j] # z[2][j]
    BY <1>2, <1>4, <2>4 DEF IdentityInv, ReservedOnce
  <2>5. QED BY <2>2, <2>3, <2>4 DEF ReservedOnce
<1>14. QED BY <1>9, <1>10, <1>11, <1>12, <1>13 DEF IdentityInv

LEMMA IdentityNextInv ==
    ASSUME IdentityInv, Identity!IdentityNext PROVE IdentityInv'
<1>0. /\ Identity!NoAllocation \in Allocation
      /\ Identity!NoAllocation.at = "idle" /\ Identity!NoAllocation.got = <<>>
  BY DEF Identity!NoAllocation, Allocation
<1>1. ASSUME NEW c \in Controllers, Identity!AllocatorStep(c) PROVE IdentityInv'
  <2>1. CASE Identity!ReadSequence(c) BY <2>1, ReadSequenceInv
  <2>2. CASE Identity!WriteSequence(c) BY <2>2, WriteSequenceInv
  <2>3. CASE Identity!StoreIdentity(c) BY <2>3, StoreIdentityInv
  <2>4. CASE Identity!Exhausted(c)
    BY <1>0, <2>4, DropAllocation DEF Identity!Exhausted
  <2>5. QED BY <1>1, <2>1, <2>2, <2>3, <2>4 DEF Identity!AllocatorStep
<1>2. ASSUME NEW c \in Controllers, Identity!AllocatorEnds(c) PROVE IdentityInv'
  BY <1>0, <1>2, DropAllocation DEF Identity!AllocatorEnds
<1>3. ASSUME NEW c \in Controllers, NEW r \in Runs, Identity!BeginIdentity(c, r) PROVE IdentityInv'
  <2> DEFINE a == [Identity!NoAllocation EXCEPT !.at = "read", !.run = r]
  <2>1. r \in Runs \cup {0} /\ "read" \in {"idle", "read", "write", "exhausted", "store"} OBVIOUS
  <2>2. a \in Allocation /\ a.at = "read" /\ a.got = <<>>
    <3>1. a \in Allocation BY <1>0, <2>1, Zenon DEF Allocation
    <3>2. QED BY <3>1 DEF Identity!NoAllocation
  <2>3. allocator' = [allocator EXCEPT ![c] = a] /\ UNCHANGED <<sequences, given>>
    BY <1>3 DEF Identity!BeginIdentity
  <2> HIDE DEF a
  <2>4. QED BY <2>2, <2>3, DropAllocation
<1>4. ASSUME NEW r \in Runs, Identity!IdentityCached(r) PROVE IdentityInv'
  BY <1>4 DEF Identity!IdentityCached, IdentityInv, IdentityType, ReservedSoFar, ReadUnderVersion, ReservedBehind, ReservedOnce
<1>5. QED BY <1>1, <1>2, <1>3, <1>4 DEF Identity!IdentityNext

(* The component stands still while another one is in focus.               *)
LEMMA IdentityStep ==
    ASSUME On("identity") => IdentityInv, [Next]_vars PROVE (On("identity") => IdentityInv)'
<1> SUFFICES ASSUME On("identity")' PROVE IdentityInv' OBVIOUS
<1>1. On("identity") BY DEF Next, On, Alone, vars
<1>2. CASE Next
  <2>1. Identity!IdentityNext BY <1>1, <1>2 DEF Next, On
  <2>2. QED BY <1>1, <2>1, IdentityNextInv
<1>3. CASE UNCHANGED vars
  BY <1>1, <1>3 DEF vars, identityVars, IdentityInv, IdentityType, ReservedSoFar, ReadUnderVersion, ReservedBehind, ReservedOnce
<1>4. QED BY <1>2, <1>3

(* No two runs ever carry the same ID or number, and none is beyond what   *)
(* GitHub's clients hold (allocateWorkflowRunSequence), whatever races,    *)
(* restarts and stale caches there were: the safety half of NumbersGiven.  *)
THEOREM NumbersNeverCollide ==
    Spec => [](On("identity") => Identity!NumbersUnique /\ Identity!NumbersInRange)
<1>1. Init => (On("identity") => IdentityInv) BY IdentityInitInv DEF Init
<1>2. (On("identity") => IdentityInv) /\ [Next]_vars => (On("identity") => IdentityInv)' BY IdentityStep
<1>3. IdentityInv => Identity!NumbersUnique
  BY DEF IdentityInv, ReservedOnce, Identity!NumbersUnique, Identity!Scopes
<1>4. IdentityInv => Identity!NumbersInRange
  <2> SUFFICES ASSUME IdentityInv, NEW x \in given, NEW i \in 1..2 PROVE x[2][i] \in 1..MaxNumber - 1
    BY DEF Identity!NumbersInRange, Identity!Scopes
  <2>1. x[2][i] \in 1..sequences[i].next - 1 BY DEF IdentityInv, ReservedBehind
  <2>2. sequences[i].next \in 1..MaxNumber BY DEF IdentityInv, IdentityType, Sequence
  <2>3. QED BY <2>1, <2>2, NumberAssumption
<1>5. QED BY <1>1, <1>2, <1>3, <1>4, PTL DEF Spec

-----------------------------------------------------------------------------
(* StatusReports.                                                          *)

Reports == {"none", "pending", "success", "cancelled"}

RunState == [state : {"none", "live", "deleting", "gone"}, labelled : BOOLEAN,
             job : {"running", "done"}, recorded : Reports]

Owner == [run : 0..Newest, token : Nat, intent : Reports]

ShownStatus == [run : 0..Newest, report : Reports]

Reconcile == [at : {"idle", "claim", "intend", "send", "record", "release"}, run : 0..Newest,
              report : Reports, token : Nat, found : ShownStatus]

StatusType ==
    /\ statusRun \in [1..Newest -> RunState]
    /\ owner \in Owner /\ shown \in ShownStatus
    /\ DOMAIN sent \subseteq [run : 1..Newest, report : Reports]
    /\ \A m \in DOMAIN sent : sent[m] \in Nat
    /\ reporter \in [Reporters -> Reconcile]
    /\ alone \in BOOLEAN /\ tokens \in Nat

(* A run is labelled before anything is done for it.                       *)
LabelledFirst ==
    /\ \A r \in 1..Newest : statusRun[r].labelled => statusRun[r].state # "none"
    /\ \A c \in Reporters : reporter[c].run # 0 => statusRun[reporter[c].run].labelled
    /\ owner.run # 0 => statusRun[owner.run].labelled
    /\ shown.run # 0 => statusRun[shown.run].labelled
    /\ \A m \in DOMAIN sent : statusRun[m.run].labelled

(* Whoever is past the claim holds the lease, for the run that owns the    *)
(* status; and a run is reconciled once at a time.                         *)
LeaseHeld ==
    /\ owner.run = 0 => owner.intent = "none"
    /\ \A c \in Reporters :
          /\ reporter[c].at = "idle" <=> reporter[c].run = 0
          /\ reporter[c].at \in {"idle", "claim"} => reporter[c].token = 0
          /\ reporter[c].at \in {"intend", "send", "record", "release"} =>
                reporter[c].token # 0 /\ owner.token = reporter[c].token /\ owner.run = reporter[c].run
    /\ \A c, d \in Reporters : c # d /\ reporter[c].run # 0 => reporter[c].run # reporter[d].run

(* Somebody may take the status back from run s.                           *)
Superseded(s) == \E q \in s..Newest : statusRun[q].labelled /\ statusRun[q].state \in {"deleting", "gone"}

OwnerAhead == shown.run > owner.run => Superseded(shown.run)

(* The one run that reports, while nobody else may touch the status.       *)
Undisturbed(r) == statusRun[r].state = "live" /\ \A q \in 1..Newest : q # r => ~statusRun[q].labelled

Pending(r) == [run |-> r, report |-> "pending"]
Success(r) == [run |-> r, report |-> "success"]

(* What was sent for it is what the intent says, and can be found again.   *)
SentAsMeant(r) ==
    /\ \A m \in DOMAIN sent : sent[m] = 1
    /\ Success(r) \in DOMAIN sent =>
          statusRun[r].job = "done" /\ shown = Success(r) /\ owner.run = r /\ owner.intent = "success"
    /\ Pending(r) \in DOMAIN sent =>
          owner.run = r /\ owner.intent \in {"pending", "success"} /\ (shown = Pending(r) \/ Success(r) \in DOMAIN sent)
    /\ owner.intent = "success" => statusRun[r].job = "done"
    /\ \A c \in Reporters : reporter[c].at # "idle" =>
          /\ reporter[c].report \in {"pending", "success"}
          /\ reporter[c].report = "success" => statusRun[r].job = "done"
          /\ reporter[c].report = "pending" => Success(r) \notin DOMAIN sent /\ owner.intent # "success"
          /\ reporter[c].at = "send" =>
                /\ owner.intent = reporter[c].report
                /\ Status!Message(c) \in DOMAIN sent => reporter[c].found = Status!Message(c)

OnceWhileAlone ==
    alone =>
        /\ \A c, d \in Reporters : c # d => reporter[c].at = "idle" \/ reporter[d].at = "idle"
        /\ \A r \in 1..Newest : Undisturbed(r) => SentAsMeant(r)

StatusInv == StatusType /\ LabelledFirst /\ LeaseHeld /\ OwnerAhead /\ OnceWhileAlone

LEMMA StatusInitInv == ASSUME Status!StatusInit PROVE StatusInv
<1> USE NewestAssumption DEF Status!StatusInit, Status!NoOwner, Status!Nothing, Status!NoReport
<1>1. StatusType
  <2>1. statusRun \in [1..Newest -> RunState] BY DEF RunState, Reports
  <2>2. owner \in Owner /\ shown \in ShownStatus BY DEF Owner, ShownStatus, Reports
  <2>3. reporter \in [Reporters -> Reconcile] BY DEF Reconcile, ShownStatus, Reports
  <2>4. DOMAIN sent = {} OBVIOUS
  <2>5. QED BY <2>1, <2>2, <2>3, <2>4 DEF StatusType
<1>2. \A c \in Reporters : reporter[c].at = "idle" /\ reporter[c].run = 0 /\ reporter[c].token = 0 OBVIOUS
<1>3. \A r \in 1..Newest : ~statusRun[r].labelled OBVIOUS
<1>4. owner.run = 0 /\ owner.intent = "none" /\ shown.run = 0 /\ DOMAIN sent = {} OBVIOUS
<1>5. LabelledFirst BY <1>2, <1>3, <1>4 DEF LabelledFirst
<1>6. LeaseHeld BY <1>2, <1>4 DEF LeaseHeld
<1>7. OwnerAhead BY <1>4 DEF OwnerAhead
<1>8. OnceWhileAlone BY <1>2, <1>4 DEF OnceWhileAlone, SentAsMeant
<1>9. QED BY <1>1, <1>5, <1>6, <1>7, <1>8 DEF StatusInv

(* The type of the parts, as the steps below use it.                       *)
LEMMA StatusParts ==
    ASSUME StatusInv
    PROVE  /\ owner.run \in 0..Newest /\ owner.token \in Nat /\ owner.intent \in Reports
           /\ shown.run \in 0..Newest /\ tokens \in Nat
           /\ \A c \in Reporters : /\ reporter[c] \in Reconcile /\ reporter[c].run \in 0..Newest
                                   /\ reporter[c].report \in Reports /\ reporter[c].token \in Nat
           /\ \A r \in 1..Newest : statusRun[r] \in RunState
BY DEF StatusInv, StatusType, Owner, ShownStatus, Reconcile

(* Once superseded, always superseded: deletion is never undone.           *)
LEMMA SupersededStays ==
    ASSUME NEW s \in 1..Newest, Superseded(s),
           \A q \in 1..Newest :
               statusRun[q].labelled /\ statusRun[q].state \in {"deleting", "gone"}
                   => statusRun'[q].labelled /\ statusRun'[q].state \in {"deleting", "gone"}
    PROVE  \E q \in s..Newest : statusRun'[q].labelled /\ statusRun'[q].state \in {"deleting", "gone"}
<1>1. PICK q \in s..Newest : statusRun[q].labelled /\ statusRun[q].state \in {"deleting", "gone"}
  BY DEF Superseded
<1>2. q \in 1..Newest BY NewestAssumption
<1>3. QED BY <1>1, <1>2

(* A reconcile ends, or goes on to release its lease.                      *)
LEMMA GiveUpReport ==
    ASSUME StatusInv, NEW c \in Reporters,
           \/ reporter' = [reporter EXCEPT ![c] = Status!NoReport]
           \/ reporter[c].at = "record" /\ reporter' = [reporter EXCEPT ![c].at = "release"],
           \/ owner' = owner
           \/ /\ reporter[c].at = "release" /\ owner' = [owner EXCEPT !.token = 0]
              /\ reporter' = [reporter EXCEPT ![c] = Status!NoReport],
           \A r \in 1..Newest : /\ statusRun'[r].state = statusRun[r].state /\ statusRun'[r].job = statusRun[r].job
                               /\ statusRun'[r].labelled = statusRun[r].labelled,
           statusRun' \in [1..Newest -> RunState],
           UNCHANGED <<shown, sent, alone, tokens>>
    PROVE  StatusInv'
<1> USE NewestAssumption
<1>1. /\ Status!NoReport \in Reconcile /\ Status!NoReport.at = "idle"
      /\ Status!NoReport.run = 0 /\ Status!NoReport.token = 0
  BY DEF Status!NoReport, Status!Nothing, Reconcile, ShownStatus, Reports
<1>2. PICK a \in Reconcile :
        /\ reporter' = [reporter EXCEPT ![c] = a]
        /\ \/ a.at = "idle" /\ a.run = 0 /\ a.token = 0
           \/ /\ reporter[c].at = "record" /\ a.at = "release" /\ a.run = reporter[c].run
              /\ a.token = reporter[c].token /\ a.report = reporter[c].report /\ owner' = owner
  <2>1. CASE reporter' = [reporter EXCEPT ![c] = Status!NoReport] BY <1>1, <2>1
  <2>2. CASE reporter[c].at = "record" /\ reporter' = [reporter EXCEPT ![c].at = "release"]
    <3> DEFINE a == [reporter[c] EXCEPT !.at = "release"]
    <3>1. reporter[c] \in Reconcile BY StatusParts
    <3>2. a \in Reconcile BY <3>1, Zenon DEF Reconcile
    <3>3. /\ a.at = "release" /\ a.run = reporter[c].run /\ a.token = reporter[c].token
          /\ a.report = reporter[c].report
      BY <3>1 DEF Reconcile
    <3>4. reporter' = [reporter EXCEPT ![c] = a] BY <2>2 DEF StatusInv, StatusType
    <3>5. owner' = owner
      <4>1. reporter[c].at # "release" BY <2>2
      <4>2. QED BY <4>1
    <3> HIDE DEF a
    <3>6. QED BY <2>2, <3>2, <3>3, <3>4, <3>5
  <2>3. QED BY <2>1, <2>2
<1>3. reporter'[c] = a /\ \A d \in Reporters : d # c => reporter'[d] = reporter[d]
  BY <1>2 DEF StatusInv, StatusType
<1>4. owner' \in Owner /\ owner'.run = owner.run /\ owner'.intent = owner.intent
  <2>1. owner \in Owner BY DEF StatusInv, StatusType
  <2>2. [owner EXCEPT !.token = 0] \in Owner BY <2>1, Zenon DEF Owner
  <2>3. [owner EXCEPT !.token = 0].run = owner.run /\ [owner EXCEPT !.token = 0].intent = owner.intent
    BY <2>1 DEF Owner
  <2>4. QED BY <2>1, <2>2, <2>3
<1>5. StatusType' BY <1>2, <1>4 DEF StatusInv, StatusType
<1>6. LabelledFirst'
  <2>1. \A d \in Reporters : reporter'[d].run # 0 => reporter'[d].run = reporter[d].run BY <1>2, <1>3
  <2>2. \A d \in Reporters : reporter[d].run \in 0..Newest BY StatusParts
  <2>3. \A r \in 0..Newest : r # 0 => r \in 1..Newest OBVIOUS
  <2>4. owner.run \in 0..Newest /\ shown.run \in 0..Newest BY StatusParts
  <2>5. \A m \in DOMAIN sent : m.run \in 1..Newest BY DEF StatusInv, StatusType
  <2>6. QED BY <1>4, <2>1, <2>2, <2>3, <2>4, <2>5 DEF StatusInv, LabelledFirst
<1>7. LeaseHeld'
  <2>1. ASSUME NEW d \in Reporters, d # c, reporter[d].at \in {"intend", "send", "record", "release"}
        PROVE  owner' = owner
    <3>1. reporter[d].run = owner.run /\ reporter[d].run # 0 BY <2>1 DEF StatusInv, LeaseHeld
    <3>2. reporter[c].at # "release" BY <2>1, <3>1 DEF StatusInv, LeaseHeld
    <3>3. QED BY <3>2
  <2>2. ASSUME NEW d \in Reporters
        PROVE  /\ reporter'[d].at = "idle" <=> reporter'[d].run = 0
               /\ reporter'[d].at \in {"idle", "claim"} => reporter'[d].token = 0
               /\ reporter'[d].at \in {"intend", "send", "record", "release"} =>
                     reporter'[d].token # 0 /\ owner'.token = reporter'[d].token /\ owner'.run = reporter'[d].run
    <3>1. CASE d = c BY <1>2, <1>3, <3>1 DEF StatusInv, LeaseHeld
    <3>2. CASE d # c BY <1>3, <2>1, <3>2 DEF StatusInv, LeaseHeld
    <3>3. QED BY <3>1, <3>2
  <2>3. \A d, e \in Reporters : d # e /\ reporter'[d].run # 0 => reporter'[d].run # reporter'[e].run
    BY <1>2, <1>3 DEF StatusInv, LeaseHeld
  <2>4. QED BY <1>4, <2>2, <2>3 DEF StatusInv, LeaseHeld
<1>8. OwnerAhead'
  <2> SUFFICES ASSUME shown.run > owner.run PROVE Superseded(shown.run)'
    BY <1>4 DEF OwnerAhead
  <2>1. shown.run \in 1..Newest /\ Superseded(shown.run) BY StatusParts DEF StatusInv, OwnerAhead
  <2>2. \E q \in shown.run..Newest : statusRun'[q].labelled /\ statusRun'[q].state \in {"deleting", "gone"}
    BY <2>1, SupersededStays
  <2>3. QED BY <2>2 DEF Superseded
<1>9. OnceWhileAlone'
  <2> SUFFICES ASSUME alone
               PROVE  /\ \A d, e \in Reporters : d # e => reporter'[d].at = "idle" \/ reporter'[e].at = "idle"
                      /\ \A r \in 1..Newest : Undisturbed(r)' => SentAsMeant(r)'
    BY DEF OnceWhileAlone
  <2>1. \A d \in Reporters : reporter[d].at = "idle" => reporter'[d].at = "idle" BY <1>2, <1>3
  <2>2. ASSUME NEW r \in 1..Newest, Undisturbed(r)' PROVE SentAsMeant(r)'
    <3>1. SentAsMeant(r) BY <2>2 DEF Undisturbed, StatusInv, OnceWhileAlone
    <3>2. \A d \in Reporters : reporter'[d].at # "idle" =>
             /\ reporter[d].at # "idle" /\ reporter'[d].report = reporter[d].report
             /\ reporter'[d].at = "send" => reporter'[d] = reporter[d]
      BY <1>2, <1>3
    <3>3. \A d \in Reporters : reporter'[d] = reporter[d] => Status!Message(d)' = Status!Message(d)
      BY DEF Status!Message
    <3>4. QED BY <1>4, <3>1, <3>2, <3>3 DEF SentAsMeant, Pending, Success
  <2>3. QED BY <2>1, <2>2 DEF StatusInv, OnceWhileAlone
<1>10. QED BY <1>5, <1>6, <1>7, <1>8, <1>9 DEF StatusInv

LEMMA LoadStatusInv ==
    ASSUME StatusInv, NEW c \in Reporters, NEW r \in 1..Newest, Status!LoadStatus(c, r)
    PROVE  StatusInv'
<1> USE NewestAssumption
<1> DEFINE b == [Status!NoReport EXCEPT !.at = "claim", !.run = r, !.report = Status!Report(r)]
<1>1. /\ Status!NoReport \in Reconcile /\ Status!NoReport.at = "idle"
      /\ Status!NoReport.run = 0 /\ Status!NoReport.token = 0
  BY DEF Status!NoReport, Status!Nothing, Reconcile, ShownStatus, Reports
<1>2. Status!Report(r) \in Reports /\ Status!Report(r) # "none" BY DEF Status!Report, Reports
<1>3. b \in Reconcile /\ b.at = "claim" /\ b.run = r /\ b.token = 0 /\ b.report = Status!Report(r)
  <2>1. "claim" \in {"idle", "claim", "intend", "send", "record", "release"} /\ r \in 0..Newest OBVIOUS
  <2>2. b \in Reconcile BY <1>1, <1>2, <2>1, Zenon DEF Reconcile
  <2>3. QED BY <2>2 DEF Status!NoReport
<1>4. PICK a \in Reconcile :
        /\ reporter' = [reporter EXCEPT ![c] = a]
        /\ \/ a.at = "idle" /\ a.run = 0 /\ a.token = 0
           \/ a.at = "claim" /\ a.run = r /\ a.token = 0 /\ a.report = Status!Report(r)
  <2>1. \/ reporter' = [reporter EXCEPT ![c] = Status!NoReport] \/ reporter' = [reporter EXCEPT ![c] = b]
    BY DEF Status!LoadStatus
  <2> HIDE DEF b
  <2>2. QED BY <1>1, <1>3, <2>1
<1> HIDE DEF b
<1>5. reporter'[c] = a /\ \A d \in Reporters : d # c => reporter'[d] = reporter[d]
  BY <1>4 DEF StatusInv, StatusType
<1>6. /\ reporter[c].at = "idle" /\ \A d \in Reporters : reporter[d].run # r
      /\ statusRun[r].state \in {"live", "deleting"}
      /\ alone' = (alone /\ \A d \in Reporters : reporter[d].at = "idle")
      /\ UNCHANGED <<owner, shown, sent, tokens>>
  BY StatusParts DEF Status!LoadStatus, Status!Turn, Status!Quiet, Status!Present, RunState
<1>7. /\ statusRun' \in [1..Newest -> RunState]
      /\ \A q \in 1..Newest : /\ statusRun'[q].state = statusRun[q].state /\ statusRun'[q].job = statusRun[q].job
                              /\ statusRun'[q].labelled = IF q = r THEN TRUE ELSE statusRun[q].labelled
  <2> DEFINE t == [statusRun[r] EXCEPT !.labelled = TRUE]
  <2>1. statusRun[r] \in RunState BY StatusParts
  <2>2. t \in RunState BY <2>1, Zenon DEF RunState
  <2>3. t.state = statusRun[r].state /\ t.job = statusRun[r].job /\ t.labelled BY <2>1 DEF RunState
  <2>4. statusRun' = [statusRun EXCEPT ![r] = t] BY DEF Status!LoadStatus, StatusInv, StatusType
  <2> HIDE DEF t
  <2>5. QED BY <2>2, <2>3, <2>4 DEF StatusInv, StatusType
<1>8. StatusType'
  <2>1. alone' \in BOOLEAN BY <1>6
  <2>2. reporter' \in [Reporters -> Reconcile] BY <1>4 DEF StatusInv, StatusType
  <2>3. QED BY <1>6, <1>7, <2>1, <2>2 DEF StatusInv, StatusType
<1>9. LabelledFirst'
  <2>1. \A d \in Reporters : reporter'[d].run # 0 => reporter'[d].run = reporter[d].run \/ reporter'[d].run = r
    BY <1>4, <1>5
  <2>2. \A d \in Reporters : reporter[d].run \in 0..Newest BY StatusParts
  <2>3. \A q \in 0..Newest : q # 0 => q \in 1..Newest OBVIOUS
  <2>4. owner.run \in 0..Newest /\ shown.run \in 0..Newest BY StatusParts
  <2>5. \A m \in DOMAIN sent : m.run \in 1..Newest BY DEF StatusInv, StatusType
  <2>6. \A q \in 1..Newest : statusRun[q].labelled => statusRun'[q].labelled BY <1>7
  <2>7. \A q \in 1..Newest : statusRun'[q].labelled => statusRun'[q].state # "none"
    BY <1>6, <1>7 DEF StatusInv, LabelledFirst
  <2>8. \A d \in Reporters : reporter'[d].run # 0 => statusRun'[reporter'[d].run].labelled
    BY <1>7, <2>1, <2>2, <2>3, <2>6 DEF StatusInv, LabelledFirst
  <2>9. /\ owner.run # 0 => statusRun'[owner.run].labelled
        /\ shown.run # 0 => statusRun'[shown.run].labelled
        /\ \A m \in DOMAIN sent : statusRun'[m.run].labelled
    BY <2>3, <2>4, <2>5, <2>6 DEF StatusInv, LabelledFirst
  <2>10. QED BY <1>6, <2>7, <2>8, <2>9 DEF LabelledFirst
<1>10. LeaseHeld'
  <2>1. ASSUME NEW d \in Reporters
        PROVE  /\ reporter'[d].at = "idle" <=> reporter'[d].run = 0
               /\ reporter'[d].at \in {"idle", "claim"} => reporter'[d].token = 0
               /\ reporter'[d].at \in {"intend", "send", "record", "release"} =>
                     reporter'[d].token # 0 /\ owner'.token = reporter'[d].token /\ owner'.run = reporter'[d].run
    <3>1. CASE d = c BY <1>4, <1>5, <3>1
    <3>2. CASE d # c BY <1>5, <1>6, <3>2 DEF StatusInv, LeaseHeld
    <3>3. QED BY <3>1, <3>2
  <2>2. \A d, e \in Reporters : d # e /\ reporter'[d].run # 0 => reporter'[d].run # reporter'[e].run
    <3> SUFFICES ASSUME NEW d \in Reporters, NEW e \in Reporters, d # e, reporter'[d].run # 0
                 PROVE  reporter'[d].run # reporter'[e].run
      OBVIOUS
    <3>1. CASE d = c BY <1>4, <1>5, <1>6, <3>1
    <3>2. CASE e = c BY <1>4, <1>5, <1>6, <3>2
    <3>3. CASE d # c /\ e # c BY <1>5, <3>3 DEF StatusInv, LeaseHeld
    <3>4. QED BY <3>1, <3>2, <3>3
  <2>3. QED BY <1>6, <2>1, <2>2 DEF StatusInv, LeaseHeld
<1>11. OwnerAhead'
  <2> SUFFICES ASSUME shown.run > owner.run PROVE Superseded(shown.run)'
    BY <1>6 DEF OwnerAhead
  <2>1. shown.run \in 1..Newest /\ Superseded(shown.run) BY StatusParts DEF StatusInv, OwnerAhead
  <2>2. \E q \in shown.run..Newest : statusRun'[q].labelled /\ statusRun'[q].state \in {"deleting", "gone"}
    BY <1>7, <2>1, SupersededStays
  <2>3. QED BY <1>6, <2>2 DEF Superseded
<1>12. OnceWhileAlone'
  <2> SUFFICES ASSUME alone'
               PROVE  /\ \A d, e \in Reporters : d # e => reporter'[d].at = "idle" \/ reporter'[e].at = "idle"
                      /\ \A q \in 1..Newest : Undisturbed(q)' => SentAsMeant(q)'
    BY DEF OnceWhileAlone
  <2>1. alone /\ \A d \in Reporters : reporter[d].at = "idle" BY <1>6
  <2>2. \A d \in Reporters : d # c => reporter'[d].at = "idle" BY <1>5, <2>1
  <2>3. ASSUME NEW q \in 1..Newest, Undisturbed(q)' PROVE SentAsMeant(q)'
    <3>1. q = r /\ Undisturbed(q) BY <1>7, <2>3 DEF Undisturbed
    <3>2. SentAsMeant(q) BY <2>1, <3>1 DEF StatusInv, OnceWhileAlone
    <3>3. /\ Status!Report(q) = IF statusRun[q].job = "done" THEN "success" ELSE "pending"
          /\ statusRun[q].job \in {"running", "done"}
      BY <3>1, StatusParts DEF Status!Report, Undisturbed, RunState
    <3>4. ASSUME NEW d \in Reporters, reporter'[d].at # "idle"
          PROVE  /\ reporter'[d].at = "claim" /\ reporter'[d].report \in {"pending", "success"}
                 /\ reporter'[d].report = "success" <=> statusRun[q].job = "done"
      BY <1>4, <1>5, <2>2, <3>1, <3>3, <3>4
    <3>5. QED BY <1>6, <1>7, <3>2, <3>4 DEF SentAsMeant, Pending, Success
  <2>4. QED BY <2>2, <2>3
<1>13. QED BY <1>8, <1>9, <1>10, <1>11, <1>12 DEF StatusInv

LEMMA ClaimStatusInv ==
    ASSUME StatusInv, NEW c \in Reporters, Status!ClaimStatus(c)
    PROVE  StatusInv'
<1> USE NewestAssumption
<1> DEFINE r == reporter[c].run
           o == [run |-> r, token |-> tokens + 1, intent |-> IF owner.run = r THEN owner.intent ELSE "none"]
           a == [reporter[c] EXCEPT !.at = "intend", !.token = tokens + 1]
<1>1. /\ reporter[c].at = "claim" /\ r \in 1..Newest /\ reporter[c] \in Reconcile
      /\ UNCHANGED <<statusRun, shown, sent, alone>>
  BY StatusParts DEF Status!ClaimStatus, StatusInv, LeaseHeld
<1>2. CASE Status!OwnerStays(r) \/ owner.token # 0
  <2>1. reporter' = [reporter EXCEPT ![c] = Status!NoReport] /\ UNCHANGED <<owner, tokens>>
    BY <1>2 DEF Status!ClaimStatus, Status!ReportEnds
  <2>2. statusRun' \in [1..Newest -> RunState] BY <1>1 DEF StatusInv, StatusType
  <2>3. QED BY <1>1, <2>1, <2>2, GiveUpReport
<1>3. CASE ~(Status!OwnerStays(r) \/ owner.token # 0)
  <2>1. /\ owner.token = 0 /\ owner' = o /\ tokens' = tokens + 1 /\ reporter' = [reporter EXCEPT ![c] = a]
        /\ owner.run > r => statusRun[owner.run].state # "live"
    BY <1>3 DEF Status!ClaimStatus, Status!OwnerStays, StatusInv, StatusType
  <2>2. tokens \in Nat /\ owner.intent \in Reports /\ "none" \in Reports BY StatusParts DEF Reports
  <2>3. o \in Owner /\ o.run = r /\ o.token = tokens + 1 /\ o.intent \in {owner.intent, "none"}
        /\ o.token # 0 /\ (owner.run = r => o.intent = owner.intent)
    BY <1>1, <2>2 DEF Owner
  <2>4. /\ a \in Reconcile /\ a.at = "intend" /\ a.token = tokens + 1
        /\ a.run = r /\ a.report = reporter[c].report
    <3>1. a \in Reconcile
      <4>1. tokens + 1 \in Nat BY <2>2
      <4>2. QED BY <1>1, <4>1, Zenon DEF Reconcile
    <3>2. a.at = "intend" /\ a.run = r /\ a.report = reporter[c].report BY <1>1 DEF Reconcile
    <3>3. a.token = tokens + 1 BY <1>1, Zenon DEF Reconcile
    <3>4. QED BY <3>1, <3>2, <3>3
  <2> HIDE DEF o, a, r
  <2>5. reporter'[c] = a /\ \A d \in Reporters : d # c => reporter'[d] = reporter[d]
    BY <2>1 DEF StatusInv, StatusType
  <2>6. \A d \in Reporters : reporter[d].at \notin {"intend", "send", "record", "release"}
    BY <2>1 DEF StatusInv, LeaseHeld
  <2>7. StatusType'
    <3>1. tokens' \in Nat BY <2>1, <2>2
    <3>2. reporter' \in [Reporters -> Reconcile] BY <2>1, <2>4 DEF StatusInv, StatusType
    <3>3. QED BY <1>1, <2>1, <2>3, <3>1, <3>2 DEF StatusInv, StatusType
  <2>8. LabelledFirst'
    <3>1. statusRun[r].labelled BY <1>1 DEF StatusInv, LabelledFirst, r
    <3>2. \A d \in Reporters : reporter'[d].run = reporter[d].run BY <2>4, <2>5 DEF r
    <3>3. owner'.run = r BY <2>1, <2>3
    <3>4. QED BY <1>1, <3>1, <3>2, <3>3 DEF StatusInv, LabelledFirst
  <2>9. LeaseHeld'
    <3>1. ASSUME NEW d \in Reporters
          PROVE  /\ reporter'[d].at = "idle" <=> reporter'[d].run = 0
                 /\ reporter'[d].at \in {"idle", "claim"} => reporter'[d].token = 0
                 /\ reporter'[d].at \in {"intend", "send", "record", "release"} =>
                       reporter'[d].token # 0 /\ owner'.token = reporter'[d].token /\ owner'.run = reporter'[d].run
      <4>1. CASE d = c BY <1>1, <2>1, <2>3, <2>4, <2>5, <4>1 DEF r
      <4>2. CASE d # c BY <2>5, <2>6, <4>2 DEF StatusInv, LeaseHeld
      <4>3. QED BY <4>1, <4>2
    <3>2. \A d \in Reporters : reporter'[d].run = reporter[d].run BY <2>4, <2>5 DEF r
    <3>3. \A d, e \in Reporters : d # e /\ reporter'[d].run # 0 => reporter'[d].run # reporter'[e].run
      BY <3>2 DEF StatusInv, LeaseHeld
    <3>4. owner'.run # 0 BY <1>1, <2>1, <2>3
    <3>5. QED BY <3>1, <3>3, <3>4 DEF LeaseHeld
  (* Whoever takes the status from a newer run finds it deleted; and if    *)
  (* that one was behind the run GitHub shows, somebody else was before.   *)
  <2>10. OwnerAhead'
    <3> SUFFICES ASSUME shown.run > r PROVE Superseded(shown.run)
      BY <1>1, <2>1, <2>3 DEF OwnerAhead, Superseded
    <3>1. shown.run \in 0..Newest /\ owner.run \in 0..Newest BY StatusParts
    <3>2. CASE shown.run > owner.run BY <3>2 DEF StatusInv, OwnerAhead
    <3>3. CASE shown.run <= owner.run
      <4>1. owner.run \in shown.run..Newest /\ owner.run \in 1..Newest /\ owner.run > r
        BY <1>1, <3>1, <3>3
      <4>2. statusRun[owner.run].labelled /\ statusRun[owner.run].state \notin {"none", "live"}
        BY <2>1, <4>1 DEF StatusInv, LabelledFirst
      <4>3. statusRun[owner.run].state \in {"deleting", "gone"}
        <5>1. statusRun[owner.run] \in RunState BY <4>1, StatusParts
        <5>2. QED BY <4>2, <5>1 DEF RunState
      <4>4. QED BY <4>1, <4>2, <4>3 DEF Superseded
    <3>4. QED BY <1>1, <3>1, <3>2, <3>3
  <2>11. OnceWhileAlone'
    <3> SUFFICES ASSUME alone
                 PROVE  /\ \A d, e \in Reporters : d # e => reporter'[d].at = "idle" \/ reporter'[e].at = "idle"
                        /\ \A q \in 1..Newest : Undisturbed(q)' => SentAsMeant(q)'
      BY <1>1 DEF OnceWhileAlone
    <3>1. \A d \in Reporters : reporter'[d].at = "idle" <=> reporter[d].at = "idle" BY <1>1, <2>4, <2>5
    <3>2. \A d, e \in Reporters : d # e => reporter'[d].at = "idle" \/ reporter'[e].at = "idle"
      BY <3>1 DEF StatusInv, OnceWhileAlone
    <3>3. ASSUME NEW q \in 1..Newest, Undisturbed(q)' PROVE SentAsMeant(q)'
      <4>1. Undisturbed(q) /\ SentAsMeant(q)
        BY <1>1, <3>3 DEF Undisturbed, StatusInv, OnceWhileAlone
      <4>2. r = q
        BY <1>1, <4>1 DEF StatusInv, LabelledFirst, Undisturbed, r
      <4>3. \A d \in Reporters : /\ reporter'[d].report = reporter[d].report
                                 /\ reporter'[d].at = "send" => reporter[d].at = "send" /\ reporter'[d] = reporter[d]
        BY <2>4, <2>5
      <4>4. \A d \in Reporters : reporter'[d].at # "send" BY <2>4, <2>5, <2>6
      <4>5. owner' = o BY <2>1
      <4>6. owner'.run = q /\ owner'.intent \in {owner.intent, "none"} /\ (owner.run = q => owner'.intent = owner.intent)
        BY <2>3, <4>2, <4>5
      <4>7. QED BY <1>1, <3>1, <4>1, <4>3, <4>4, <4>6 DEF SentAsMeant, Pending, Success
    <3>4. QED BY <3>2, <3>3
  <2>12. QED BY <2>7, <2>8, <2>9, <2>10, <2>11 DEF StatusInv
<1>4. QED BY <1>2, <1>3

LEMMA StoreIntentInv ==
    ASSUME StatusInv, NEW c \in Reporters, Status!StoreIntent(c)
    PROVE  StatusInv'
<1> USE NewestAssumption
<1> DEFINE a == [reporter[c] EXCEPT !.at = "send", !.found = Status!Found(c)]
           o == [owner EXCEPT !.intent = reporter[c].report]
<1>1. /\ reporter[c].at = "intend" /\ owner.run = reporter[c].run /\ owner.token = reporter[c].token
      /\ reporter[c] \in Reconcile /\ owner \in Owner /\ reporter[c].report \in Reports
      /\ UNCHANGED <<statusRun, shown, sent, alone, tokens>>
  <2>1. reporter[c].at = "intend" BY DEF Status!StoreIntent
  <2>2. QED BY <2>1, StatusParts DEF Status!StoreIntent, StatusInv, LeaseHeld, StatusType
<1>2. owner' = o /\ reporter' = [reporter EXCEPT ![c] = a]
  BY <1>1 DEF Status!StoreIntent, StatusInv, StatusType
<1>3. o \in Owner /\ o.run = owner.run /\ o.token = owner.token /\ o.intent = reporter[c].report
  <2>1. o \in Owner BY <1>1, Zenon DEF Owner
  <2>2. QED BY <1>1 DEF Owner
<1>4. /\ a \in Reconcile /\ a.at = "send" /\ a.run = reporter[c].run /\ a.token = reporter[c].token
      /\ a.report = reporter[c].report /\ a.found = Status!Found(c)
  <2>1. Status!Found(c) \in ShownStatus
    BY DEF Status!Found, Status!Nothing, ShownStatus, Reports, StatusInv, StatusType
  <2>2. a \in Reconcile BY <1>1, <2>1, Zenon DEF Reconcile
  <2>3. QED BY <1>1, <2>2 DEF Reconcile
<1> HIDE DEF a, o
<1>5. reporter'[c] = a /\ \A d \in Reporters : d # c => reporter'[d] = reporter[d]
  BY <1>2 DEF StatusInv, StatusType
<1>6. StatusType' BY <1>1, <1>2, <1>3, <1>4 DEF StatusInv, StatusType
<1>7. \A d \in Reporters : reporter'[d].run = reporter[d].run /\ reporter'[d].token = reporter[d].token
  BY <1>4, <1>5
<1>8. LabelledFirst' BY <1>1, <1>2, <1>3, <1>7 DEF StatusInv, LabelledFirst
<1>9. LeaseHeld'
  <2>1. owner'.run # 0 BY <1>1, <1>2, <1>3 DEF StatusInv, LeaseHeld
  <2>2. ASSUME NEW d \in Reporters
        PROVE  /\ reporter'[d].at = "idle" <=> reporter'[d].run = 0
               /\ reporter'[d].at \in {"idle", "claim"} => reporter'[d].token = 0
               /\ reporter'[d].at \in {"intend", "send", "record", "release"} =>
                     reporter'[d].token # 0 /\ owner'.token = reporter'[d].token /\ owner'.run = reporter'[d].run
    <3>1. CASE d = c BY <1>1, <1>2, <1>3, <1>4, <1>5, <3>1 DEF StatusInv, LeaseHeld
    <3>2. CASE d # c BY <1>2, <1>3, <1>5, <3>2 DEF StatusInv, LeaseHeld
    <3>3. QED BY <3>1, <3>2
  <2>3. QED BY <1>7, <2>1, <2>2 DEF StatusInv, LeaseHeld
<1>10. OwnerAhead' BY <1>1, <1>2, <1>3 DEF StatusInv, OwnerAhead, Superseded
<1>11. OnceWhileAlone'
  <2> SUFFICES ASSUME alone
               PROVE  /\ \A d, e \in Reporters : d # e => reporter'[d].at = "idle" \/ reporter'[e].at = "idle"
                      /\ \A q \in 1..Newest : Undisturbed(q)' => SentAsMeant(q)'
    BY <1>1 DEF OnceWhileAlone
  <2>1. \A d \in Reporters : d # c => reporter[d].at = "idle" /\ reporter'[d].at = "idle"
    BY <1>1, <1>5 DEF StatusInv, OnceWhileAlone
  <2>2. ASSUME NEW q \in 1..Newest, Undisturbed(q)' PROVE SentAsMeant(q)'
    <3>1. Undisturbed(q) /\ SentAsMeant(q)
      BY <1>1, <2>2 DEF Undisturbed, StatusInv, OnceWhileAlone
    <3>2. reporter[c].run = q
      <4>1. reporter[c].run # 0 /\ reporter[c].run \in 0..Newest BY <1>1, StatusParts DEF StatusInv, LeaseHeld
      <4>2. statusRun[reporter[c].run].labelled BY <4>1 DEF StatusInv, LabelledFirst
      <4>3. QED BY <3>1, <4>1, <4>2 DEF Undisturbed
    <3>3. /\ reporter[c].report \in {"pending", "success"}
          /\ reporter[c].report = "success" => statusRun[q].job = "done"
          /\ reporter[c].report = "pending" => Success(q) \notin DOMAIN sent /\ owner.intent # "success"
      BY <1>1, <3>1 DEF SentAsMeant
    <3>4. Status!Message(c) = IF reporter[c].report = "success" THEN Success(q) ELSE Pending(q)
      BY <3>2, <3>3 DEF Status!Message, Success, Pending
    <3>5. Status!Message(c) \in DOMAIN sent => Status!Found(c) = Status!Message(c)
      <4>1. CASE reporter[c].report = "success" BY <3>1, <3>4, <4>1 DEF SentAsMeant, Status!Found
      <4>2. CASE reporter[c].report = "pending" BY <3>1, <3>3, <3>4, <4>2 DEF SentAsMeant, Status!Found
      <4>3. QED BY <3>3, <4>1, <4>2
    <3>6. Status!Message(c)' = Status!Message(c) BY <1>4, <1>5 DEF Status!Message
    <3>7. owner'.run = owner.run /\ owner'.intent = reporter[c].report BY <1>2, <1>3
    <3>8. ASSUME NEW d \in Reporters, reporter'[d].at # "idle"
          PROVE  d = c /\ reporter'[d] = a
      BY <1>5, <2>1, <3>8
    <3>9. ASSUME NEW d \in Reporters, reporter'[d].at # "idle"
          PROVE  /\ reporter'[d].report \in {"pending", "success"}
                 /\ reporter'[d].report = "success" => statusRun[q].job = "done"
                 /\ reporter'[d].report = "pending" => Success(q) \notin DOMAIN sent /\ owner'.intent # "success"
                 /\ owner'.intent = reporter'[d].report
                 /\ Status!Message(d)' \in DOMAIN sent => reporter'[d].found = Status!Message(d)'
      BY <1>4, <3>3, <3>5, <3>6, <3>7, <3>8, <3>9
    <3>10. /\ Success(q) \in DOMAIN sent => owner'.intent = "success"
           /\ owner'.intent \in {"pending", "success"} /\ (owner'.intent = "success" => statusRun[q].job = "done")
      BY <3>3, <3>7
    <3>11. QED BY <1>1, <3>1, <3>7, <3>9, <3>10 DEF SentAsMeant, Pending, Success
  <2>3. QED BY <2>1, <2>2
<1>12. QED BY <1>6, <1>8, <1>9, <1>10, <1>11 DEF StatusInv

LEMMA SendStatusInv ==
    ASSUME StatusInv, NEW c \in Reporters, Status!SendStatus(c)
    PROVE  StatusInv'
<1> USE NewestAssumption
<1> DEFINE a == [reporter[c] EXCEPT !.at = "record"]
           m == Status!Message(c)
           r == reporter[c].run
<1>1. /\ reporter[c].at = "send" /\ reporter[c] \in Reconcile /\ reporter' = [reporter EXCEPT ![c] = a]
      /\ UNCHANGED <<statusRun, owner, alone, tokens>>
  BY StatusParts DEF Status!SendStatus, StatusInv, StatusType
<1>2. a \in Reconcile /\ a.at = "record" /\ a.run = r /\ a.token = reporter[c].token /\ a.report = reporter[c].report
  <2>1. a \in Reconcile BY <1>1, Zenon DEF Reconcile
  <2>2. QED BY <1>1, <2>1 DEF Reconcile
<1>3. r \in 1..Newest /\ owner.run = r /\ statusRun[r].labelled
  BY <1>1, StatusParts DEF StatusInv, LeaseHeld, LabelledFirst
<1>4. m \in [run : 1..Newest, report : Reports] /\ m.run = r /\ m.report = reporter[c].report /\ m \in ShownStatus
  BY <1>1, <1>3, StatusParts DEF Status!Message, ShownStatus
<1>5. \/ UNCHANGED <<shown, sent>> /\ reporter[c].found = m
      \/ /\ shown' = m /\ reporter[c].found # m
         /\ sent' = [x \in DOMAIN sent \cup {m} |-> IF x = m THEN Status!Count(m) + 1 ELSE sent[x]]
  BY DEF Status!SendStatus
<1>6. Status!Count(m) \in Nat /\ (m \notin DOMAIN sent => Status!Count(m) = 0)
  BY DEF Status!Count, StatusInv, StatusType
<1> HIDE DEF a, m, r
<1>7. reporter'[c] = a /\ \A d \in Reporters : d # c => reporter'[d] = reporter[d]
  BY <1>1 DEF StatusInv, StatusType
<1>8. \A d \in Reporters : reporter'[d].run = reporter[d].run /\ reporter'[d].token = reporter[d].token
                         /\ reporter'[d].report = reporter[d].report
                         /\ (reporter'[d].at = "idle" <=> reporter[d].at = "idle")
                         /\ (reporter'[d].at \in {"idle", "claim"} <=> reporter[d].at \in {"idle", "claim"})
                         /\ (reporter'[d].at \in {"intend", "send", "record", "release"}
                                 => reporter[d].at \in {"intend", "send", "record", "release"})
  BY <1>1, <1>2, <1>7 DEF r
<1>9. StatusType'
  <2>1. /\ DOMAIN sent' \subseteq [run : 1..Newest, report : Reports]
        /\ \A x \in DOMAIN sent' : sent'[x] \in Nat /\ shown' \in ShownStatus
    BY <1>4, <1>5, <1>6 DEF StatusInv, StatusType
  <2>2. shown' \in ShownStatus BY <1>4, <1>5 DEF StatusInv, StatusType
  <2>3. QED BY <1>1, <1>2, <2>1, <2>2 DEF StatusInv, StatusType
<1>10. LabelledFirst'
  <2>1. \A x \in DOMAIN sent' : x \in DOMAIN sent \/ x.run = r BY <1>4, <1>5
  <2>2. shown' = shown \/ shown'.run = r BY <1>4, <1>5
  <2>3. QED BY <1>1, <1>3, <1>8, <2>1, <2>2 DEF StatusInv, LabelledFirst
<1>11. LeaseHeld' BY <1>1, <1>8 DEF StatusInv, LeaseHeld
<1>12. OwnerAhead'
  <2>1. shown' = shown \/ shown'.run = owner.run BY <1>3, <1>4, <1>5
  <2>2. QED BY <1>1, <2>1, StatusParts DEF StatusInv, OwnerAhead, Superseded
<1>13. OnceWhileAlone'
  <2> SUFFICES ASSUME alone
               PROVE  /\ \A d, e \in Reporters : d # e => reporter'[d].at = "idle" \/ reporter'[e].at = "idle"
                      /\ \A q \in 1..Newest : Undisturbed(q)' => SentAsMeant(q)'
    BY <1>1 DEF OnceWhileAlone
  <2>1. \A d \in Reporters : d # c => reporter[d].at = "idle" /\ reporter'[d].at = "idle"
    BY <1>1, <1>7 DEF StatusInv, OnceWhileAlone
  <2>2. ASSUME NEW q \in 1..Newest, Undisturbed(q)' PROVE SentAsMeant(q)'
    <3>1. Undisturbed(q) /\ SentAsMeant(q)
      BY <1>1, <2>2 DEF Undisturbed, StatusInv, OnceWhileAlone
    <3>2. r = q BY <1>3, <3>1 DEF Undisturbed
    <3>3. /\ reporter[c].report \in {"pending", "success"} /\ owner.intent = reporter[c].report
          /\ reporter[c].report = "success" => statusRun[q].job = "done"
          /\ reporter[c].report = "pending" => Success(q) \notin DOMAIN sent
          /\ m \in DOMAIN sent => reporter[c].found = m
      BY <1>1, <3>1 DEF SentAsMeant, m
    <3>4. /\ reporter[c].report = "success" => m = Success(q)
          /\ reporter[c].report = "pending" => m = Pending(q)
      BY <3>2 DEF m, r, Status!Message, Success, Pending
    <3>5. Success(q) # Pending(q) BY DEF Success, Pending
    <3>6. ASSUME NEW d \in Reporters, reporter'[d].at # "idle"
          PROVE  d = c /\ reporter'[d].at # "send" /\ reporter'[d].report = reporter[c].report
      BY <1>2, <1>7, <2>1, <3>6
    <3>7. CASE UNCHANGED <<shown, sent>>
      BY <1>1, <3>1, <3>3, <3>6, <3>7 DEF SentAsMeant, Pending, Success
    <3>8. CASE /\ shown' = m /\ m \notin DOMAIN sent
               /\ sent' = [x \in DOMAIN sent \cup {m} |-> IF x = m THEN Status!Count(m) + 1 ELSE sent[x]]
      <4>1. DOMAIN sent' = DOMAIN sent \cup {m} BY <3>8
      <4>2. \A x \in DOMAIN sent' : sent'[x] = 1
        BY <1>6, <3>1, <3>8 DEF SentAsMeant
      <4>3. CASE reporter[c].report = "success"
        <5>1. shown' = Success(q) /\ Success(q) \in DOMAIN sent' BY <3>4, <3>8, <4>1, <4>3
        <5>2. QED BY <1>1, <1>3, <3>2, <3>3, <3>6, <4>2, <4>3, <5>1 DEF SentAsMeant, Pending, Success
      <4>4. CASE reporter[c].report = "pending"
        <5>1. shown' = Pending(q) /\ Success(q) \notin DOMAIN sent' BY <3>3, <3>4, <3>5, <3>8, <4>1, <4>4
        <5>2. QED BY <1>1, <1>3, <3>2, <3>3, <3>6, <4>2, <4>4, <5>1 DEF SentAsMeant, Pending, Success
      <4>5. QED BY <3>3, <4>3, <4>4
    <3>9. QED BY <1>5, <3>3, <3>7, <3>8
  <2>3. QED BY <2>1, <2>2
<1>14. QED BY <1>9, <1>10, <1>11, <1>12, <1>13 DEF StatusInv

LEMMA RecordStatusInv ==
    ASSUME StatusInv, NEW c \in Reporters, Status!RecordStatus(c)
    PROVE  StatusInv'
<1> DEFINE r == reporter[c].run
           t == [statusRun[r] EXCEPT !.recorded = reporter[c].report]
<1>1. /\ reporter[c].at = "record" /\ reporter[c].report \in Reports /\ r \in 1..Newest /\ statusRun[r] \in RunState
      /\ reporter' = [reporter EXCEPT ![c].at = "release"]
      /\ UNCHANGED <<owner, shown, sent, alone, tokens>>
  BY StatusParts DEF Status!RecordStatus, StatusInv, LeaseHeld
<1>2. t \in RunState BY <1>1, Zenon DEF RunState
<1>3. t.state = statusRun[r].state /\ t.job = statusRun[r].job /\ t.labelled = statusRun[r].labelled
  BY <1>1 DEF RunState
<1>4. statusRun' = [statusRun EXCEPT ![r] = t] BY DEF Status!RecordStatus, StatusInv, StatusType
<1> HIDE DEF t, r
<1>5. /\ statusRun' \in [1..Newest -> RunState]
      /\ \A q \in 1..Newest : /\ statusRun'[q].state = statusRun[q].state /\ statusRun'[q].job = statusRun[q].job
                              /\ statusRun'[q].labelled = statusRun[q].labelled
  BY <1>2, <1>3, <1>4 DEF StatusInv, StatusType
<1>6. QED BY <1>1, <1>5, GiveUpReport

(* What happens to the runs: nobody reports for a run that appears or goes *)
(* for good.                                                               *)
LEMMA RunMoves ==
    ASSUME StatusInv, NEW r \in 1..Newest, NEW t \in RunState,
           statusRun' = [statusRun EXCEPT ![r] = t], t.labelled = statusRun[r].labelled,
           \/ statusRun[r].state = "none" /\ t.state = "live"
           \/ statusRun[r].state = "live" /\ t.state \in {"live", "deleting"}
           \/ statusRun[r].state = "deleting" /\ t.state = "gone",
           t.job # statusRun[r].job => t.job = "done",
           \/ owner' = owner
           \/ /\ owner' = Status!NoOwner
              /\ statusRun[r].labelled /\ t.state = "gone"
              /\ \A q \in 1..Newest : q # r => ~(statusRun[q].state = "live" /\ statusRun[q].labelled)
              /\ \A c \in Reporters : reporter[c].at \notin {"intend", "send", "record", "release"},
           UNCHANGED <<shown, sent, reporter, alone, tokens>>
    PROVE  StatusInv'
<1> USE NewestAssumption
<1>1. /\ statusRun' \in [1..Newest -> RunState] /\ statusRun'[r] = t
      /\ \A q \in 1..Newest : q # r => statusRun'[q] = statusRun[q]
      /\ \A q \in 1..Newest : statusRun'[q].labelled = statusRun[q].labelled
  BY DEF StatusInv, StatusType
<1>2. Status!NoOwner \in Owner /\ Status!NoOwner.run = 0 /\ Status!NoOwner.token = 0 /\ Status!NoOwner.intent = "none"
  BY DEF Status!NoOwner, Owner, Reports
<1>3. StatusType' BY <1>1, <1>2 DEF StatusInv, StatusType
<1>4. LabelledFirst'
  <2>1. \A q \in 1..Newest : statusRun'[q].labelled => statusRun'[q].state # "none"
    BY <1>1 DEF StatusInv, LabelledFirst
  <2>2. \A q \in 0..Newest : q # 0 => q \in 1..Newest OBVIOUS
  <2>3. owner.run \in 0..Newest /\ shown.run \in 0..Newest /\ \A d \in Reporters : reporter[d].run \in 0..Newest
    BY StatusParts
  <2>4. \A m \in DOMAIN sent : m.run \in 1..Newest BY DEF StatusInv, StatusType
  <2>5. owner' = owner \/ owner'.run = 0 BY <1>2
  <2>6. QED BY <1>1, <2>1, <2>2, <2>3, <2>4, <2>5 DEF StatusInv, LabelledFirst
<1>5. LeaseHeld'
  <2>1. CASE owner' = owner BY <2>1 DEF StatusInv, LeaseHeld
  <2>2. CASE /\ owner' = Status!NoOwner
             /\ \A c \in Reporters : reporter[c].at \notin {"intend", "send", "record", "release"}
    BY <1>2, <2>2 DEF StatusInv, LeaseHeld
  <2>3. QED BY <2>1, <2>2
<1>6. \A q \in 1..Newest :
         statusRun[q].labelled /\ statusRun[q].state \in {"deleting", "gone"}
             => statusRun'[q].labelled /\ statusRun'[q].state \in {"deleting", "gone"}
  BY <1>1
<1>7. OwnerAhead'
  <2> SUFFICES ASSUME shown.run > owner'.run PROVE Superseded(shown.run)'
    BY DEF OwnerAhead
  <2>1. shown.run \in 1..Newest
    <3>1. shown.run \in 0..Newest /\ owner.run \in 0..Newest BY StatusParts
    <3>2. owner'.run \in 0..Newest BY <1>2, <3>1
    <3>3. QED BY <3>1, <3>2
  <2>2. \E q \in shown.run..Newest : statusRun'[q].labelled /\ statusRun'[q].state \in {"deleting", "gone"}
    <3>1. CASE owner' = owner
      <4>1. Superseded(shown.run) BY <3>1 DEF StatusInv, OwnerAhead
      <4>2. QED BY <1>6, <2>1, <4>1, SupersededStays
    <3>2. CASE /\ owner' = Status!NoOwner /\ t.state = "gone"
               /\ \A q \in 1..Newest : q # r => ~(statusRun[q].state = "live" /\ statusRun[q].labelled)
      <4>1. statusRun[shown.run].labelled /\ statusRun[shown.run].state # "none" /\ statusRun[shown.run] \in RunState
        BY <2>1, StatusParts DEF StatusInv, LabelledFirst
      <4>2. statusRun'[shown.run].state \in {"deleting", "gone"} /\ statusRun'[shown.run].labelled
        BY <1>1, <2>1, <3>2, <4>1 DEF RunState
      <4>3. shown.run \in shown.run..Newest BY <2>1
      <4>4. QED BY <4>2, <4>3
    <3>3. QED BY <3>1, <3>2
  <2>3. QED BY <2>2 DEF Superseded
<1>8. OnceWhileAlone'
  <2> SUFFICES ASSUME alone, NEW q \in 1..Newest, Undisturbed(q)' PROVE SentAsMeant(q)'
    BY DEF StatusInv, OnceWhileAlone
  <2>1. \A p \in 1..Newest : p # q => ~statusRun[p].labelled BY <1>1 DEF Undisturbed
  <2>2. \A c \in Reporters : Status!Message(c)' = Status!Message(c) BY DEF Status!Message
  <2>3. CASE statusRun[q].state = "none"
    <3>1. \A p \in 1..Newest : ~statusRun[p].labelled BY <2>1, <2>3 DEF StatusInv, LabelledFirst
    <3>2. owner.run = 0 /\ owner.intent = "none" /\ DOMAIN sent = {} /\ \A d \in Reporters : reporter[d].at = "idle"
      <4>1. owner.run = 0 BY <3>1, StatusParts DEF StatusInv, LabelledFirst
      <4>2. DOMAIN sent = {} BY <3>1 DEF StatusInv, LabelledFirst, StatusType
      <4>3. \A d \in Reporters : reporter[d].run = 0 BY <3>1, StatusParts DEF StatusInv, LabelledFirst
      <4>4. QED BY <4>1, <4>2, <4>3 DEF StatusInv, LeaseHeld
    <3>3. owner'.intent = "none" BY <1>2, <3>2
    <3>4. QED BY <3>2, <3>3 DEF SentAsMeant
  <2>4. CASE statusRun[q].state # "none"
    <3>1. Undisturbed(q) BY <1>1, <2>1, <2>4 DEF Undisturbed
    <3>2. SentAsMeant(q) BY <3>1 DEF StatusInv, OnceWhileAlone
    <3>3. statusRun[q].job = "done" => statusRun'[q].job = "done"
      BY <1>1, StatusParts DEF RunState
    <3>4. owner' = owner
      <4>1. r # q \/ t.state = "live" BY <1>1 DEF Undisturbed
      <4>2. statusRun[r].labelled => t.state # "gone" BY <2>1, <4>1
      <4>3. QED BY <4>2
    <3>5. QED BY <2>2, <3>2, <3>3, <3>4 DEF SentAsMeant
  <2>5. QED BY <2>3, <2>4
<1>9. QED BY <1>3, <1>4, <1>5, <1>7, <1>8 DEF StatusInv

LEMMA FinalizeStatusInv ==
    ASSUME StatusInv, NEW c \in Reporters, NEW r \in 1..Newest, Status!FinalizeStatus(c, r)
    PROVE  StatusInv'
<1> DEFINE t == [statusRun[r] EXCEPT !.state = "gone"]
<1>1. statusRun[r] \in RunState BY StatusParts
<1>2. t \in RunState BY <1>1, Zenon DEF RunState
<1>3. t.state = "gone" /\ t.job = statusRun[r].job /\ t.labelled = statusRun[r].labelled BY <1>1 DEF RunState
<1>4. statusRun' = [statusRun EXCEPT ![r] = t] /\ statusRun[r].state = "deleting"
  BY DEF Status!FinalizeStatus, StatusInv, StatusType
<1>5. UNCHANGED <<shown, sent, reporter, alone, tokens>> BY DEF Status!FinalizeStatus
<1>6. owner' = owner \/
        /\ owner' = Status!NoOwner /\ statusRun[r].labelled /\ ~Status!Shared(r)
        /\ owner.run = r \/ owner.token = 0
  BY DEF Status!FinalizeStatus
<1>7. \A d \in Reporters : reporter[d].run # r BY DEF Status!FinalizeStatus, Status!Turn
<1> HIDE DEF t
<1>8. CASE owner' = owner BY <1>2, <1>3, <1>4, <1>5, <1>8, RunMoves
<1>9. CASE /\ owner' = Status!NoOwner /\ statusRun[r].labelled /\ ~Status!Shared(r)
           /\ owner.run = r \/ owner.token = 0
  <2>1. \A q \in 1..Newest : q # r => ~(statusRun[q].state = "live" /\ statusRun[q].labelled)
    BY <1>9 DEF Status!Shared
  <2>2. \A d \in Reporters : reporter[d].at \notin {"intend", "send", "record", "release"}
    BY <1>7, <1>9 DEF StatusInv, LeaseHeld
  <2>3. QED BY <1>2, <1>3, <1>4, <1>5, <1>9, <2>1, <2>2, RunMoves
<1>10. QED BY <1>6, <1>8, <1>9

LEMMA LeaseExpiresInv ==
    ASSUME StatusInv, Status!LeaseExpires PROVE StatusInv'
<1>1. /\ owner' = [owner EXCEPT !.token = 0] /\ owner.token # 0 /\ \A c \in Reporters : reporter[c].token # owner.token
      /\ UNCHANGED <<statusRun, shown, sent, reporter, alone, tokens>>
  BY DEF Status!LeaseExpires
<1>2. owner \in Owner BY DEF StatusInv, StatusType
<1>3. owner' \in Owner BY <1>1, <1>2, Zenon DEF Owner
<1>4. owner'.run = owner.run /\ owner'.intent = owner.intent BY <1>1, <1>2 DEF Owner
<1>5. StatusType' BY <1>1, <1>3 DEF StatusInv, StatusType
<1>6. LabelledFirst' BY <1>1, <1>4 DEF StatusInv, LabelledFirst
<1>7. LeaseHeld' BY <1>1, <1>4 DEF StatusInv, LeaseHeld
<1>8. OwnerAhead' BY <1>1, <1>4 DEF StatusInv, OwnerAhead, Superseded
<1>9. OnceWhileAlone'
  <2>1. \A c \in Reporters : Status!Message(c)' = Status!Message(c) BY <1>1 DEF Status!Message
  <2>2. QED BY <1>1, <1>4, <2>1 DEF StatusInv, OnceWhileAlone, Undisturbed, SentAsMeant
<1>10. QED BY <1>5, <1>6, <1>7, <1>8, <1>9 DEF StatusInv

LEMMA StatusNextInv ==
    ASSUME StatusInv, Status!StatusNext PROVE StatusInv'
<1>0. statusRun \in [1..Newest -> RunState] BY DEF StatusInv, StatusType
<1>1. ASSUME NEW c \in Reporters, Status!ReporterStep(c) PROVE StatusInv'
  <2>1. CASE Status!ReleaseLease(c)
    <3>1. /\ reporter[c].at = "release" /\ reporter' = [reporter EXCEPT ![c] = Status!NoReport]
          /\ owner' = owner \/ owner' = [owner EXCEPT !.token = 0]
          /\ UNCHANGED <<statusRun, shown, sent, alone, tokens>>
      BY <2>1 DEF Status!ReleaseLease, Status!ReportEnds
    <3>2. QED BY <1>0, <3>1, GiveUpReport
  <2>2. QED
    BY <1>1, <2>1, ClaimStatusInv, StoreIntentInv, SendStatusInv, RecordStatusInv DEF Status!ReporterStep
<1>2. ASSUME NEW c \in Reporters, Status!AnswerLost(c) PROVE StatusInv'
  BY <1>0, <1>2, GiveUpReport DEF Status!AnswerLost
<1>3. ASSUME NEW c \in Reporters, Status!ReporterEnds(c) PROVE StatusInv'
  BY <1>0, <1>3, GiveUpReport DEF Status!ReporterEnds, Status!ReportEnds
<1>4. ASSUME NEW r \in 1..Newest, Status!RunAppears(r) \/ Status!JobDone(r) \/ Status!DeleteRun(r) PROVE StatusInv'
  <2>1. statusRun[r] \in RunState BY StatusParts
  <2>2. UNCHANGED <<owner, shown, sent, reporter, alone, tokens>>
    BY <1>4 DEF Status!RunAppears, Status!JobDone, Status!DeleteRun
  <2>3. CASE Status!RunAppears(r)
    <3> DEFINE t == [statusRun[r] EXCEPT !.state = "live"]
    <3>1. t \in RunState BY <2>1, Zenon DEF RunState
    <3>2. t.state = "live" /\ t.job = statusRun[r].job /\ t.labelled = statusRun[r].labelled BY <2>1 DEF RunState
    <3>3. statusRun[r].state = "none" /\ statusRun' = [statusRun EXCEPT ![r] = t]
      BY <1>0, <2>3 DEF Status!RunAppears
    <3> HIDE DEF t
    <3>4. QED BY <2>2, <3>1, <3>2, <3>3, RunMoves
  <2>4. CASE Status!JobDone(r)
    <3> DEFINE t == [statusRun[r] EXCEPT !.job = "done"]
    <3>1. t \in RunState BY <2>1, Zenon DEF RunState
    <3>2. t.state = statusRun[r].state /\ t.job = "done" /\ t.labelled = statusRun[r].labelled BY <2>1 DEF RunState
    <3>3. statusRun[r].state = "live" /\ statusRun' = [statusRun EXCEPT ![r] = t]
      BY <1>0, <2>4 DEF Status!JobDone
    <3> HIDE DEF t
    <3>4. QED BY <2>2, <3>1, <3>2, <3>3, RunMoves
  <2>5. CASE Status!DeleteRun(r)
    <3> DEFINE t == [statusRun[r] EXCEPT !.state = "deleting"]
    <3>1. t \in RunState BY <2>1, Zenon DEF RunState
    <3>2. t.state = "deleting" /\ t.job = statusRun[r].job /\ t.labelled = statusRun[r].labelled BY <2>1 DEF RunState
    <3>3. statusRun[r].state = "live" /\ statusRun' = [statusRun EXCEPT ![r] = t]
      BY <1>0, <2>5 DEF Status!DeleteRun
    <3> HIDE DEF t
    <3>4. QED BY <2>2, <3>1, <3>2, <3>3, RunMoves
  <2>6. QED BY <1>4, <2>3, <2>4, <2>5
<1>5. QED
  BY <1>1, <1>2, <1>3, <1>4, LoadStatusInv, FinalizeStatusInv, LeaseExpiresInv DEF Status!StatusNext

LEMMA StatusStep ==
    ASSUME On("status") => StatusInv, [Next]_vars PROVE (On("status") => StatusInv)'
<1> SUFFICES ASSUME On("status")' PROVE StatusInv' OBVIOUS
<1>1. On("status") BY DEF Next, On, Alone, vars
<1>2. CASE Next
  <2>1. Status!StatusNext BY <1>1, <1>2 DEF Next, On
  <2>2. QED BY <1>1, <2>1, StatusNextInv
<1>3. CASE UNCHANGED vars
  <2>1. UNCHANGED <<statusRun, owner, shown, sent, reporter, alone, tokens>> BY <1>3 DEF vars, statusVars
  <2>2. \A c : Status!Message(c)' = Status!Message(c) BY <2>1 DEF Status!Message
  <2>3. QED
    BY <1>1, <2>1, <2>2 DEF StatusInv, StatusType, LabelledFirst, LeaseHeld, OwnerAhead, Superseded,
       OnceWhileAlone, Undisturbed, SentAsMeant
<1>4. QED BY <1>2, <1>3

(* Only SendStatus changes what GitHub shows, and its sender owns the      *)
(* status.                                                                 *)
LEMMA StatusShown ==
    ASSUME StatusInv, Status!StatusNext PROVE Status!NeverOlder
<1> SUFFICES ASSUME shown'.run < shown.run
             PROVE  Superseded(shown.run)
  BY DEF Status!NeverOlder, Superseded
<1>0. shown' # shown BY StatusParts
<1>1. PICK c \in Reporters : Status!SendStatus(c)
  BY <1>0 DEF Status!StatusNext, Status!ReporterStep, Status!ClaimStatus, Status!StoreIntent, Status!RecordStatus,
     Status!ReleaseLease, Status!AnswerLost, Status!ReporterEnds, Status!LoadStatus, Status!FinalizeStatus,
     Status!JobDone, Status!DeleteRun, Status!RunAppears, Status!LeaseExpires
<1>2. reporter[c].run = owner.run BY <1>1 DEF Status!SendStatus, StatusInv, LeaseHeld
<1>3. shown'.run = owner.run BY <1>0, <1>1, <1>2 DEF Status!SendStatus, Status!Message
<1>4. QED BY <1>3, StatusParts DEF StatusInv, OwnerAhead

(* The commit never shows an older run again unless a newer one is being   *)
(* deleted, and while one controller works at a time a report is sent once *)
(* although answers are lost and controllers end after sending.            *)
THEOREM StatusesStayInOrder == Spec => StatusesInOrder
<1>1. Init => (On("status") => StatusInv) BY StatusInitInv DEF Init
<1>2. (On("status") => StatusInv) /\ [Next]_vars => (On("status") => StatusInv)' BY StatusStep
<1>3. (On("status") => StatusInv) => (On("status") => Status!SentOnce)
  <2> SUFFICES ASSUME StatusInv, alone, NEW m \in DOMAIN sent, sent[m] > 1,
                      statusRun[m.run].state = "live", \A q \in 1..Newest : q # m.run => ~statusRun[q].labelled
               PROVE  FALSE
    BY DEF Status!SentOnce
  <2>1. m.run \in 1..Newest BY DEF StatusInv, StatusType
  <2>2. SentAsMeant(m.run) BY <2>1 DEF StatusInv, OnceWhileAlone, Undisturbed
  <2>3. sent[m] = 1 BY <2>2 DEF SentAsMeant
  <2>4. QED BY <2>3
<1>4. (On("status") => StatusInv) /\ [Next]_vars => [On("status") => Status!NeverOlder]_statusVars
  <2> SUFFICES ASSUME On("status"), StatusInv, Next PROVE Status!NeverOlder
    BY DEF vars
  <2>1. Status!StatusNext BY DEF Next, On
  <2>2. QED BY <2>1, StatusShown
<1>5. QED BY <1>1, <1>2, <1>3, <1>4, PTL DEF Spec, StatusesInOrder

=============================================================================
