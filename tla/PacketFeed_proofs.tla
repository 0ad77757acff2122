-------------------------- MODULE PacketFeed_proofs --------------------------
(***************************************************************************)
(* Whatever is on disk, cut wherever it may be: the loops read every whole *)
(* record and nothing else, warn exactly about the files that end inside a *)
(* record, hand each datagram to its handler with exactly its captured     *)
(* bytes, and parseSIP finds the media an SDP body announces.              *)
(***************************************************************************)
EXTENDS PacketFeed, Arithmetic, SequenceTheorems

-----------------------------------------------------------------------------
(* Where records end.                                                      *)

(* One record more.                                                        *)
LEMMA EndStep ==
    ASSUME NEW f \in CaptureFile, NEW k \in 0 .. Len(f.lens)
    PROVE  /\ End(f, 0) = 0 /\ End(f, k) \in Nat
           /\ k < Len(f.lens) => /\ f.lens[k + 1] \in Nat
                                 /\ End(f, k + 1) = End(f, k) + RecHdr + f.lens[k + 1]
<1> DEFINE lens   == f.lens
           sum(n) == SumFunctionOnSet(lens, 1 .. n)
<1>1. RecHdr \in Nat /\ lens \in Seq(Nat) /\ Len(lens) \in Nat
  BY CapturesAssumption DEF CaptureFile
<1>2. \A i \in 1 .. Len(lens) : lens[i] \in Nat
  BY <1>1
<1>3. sum(0) = 0
  <2>1. 1 .. 0 = {}
    OBVIOUS
  <2> QED
    BY <2>1, SumEmpty
<1>4. IsFiniteSet(1 .. k)
  BY FS_Interval
<1>5. sum(k) \in Nat
  <2>1. \A i \in 1 .. k : lens[i] \in Nat
    BY <1>1, <1>2
  <2> HIDE DEF lens
  <2> QED
    BY <1>4, <2>1, SumType
<1>6. ASSUME k < Len(lens)
      PROVE  sum(k + 1) = sum(k) + lens[k + 1]
  <2>1. 1 .. k + 1 = (1 .. k) \cup {k + 1} /\ k + 1 \notin 1 .. k
    BY <1>1
  <2>2. \A i \in (1 .. k) \cup {k + 1} : lens[i] \in Int
    BY <1>1, <1>2, <1>6
  <2>3. PICK S, x : S = 1 .. k /\ x = k + 1
    OBVIOUS
  <2> HIDE DEF lens
  <2>4. SumFunctionOnSet(lens, S \cup {x}) = SumFunctionOnSet(lens, S) + lens[x]
    BY <1>4, <2>1, <2>2, <2>3, SumAdd
  <2> QED
    BY <2>1, <2>3, <2>4
<1>7. 0 * RecHdr = 0 /\ k * RecHdr \in Nat /\ (k + 1) * RecHdr = k * RecHdr + RecHdr
  BY <1>1
<1> HIDE DEF sum, lens
<1>8. \A n : End(f, n) = n * RecHdr + sum(n)
  BY DEF End, sum, lens
<1>9. k < Len(lens) => lens[k + 1] \in Nat
  BY <1>1, <1>2
<1>10. End(f, 0) = 0 /\ End(f, k) \in Nat
  BY <1>3, <1>5, <1>7, <1>8
<1>11. ASSUME k < Len(lens)
       PROVE  End(f, k + 1) = End(f, k) + RecHdr + lens[k + 1]
  <2> DEFINE hdrs == k * RecHdr
  <2>1. End(f, k + 1) = (hdrs + RecHdr) + (sum(k) + lens[k + 1])
    BY <1>6, <1>7, <1>8, <1>11
  <2>2. End(f, k) = hdrs + sum(k) /\ hdrs \in Nat
    BY <1>7, <1>8
  <2> HIDE DEF hdrs
  <2> QED
    BY <1>1, <1>5, <1>9, <1>11, <2>1, <2>2
<1> QED
  BY <1>9, <1>10, <1>11 DEF lens

(* A later record ends later.                                              *)
LEMMA EndGrows ==
    ASSUME NEW f \in CaptureFile, NEW j \in 0 .. Len(f.lens), NEW k \in 0 .. Len(f.lens),
           j < k
    PROVE  End(f, j) + RecHdr + f.lens[j + 1] <= End(f, k)
<1> DEFINE G == {n \in Nat : j + 1 + n <= Len(f.lens) => End(f, j + 1) <= End(f, j + 1 + n)}
<1>1. RecHdr \in Nat /\ Len(f.lens) \in Nat
  BY CapturesAssumption DEF CaptureFile
<1>2. 0 \in G
  <2>1. j + 1 + 0 = j + 1 /\ j + 1 \in 0 .. Len(f.lens)
    BY <1>1
  <2>2. End(f, j + 1) \in Nat
    BY <2>1, EndStep
  <2> QED
    BY <2>1, <2>2
<1>3. ASSUME NEW n \in Nat, n \in G
      PROVE  n + 1 \in G
  <2> SUFFICES ASSUME j + 1 + (n + 1) <= Len(f.lens)
               PROVE  End(f, j + 1) <= End(f, j + 1 + (n + 1))
    OBVIOUS
  <2>1. PICK m : m = j + 1 + n
    OBVIOUS
  <2>2. m \in 0 .. Len(f.lens) /\ m < Len(f.lens) /\ j + 1 + (n + 1) = m + 1
        /\ j + 1 \in 0 .. Len(f.lens)
    BY <1>1, <2>1
  <2>3. End(f, m) \in Nat /\ f.lens[m + 1] \in Nat
        /\ End(f, m + 1) = End(f, m) + RecHdr + f.lens[m + 1]
    BY <2>2, EndStep
  <2>4. End(f, j + 1) \in Nat
    BY <2>2, EndStep
  <2>5. End(f, j + 1) <= End(f, m)
    BY <1>3, <2>1, <2>2
  <2>6. PICK x, y, z, l : /\ x = End(f, j + 1) /\ y = End(f, m) /\ z = End(f, m + 1)
                          /\ l = f.lens[m + 1]
    OBVIOUS
  <2>7. /\ x \in Nat /\ y \in Nat /\ l \in Nat /\ RecHdr \in Nat
        /\ z = y + RecHdr + l /\ x <= y
    BY <1>1, <2>3, <2>4, <2>5, <2>6
  <2>8. x <= z
    BY <2>7
  <2> QED
    BY <2>2, <2>6, <2>8
<1>4. k - j - 1 \in Nat /\ j + 1 + (k - j - 1) = k
  BY <1>1
<1>5. k - j - 1 \in G
  <2> HIDE DEF G
  <2> QED
    BY <1>2, <1>3, <1>4, NumberInduction
<1>6. End(f, j + 1) <= End(f, k)
  BY <1>4, <1>5
<1>7. End(f, j + 1) = End(f, j) + RecHdr + f.lens[j + 1]
  BY <1>1, EndStep
<1> QED
  BY <1>6, <1>7

(* What is known of a file when d records of it have been read.            *)
LEMMA WholeRecords ==
    ASSUME NEW f \in CaptureFile, NEW d \in 0 .. Len(f.lens), End(f, d) <= f.size
    PROVE  /\ 1 .. d \subseteq Complete(f)
           /\ d = Len(f.lens) \/ f.size < End(f, d) + RecHdr + f.lens[d + 1]
                => 1 .. d = Complete(f)
           /\ d < Len(f.lens) /\ End(f, d) < f.size
                /\ f.size < End(f, d) + RecHdr + f.lens[d + 1] => ~AtBoundary(f)
<1>1. /\ RecHdr \in Nat /\ Len(f.lens) \in Nat /\ f.size \in Nat
      /\ \A k \in 0 .. Len(f.lens) : End(f, k) \in Nat
  BY CapturesAssumption, EndStep DEF CaptureFile
<1>2. \A j, k \in 0 .. Len(f.lens) : j < k =>
        f.lens[j + 1] \in Nat /\ End(f, j) + RecHdr + f.lens[j + 1] <= End(f, k)
  <2> SUFFICES ASSUME NEW j \in 0 .. Len(f.lens), NEW k \in 0 .. Len(f.lens), j < k
               PROVE  f.lens[j + 1] \in Nat /\ End(f, j) + RecHdr + f.lens[j + 1] <= End(f, k)
    OBVIOUS
  <2>1. j < Len(f.lens)
    BY <1>1
  <2> QED
    BY <2>1, EndStep, EndGrows
<1>3. \A j, k \in 0 .. Len(f.lens) : j <= k => End(f, j) <= End(f, k)
  <2> SUFFICES ASSUME NEW j \in 0 .. Len(f.lens), NEW k \in 0 .. Len(f.lens), j < k
               PROVE  End(f, j) <= End(f, k)
    BY <1>1
  <2>1. f.lens[j + 1] \in Nat /\ End(f, j) + RecHdr + f.lens[j + 1] <= End(f, k)
    BY <1>2
  <2>2. End(f, j) \in Nat /\ End(f, k) \in Nat
    BY <1>1
  <2> QED
    BY <1>1, <2>1, <2>2
<1>4. 1 .. d \subseteq Complete(f)
  <2> SUFFICES ASSUME NEW k \in 1 .. d
               PROVE  k \in 1 .. Len(f.lens) /\ End(f, k) <= f.size
    BY DEF Complete
  <2>1. k \in 0 .. Len(f.lens) /\ k <= d /\ k \in 1 .. Len(f.lens)
    BY <1>1
  <2>2. End(f, k) <= End(f, d) /\ End(f, k) \in Nat /\ End(f, d) \in Nat
    BY <1>1, <1>3, <2>1
  <2>3. f.size \in Nat /\ End(f, d) <= f.size
    BY <1>1
  <2>4. \A a, b, c \in Nat : a <= b /\ b <= c => a <= c
    OBVIOUS
  <2> QED
    BY Zenon, <2>1, <2>2, <2>3, <2>4
<1>5. ASSUME d = Len(f.lens) \/ f.size < End(f, d) + RecHdr + f.lens[d + 1]
      PROVE  Complete(f) \subseteq 1 .. d
  <2> SUFFICES ASSUME NEW k \in 1 .. Len(f.lens), End(f, k) <= f.size, d < k
               PROVE  FALSE
    BY <1>1 DEF Complete
  <2>1. d # Len(f.lens) /\ k \in 0 .. Len(f.lens)
    BY <1>1
  <2>2. End(f, d) + RecHdr + f.lens[d + 1] <= End(f, k) /\ f.lens[d + 1] \in Nat
    BY <1>2, <2>1
  <2>3. End(f, d) \in Nat /\ End(f, k) \in Nat
    BY <1>1, <2>1
  <2> QED
    BY <1>1, <1>5, <2>1, <2>2, <2>3
<1>6. ASSUME d < Len(f.lens), End(f, d) < f.size, AtBoundary(f),
             f.size < End(f, d) + RecHdr + f.lens[d + 1]
      PROVE  FALSE
  <2>1. PICK k \in 0 .. Len(f.lens) : End(f, k) = f.size
    BY <1>6 DEF AtBoundary
  <2>2. CASE k <= d
    BY <1>1, <1>3, <1>6, <2>1, <2>2
  <2>3. CASE d < k
    <3>1. End(f, d) + RecHdr + f.lens[d + 1] <= End(f, k) /\ f.lens[d + 1] \in Nat
      BY <1>2, <2>3
    <3>2. End(f, d) \in Nat /\ End(f, k) \in Nat
      BY <1>1
    <3> QED
      BY <1>1, <1>6, <2>1, <3>1, <3>2
  <2> QED
    BY <1>1, <2>2, <2>3
<1> QED
  BY <1>4, <1>5, <1>6

-----------------------------------------------------------------------------
(* The loop over the files.                                                *)

(* The reader stands behind the records it has delivered, and the files    *)
(* ahead of it are untouched.                                              *)
Position ==
    /\ pc = "done" <=> cur = Len(files) + 1
    /\ \A i \in DOMAIN files : i > cur \/ (i = cur /\ pc = "open") => delivered[i] = 0
    /\ cur \in DOMAIN files =>
          /\ delivered[cur] \in 0 .. Len(files[cur].lens)
          /\ End(files[cur], delivered[cur]) <= files[cur].size
          /\ pc = "next" => off = End(files[cur], delivered[cur])
    /\ warned \subseteq 1 .. cur - 1

FilesKnown ==
    \A i \in DOMAIN files :
        files[i] \in CaptureFile /\ files[i].size <= End(files[i], Len(files[i].lens))

ReadInv ==
    /\ TypeOK /\ FilesKnown /\ Position
    /\ DeliversWholeRecords /\ WarnsIffCut /\ AbortsOnlyFor

(* At the first record nothing is read.                                    *)
LEMMA InitReads ==
    Init => ReadInv
<1> SUFFICES ASSUME Init
             PROVE  ReadInv
  OBVIOUS
<1>1. /\ files \in Captures /\ files \in Seq(CaptureFile) /\ cur = 1 /\ off = 0
      /\ pc = (IF files = << >> THEN "done" ELSE "open")
      /\ delivered = [i \in DOMAIN files |-> 0] /\ warned = {} /\ ioError = FALSE
  BY CapturesAssumption DEF Init, Start
<1>2. DOMAIN files = 1 .. Len(files) /\ Len(files) \in Nat
      /\ (files = << >> <=> Len(files) = 0)
  BY <1>1
<1>3. FilesKnown
  BY <1>1, CapturesAssumption DEF FilesKnown
<1>4. TypeOK
  <2>1. pc \in {"open", "next", "done", "failed"} /\ cur \in 1 .. Len(files) + 1 /\ off \in Nat
    BY <1>1, <1>2
  <2>2. delivered \in [DOMAIN files -> Nat] /\ warned \subseteq DOMAIN files
    BY <1>1
  <2> QED
    BY <1>1, <2>1, <2>2 DEF TypeOK
<1>5. \A i \in DOMAIN files : /\ delivered[i] = 0 /\ 0 \in 0 .. Len(files[i].lens)
                               /\ End(files[i], 0) <= files[i].size
  <2> SUFFICES ASSUME NEW i \in DOMAIN files
               PROVE  0 \in 0 .. Len(files[i].lens) /\ End(files[i], 0) <= files[i].size
    BY <1>1
  <2>1. files[i] \in CaptureFile
    BY <1>3 DEF FilesKnown
  <2>2. Len(files[i].lens) \in Nat /\ files[i].size \in Nat
    BY <2>1 DEF CaptureFile
  <2>3. End(files[i], 0) = 0
    BY <2>1, <2>2, EndStep
  <2> QED
    BY <2>2, <2>3
<1>6. Position
  BY <1>1, <1>2, <1>5 DEF Position
<1>7. DeliversWholeRecords
  BY <1>1, <1>2, <1>5 DEF DeliversWholeRecords
<1>8. WarnsIffCut /\ AbortsOnlyFor
  BY <1>1 DEF WarnsIffCut, AbortsOnlyFor
<1> QED
  BY <1>3, <1>4, <1>6, <1>7, <1>8 DEF ReadInv

(* The file the reader is in, with what is known of it.                    *)
LEMMA Current ==
    ASSUME ReadInv, pc \in {"open", "next", "failed"}
    PROVE  /\ cur \in 1 .. Len(files) /\ Len(files) \in Nat /\ DOMAIN files = 1 .. Len(files)
           /\ files[cur] \in CaptureFile /\ files[cur].size \in Nat
           /\ RecHdr \in Nat \ {0} /\ Len(files[cur].lens) \in Nat
           /\ delivered[cur] \in 0 .. Len(files[cur].lens)
           /\ End(files[cur], delivered[cur]) \in Nat
           /\ End(files[cur], delivered[cur]) <= files[cur].size
<1>1. /\ RecHdr \in Nat \ {0} /\ files \in Seq(CaptureFile) /\ cur \in 1 .. Len(files) + 1
      /\ cur # Len(files) + 1
  BY CapturesAssumption DEF ReadInv, TypeOK, Position
<1>2. /\ cur \in 1 .. Len(files) /\ Len(files) \in Nat /\ DOMAIN files = 1 .. Len(files)
  BY <1>1
<1>3. /\ files[cur] \in CaptureFile /\ files[cur].size \in Nat /\ Len(files[cur].lens) \in Nat
  BY <1>2 DEF ReadInv, FilesKnown, CaptureFile
<1>4. /\ delivered[cur] \in 0 .. Len(files[cur].lens)
      /\ End(files[cur], delivered[cur]) <= files[cur].size
  BY <1>2 DEF ReadInv, Position
<1> QED
  BY <1>1, <1>2, <1>3, <1>4, EndStep

(* What the error of Next() says of the file.                              *)
LEMMA ErrorMeans ==
    ASSUME ReadInv, pc = "next", NEW f, f = files[cur], NEW d, d = delivered[cur]
    PROVE  /\ NextErr.is = "nil" =>
                 /\ d < Len(f.lens) /\ InclLen \in Nat
                 /\ off + RecHdr + InclLen = End(f, d + 1) /\ End(f, d + 1) <= f.size
           /\ EndOfFile => AtBoundary(f) /\ 1 .. d = Complete(f)
           /\ IsTruncated => ~AtBoundary(f) /\ 1 .. d = Complete(f)
           /\ NextErr.is # "nil" /\ ~EndOfFile /\ ~IsTruncated => CutAfterHeader(f)
<1> DEFINE n == InclLen
<1>1. /\ cur \in 1 .. Len(files) /\ Len(files) \in Nat /\ DOMAIN files = 1 .. Len(files)
      /\ f \in CaptureFile /\ f.size \in Nat
      /\ RecHdr \in Nat \ {0} /\ Len(f.lens) \in Nat
      /\ d \in 0 .. Len(f.lens)
      /\ End(f, d) \in Nat /\ End(f, d) <= f.size
  BY Current
<1>2. off = End(f, d) /\ Avail = f.size - off /\ n = f.lens[d + 1]
  BY <1>1 DEF ReadInv, Position, Avail, InclLen
<1>3. /\ Avail \in Nat
      /\ d < Len(f.lens) => n \in Nat /\ End(f, d + 1) = End(f, d) + RecHdr + n
  <2>1. d < Len(f.lens) =>
          f.lens[d + 1] \in Nat /\ End(f, d + 1) = End(f, d) + RecHdr + f.lens[d + 1]
    BY Zenon, <1>1, EndStep
  <2>2. PICK e : e = End(f, d)
    OBVIOUS
  <2>3. e \in Nat /\ e <= f.size /\ f.size \in Nat /\ Avail = f.size - e
    BY Zenon, <1>1, <1>2, <2>2
  <2>4. Avail \in Nat
    BY <2>3
  <2> QED
    BY Zenon, <1>2, <2>1, <2>4
<1>4. f.size <= End(f, Len(f.lens))
  BY <1>1 DEF ReadInv, FilesKnown
<1>5. d = Len(f.lens) => Avail = 0
  BY <1>1, <1>2, <1>4
<1>6. /\ HeaderErr = (IF Avail >= RecHdr THEN "nil" ELSE IF Avail = 0 THEN "EOF" ELSE "UnexpectedEOF")
      /\ BodyErr = (IF n = 0 \/ Avail - RecHdr >= n THEN "nil"
                    ELSE IF Avail - RecHdr = 0 THEN "EOF" ELSE "UnexpectedEOF")
  BY <1>1 DEF HeaderErr, BodyErr, ReadFull
<1>7. NextErr = (IF HeaderErr # "nil" THEN [is |-> HeaderErr, wrapped |-> FALSE]
                                     ELSE [is |-> BodyErr, wrapped |-> BodyErr # "nil"])
  BY DEF NextErr
<1>8. /\ d = Len(f.lens) \/ f.size < End(f, d) + RecHdr + f.lens[d + 1] => 1 .. d = Complete(f)
      /\ d < Len(f.lens) /\ End(f, d) < f.size
           /\ f.size < End(f, d) + RecHdr + f.lens[d + 1] => ~AtBoundary(f)
  BY <1>1, WholeRecords
<1> HIDE DEF n
<1>9. HeaderErr = "nil" => d < Len(f.lens) /\ n \in Nat
  BY <1>1, <1>3, <1>5, <1>6
<1>10. ASSUME NextErr.is = "nil"
       PROVE  /\ d < Len(f.lens) /\ n \in Nat
              /\ off + RecHdr + n = End(f, d + 1) /\ End(f, d + 1) <= f.size
  <2>1. HeaderErr = "nil" /\ BodyErr = "nil"
    BY <1>7, <1>10
  <2>2. d < Len(f.lens) /\ n \in Nat /\ End(f, d + 1) = End(f, d) + RecHdr + n
    BY <1>3, <1>9, <2>1
  <2>3. Avail >= RecHdr /\ (n = 0 \/ Avail - RecHdr >= n)
    BY <1>6, <2>1
  <2>4. off + RecHdr + n = End(f, d + 1)
    BY <1>2, <2>2
  <2>5. PICK e : e = End(f, d)
    OBVIOUS
  <2>6. e + RecHdr + n <= f.size
    <3>1. f.size \in Nat /\ RecHdr \in Nat /\ e \in Nat
      BY <1>1, <2>5
    <3>2. f.size - e >= RecHdr /\ (n = 0 \/ (f.size - e) - RecHdr >= n)
      BY <1>2, <2>3, <2>5
    <3> QED
      BY <2>2, <3>1, <3>2
  <2> QED
    BY <2>2, <2>4, <2>5, <2>6
<1>11. ASSUME EndOfFile
       PROVE  AtBoundary(f) /\ 1 .. d = Complete(f)
  <2>1. HeaderErr = "EOF"
    BY <1>6, <1>7, <1>11 DEF EndOfFile
  <2>2. Avail = 0
    BY <1>6, <2>1
  <2>3. End(f, d) = f.size
    BY <1>1, <1>2, <2>2
  <2>4. d = Len(f.lens) \/ f.size < f.size + RecHdr + f.lens[d + 1]
    <3>1. d < Len(f.lens) => f.lens[d + 1] \in Nat
      BY Zenon, <1>2, <1>3
    <3>2. RecHdr > 0 /\ RecHdr \in Nat /\ f.size \in Nat /\ (d < Len(f.lens) \/ d = Len(f.lens))
      BY <1>1
    <3> QED
      BY <3>1, <3>2
  <2> QED
    BY Zenon, <1>1, <1>8, <2>3, <2>4 DEF AtBoundary
<1>12. ASSUME IsTruncated
       PROVE  ~AtBoundary(f) /\ 1 .. d = Complete(f)
  <2>1. HeaderErr = "UnexpectedEOF" \/ (HeaderErr = "nil" /\ BodyErr = "UnexpectedEOF")
    BY <1>7, <1>12 DEF IsTruncated
  <2>2. Avail > 0 /\ d < Len(f.lens)
    BY <1>1, <1>3, <1>5, <1>6, <2>1
  <2>3. Avail < RecHdr + n
    BY <1>1, <1>3, <1>6, <2>1, <2>2
  <2>4. End(f, d) < f.size /\ f.size < End(f, d) + RecHdr + f.lens[d + 1]
    <3>1. PICK e, l : e = End(f, d) /\ l = f.lens[d + 1]
      OBVIOUS
    <3>2. /\ Avail = f.size - e /\ n = l /\ l \in Nat
          /\ e \in Nat /\ f.size \in Nat /\ RecHdr \in Nat
      BY <1>1, <1>2, <1>3, <2>2, <3>1
    <3>3. e < f.size /\ f.size < e + RecHdr + l
      BY <2>2, <2>3, <3>2
    <3> QED
      BY Zenon, <3>1, <3>3
  <2> QED
    BY <1>8, <2>2, <2>4
<1>13. ASSUME NextErr.is # "nil", ~EndOfFile, ~IsTruncated
       PROVE  CutAfterHeader(f)
  <2>1. HeaderErr = "nil" /\ BodyErr = "EOF"
    BY <1>6, <1>7, <1>13 DEF EndOfFile, IsTruncated
  <2>2. Avail = RecHdr /\ n # 0 /\ d < Len(f.lens) /\ n \in Nat
    BY <1>1, <1>3, <1>6, <1>9, <2>1
  <2>3. f.lens[d + 1] > 0
    BY <1>2, <2>2
  <2>4. d + 1 \in 1 .. Len(f.lens) /\ (d + 1) - 1 = d
    BY <1>1, <2>2
  <2>5. PICK e : e = End(f, d)
    OBVIOUS
  <2>6. e \in Nat /\ f.size \in Nat /\ RecHdr \in Nat /\ f.size - e = RecHdr
    BY Zenon, <1>1, <1>2, <2>2, <2>5
  <2>7. f.size = End(f, d) + RecHdr
    BY <2>5, <2>6
  <2> QED
    BY <2>3, <2>4, <2>7 DEF CutAfterHeader
<1> QED
  BY <1>10, <1>11, <1>12, <1>13 DEF n

(* The file the reader is in has been read to its end.                     *)
ReadToEnd == 1 .. delivered[cur] = Complete(files[cur])

(* The loop goes on to the next file only when it has seen all of this one.*)
LEMMA NextFileReads ==
    ASSUME ReadInv, pc = "next", NextFile,
           \/ UNCHANGED warned /\ AtBoundary(files[cur])
           \/ warned' = warned \cup {cur} /\ ~AtBoundary(files[cur]),
           ReadToEnd
    PROVE  ReadInv'
<1> DEFINE n == Len(files)
<1>1. /\ cur \in 1 .. n /\ n \in Nat /\ n' = n
      /\ cur' = cur + 1 /\ pc' = (IF cur = n THEN "done" ELSE "open")
      /\ UNCHANGED <<files, off, delivered, ioError>>
  BY Current DEF NextFile
<1>10. DOMAIN files = 1 .. n
  BY Current
<1> HIDE DEF n
<1>2. TypeOK' /\ FilesKnown'
  <2>1. cur' \in 1 .. n + 1 /\ pc' \in {"open", "next", "done", "failed"}
    BY <1>1
  <2>2. warned' \subseteq DOMAIN files
    BY <1>1, <1>10 DEF ReadInv, TypeOK
  <2> QED
    BY <1>1, <2>1, <2>2 DEF n, ReadInv, TypeOK, FilesKnown
<1>3. \A i \in 1 .. n : i >= cur' => delivered[i] = 0
  BY <1>1, <1>10 DEF ReadInv, Position
<1>4. \A i \in DOMAIN files : /\ 0 \in 0 .. Len(files[i].lens)
                               /\ End(files[i], 0) <= files[i].size
  <2> SUFFICES ASSUME NEW i \in DOMAIN files
               PROVE  0 \in 0 .. Len(files[i].lens) /\ End(files[i], 0) <= files[i].size
    OBVIOUS
  <2>1. files[i] \in CaptureFile
    BY DEF ReadInv, FilesKnown
  <2>2. Len(files[i].lens) \in Nat /\ files[i].size \in Nat
    BY <2>1 DEF CaptureFile
  <2>3. End(files[i], 0) = 0
    BY <2>1, <2>2, EndStep
  <2> QED
    BY <2>2, <2>3
<1>5. warned' \subseteq 1 .. cur' - 1
  <2>1. \A i \in warned : i \in 1 .. cur - 1
    BY DEF ReadInv, Position
  <2>2. \A i \in 1 .. cur - 1 : i \in 1 .. cur' - 1
    BY <1>1
  <2>3. cur \in 1 .. cur' - 1
    BY <1>1
  <2>4. \A i \in warned' : i \in warned \/ i = cur
    OBVIOUS
  <2> QED
    BY Zenon, <2>1, <2>2, <2>3, <2>4
<1>6. Position'
  <2>1. (pc' = "done" <=> cur' = n + 1) /\ pc' # "next"
    BY <1>1
  <2>2. \A i \in 1 .. n : i > cur' \/ (i = cur' /\ pc' = "open") => delivered[i] = 0
    BY <1>1, <1>3
  <2>3. cur' \in DOMAIN files => delivered[cur'] = 0
    BY <1>1, <1>3, <1>10
  <2> QED
    BY Zenon, <1>1, <1>4, <1>5, <1>10, <2>1, <2>2, <2>3 DEF n, Position
<1>7. DeliversWholeRecords'
  <2>1. \A i \in 1 .. cur - 1 : 1 .. delivered[i] = Complete(files[i])
    BY DEF ReadInv, DeliversWholeRecords
  <2>2. \A i \in 1 .. cur' - 1 : i = cur \/ i \in 1 .. cur - 1
    BY <1>1
  <2>3. \A i \in 1 .. cur' - 1 : 1 .. delivered[i] = Complete(files[i])
    BY <2>1, <2>2 DEF ReadToEnd
  <2>4. cur' \in DOMAIN files => 1 .. delivered[cur'] \subseteq Complete(files[cur'])
    BY <1>1, <1>3, <1>10
  <2> QED
    BY <1>1, <2>3, <2>4 DEF DeliversWholeRecords
<1>8. WarnsIffCut'
  <2>1. \A i \in 1 .. cur' - 1 : i = cur \/ i \in 1 .. cur - 1
    BY <1>1
  <2>2. cur \notin warned
    BY <1>1 DEF ReadInv, Position
  <2>3. \A i \in 1 .. cur - 1 : i # cur /\ (i \in warned <=> ~AtBoundary(files[i]))
    BY <1>1 DEF ReadInv, WarnsIffCut
  <2>4. \A i \in 1 .. cur' - 1 : i \in warned' <=> ~AtBoundary(files[i])
    BY <2>1, <2>2, <2>3
  <2> QED
    BY <1>1, <2>4 DEF WarnsIffCut
<1>9. AbortsOnlyFor'
  BY <1>1 DEF AbortsOnlyFor
<1> QED
  BY <1>2, <1>6, <1>7, <1>8, <1>9 DEF ReadInv

(* A record read in full.                                                  *)
LEMMA ReadPacketReads ==
    ASSUME ReadInv, ReadPacket
    PROVE  ReadInv'
<1> DEFINE f == files[cur]
           d == delivered[cur]
<1>1. /\ pc = "next" /\ NextErr.is = "nil" /\ off' = off + RecHdr + InclLen
      /\ delivered' = [delivered EXCEPT ![cur] = d + 1]
      /\ UNCHANGED <<files, cur, pc, warned, ioError>>
  BY DEF ReadPacket
<1>2. /\ cur \in 1 .. Len(files) /\ DOMAIN files = 1 .. Len(files)
      /\ f \in CaptureFile /\ f.size \in Nat
      /\ RecHdr \in Nat \ {0} /\ Len(f.lens) \in Nat
      /\ d \in 0 .. Len(f.lens)
  BY <1>1, Current
<1>3. /\ d < Len(f.lens) /\ InclLen \in Nat
      /\ off' = End(f, d + 1) /\ End(f, d + 1) <= f.size
  BY <1>1, ErrorMeans
<1>4. d + 1 \in 0 .. Len(f.lens) /\ d + 1 \in Nat
  BY <1>2, <1>3
<1>5. End(f, d + 1) \in Nat
  BY <1>2, <1>4, EndStep
<1>6. delivered \in [DOMAIN files -> Nat]
  BY DEF ReadInv, TypeOK
<1>7. delivered' \in [DOMAIN files -> Nat] /\ delivered'[cur] = d + 1
      /\ \A i \in DOMAIN files : i # cur => delivered'[i] = delivered[i]
  BY <1>1, <1>2, <1>4, <1>6
<1> HIDE DEF f, d
<1>8. TypeOK' /\ FilesKnown'
  BY <1>1, <1>3, <1>5, <1>7 DEF ReadInv, TypeOK, FilesKnown
<1>9. Position'
  <2>1. f' = f
    BY <1>1 DEF f
  <2>2. \A i \in DOMAIN files : i > cur => delivered[i] = 0 /\ i # cur
    BY <1>2 DEF ReadInv, Position
  <2> QED
    BY <1>1, <1>2, <1>3, <1>4, <1>7, <2>1, <2>2 DEF ReadInv, Position, f
<1>10. DeliversWholeRecords'
  <2>1. 1 .. d + 1 \subseteq Complete(f)
    BY <1>2, <1>3, <1>4, WholeRecords
  <2>2. \A i \in 1 .. cur - 1 : 1 .. delivered'[i] = Complete(files[i])
    BY <1>2, <1>7 DEF ReadInv, DeliversWholeRecords
  <2> QED
    BY <1>1, <1>7, <2>1, <2>2 DEF DeliversWholeRecords, f
<1>11. WarnsIffCut' /\ AbortsOnlyFor'
  BY <1>1 DEF ReadInv, WarnsIffCut, AbortsOnlyFor
<1> QED
  BY <1>8, <1>9, <1>10, <1>11 DEF ReadInv

(* Every step of the loop keeps the invariant.                             *)
LEMMA NextReads ==
    ReadInv /\ [Next]_vars => ReadInv'
<1> SUFFICES ASSUME ReadInv, [Next]_vars
             PROVE  ReadInv'
  OBVIOUS
<1>1. ASSUME pc = "open", pc' = "next", off' = 0,
             UNCHANGED <<files, cur, delivered, warned, ioError>>
      PROVE  ReadInv'
  <2>1. cur \in DOMAIN files /\ delivered[cur] = 0 /\ files[cur] \in CaptureFile
        /\ Len(files[cur].lens) \in Nat
    BY <1>1, Current DEF ReadInv, Position
  <2>2. End(files[cur], delivered[cur]) = 0
    BY <2>1, EndStep
  <2>3. TypeOK' /\ FilesKnown'
    BY <1>1 DEF ReadInv, TypeOK, FilesKnown
  <2>4. Position'
    BY <1>1, <2>1, <2>2 DEF ReadInv, Position
  <2>5. DeliversWholeRecords' /\ WarnsIffCut' /\ AbortsOnlyFor'
    BY <1>1 DEF ReadInv, DeliversWholeRecords, WarnsIffCut, AbortsOnlyFor
  <2> QED
    BY <2>3, <2>4, <2>5 DEF ReadInv
<1>2. ASSUME pc \in {"open", "next"}, pc' = "failed", ioError' \in BOOLEAN,
             UNCHANGED <<files, cur, off, delivered, warned>>,
             ~files[cur].opens \/ ioError' \/ CutAfterHeader(files[cur])
      PROVE  ReadInv'
  <2>1. TypeOK' /\ FilesKnown'
    BY <1>2 DEF ReadInv, TypeOK, FilesKnown
  <2>2. Position'
    BY <1>2 DEF ReadInv, Position
  <2>3. DeliversWholeRecords' /\ WarnsIffCut' /\ AbortsOnlyFor'
    BY <1>2 DEF ReadInv, DeliversWholeRecords, WarnsIffCut, AbortsOnlyFor
  <2> QED
    BY <2>1, <2>2, <2>3 DEF ReadInv
<1>3. ASSUME UNCHANGED vars
      PROVE  ReadInv'
  <2>1. TypeOK' /\ FilesKnown' /\ Position'
    BY <1>3 DEF vars, ReadInv, TypeOK, FilesKnown, Position
  <2>2. DeliversWholeRecords' /\ WarnsIffCut' /\ AbortsOnlyFor'
    BY <1>3 DEF vars, ReadInv, DeliversWholeRecords, WarnsIffCut, AbortsOnlyFor
  <2> QED
    BY <2>1, <2>2 DEF ReadInv
<1>4. ioError \in BOOLEAN
  BY DEF ReadInv, TypeOK
<1>5. CASE OpenFile
  BY <1>1, <1>5 DEF OpenFile
<1>6. CASE OpenFails
  BY <1>2, <1>4, <1>6 DEF OpenFails
<1>7. CASE ReadPacket
  BY <1>7, ReadPacketReads
<1>8. CASE StopAtEnd
  <2>1. AtBoundary(files[cur]) /\ ReadToEnd
    BY <1>8, ErrorMeans DEF StopAtEnd, ReadToEnd
  <2> QED
    BY <1>8, <2>1, NextFileReads DEF StopAtEnd
<1>9. CASE StopTruncated
  <2>1. ~AtBoundary(files[cur]) /\ ReadToEnd
    BY <1>9, ErrorMeans DEF StopTruncated, ReadToEnd
  <2> QED
    BY <1>9, <2>1, NextFileReads DEF StopTruncated
<1>10. CASE Abort
  <2>1. CutAfterHeader(files[cur])
    BY <1>10, ErrorMeans DEF Abort
  <2> QED
    BY <1>2, <1>4, <1>10, <2>1 DEF Abort
<1>11. CASE IoError
  BY <1>2, <1>11 DEF IoError
<1> QED
  BY <1>3, <1>5, <1>6, <1>7, <1>8, <1>9, <1>10, <1>11 DEF Next

(* The inductive invariant of the file loop.                               *)
THEOREM ReadInvariant ==
    Spec => []ReadInv
<1> QED
  BY InitReads, NextReads, PTL DEF Spec

-----------------------------------------------------------------------------
(* One frame.                                                              *)

(* parseUDP returns the captured bytes of a datagram's body, whatever the  *)
(* frame is and wherever it was cut.                                       *)
THEOREM PayloadIsCapturedBody ==
    ASSUME NEW f, IsFrame(f)
    PROVE  Payload(f) = CapturedBody(f)
<1> DEFINE link == IF f.link = 1 THEN 14 ELSE IF f.link = 113 THEN 16 ELSE 0
           start == BodyStart(f)
<1>1. /\ f.link \in Nat /\ f.tags \in Nat /\ f.type \in {"IPv4", "other"}
      /\ f.link \in {228, 12} => f.tags = 0
      /\ f.ihl \in Nat /\ f.udpLen \in Nat /\ f.cap \in Nat
  <2>1. \A bits : UInt(bits) \subseteq Nat
    BY DEF UInt
  <2> QED
    BY <2>1 DEF IsFrame, dltRaw, EtherTypes
<1>2. ~IsDatagram(f) => Payload(f) = {}
  BY <1>1 DEF IsDatagram, Payload, CarriesIP, TypeRead, TagsSkipped, IsUDP, IPHeader,
              dltEthernet, dltLinuxCook, dltRaw
<1>3. ASSUME IsDatagram(f)
      PROVE  /\ ipStart(f) = LinkBytes(f) /\ ipStart(f) \in Nat
             /\ CarriesIP(f) <=> f.link \in dltRaw \/ f.cap >= ipStart(f)
  BY <1>1, <1>3 DEF IsDatagram, ipStart, LinkBytes, TagsSkipped, TypeRead, CarriesIP,
                    dltEthernet, dltLinuxCook, dltRaw
<1>4. ASSUME IsDatagram(f)
      PROVE  /\ start = ipStart(f) + IPHeader(f) + 8 /\ start \in Nat
             /\ IPHeader(f) \in Nat /\ IPHeader(f) >= 20
             /\ UDPBytes(f) = f.cap - start + 8
             /\ CarriesIP(f) /\ IsUDP(f) <=> f.cap >= start
  <2>1. ipStart(f) \in Nat /\ f.ihl \in Nat /\ f.ihl >= 5 /\ IPHeader(f) = 4 * f.ihl
        /\ f.version = 4 /\ f.proto = 17
    BY <1>1, <1>3, <1>4 DEF IsDatagram, IPHeader
  <2>2. PICK h : h = IPHeader(f)
    OBVIOUS
  <2>3. h \in Nat /\ h >= 20
    BY <2>1, <2>2
  <2>4. start = ipStart(f) + h + 8
    BY <1>3, <1>4, <2>1, <2>2 DEF BodyStart
  <2>5. UDPBytes(f) = f.cap - ipStart(f) - h /\ IPBytes(f) = f.cap - ipStart(f)
    BY <2>2 DEF UDPBytes, IPBytes
  <2>6. f.cap >= start => (f.link \in dltRaw \/ f.cap >= ipStart(f))
    BY <1>1, <2>1, <2>3, <2>4
  <2>7. IsUDP(f) <=> f.cap >= start
    BY <1>1, <2>1, <2>2, <2>3, <2>4, <2>5 DEF IsUDP
  <2> HIDE DEF start
  <2> QED
    BY <1>1, <1>3, <1>4, <2>1, <2>2, <2>3, <2>4, <2>5, <2>6, <2>7
<1>5. CASE IsDatagram(f) /\ f.cap >= start
  <2>1. Payload(f) = start .. start + Carried(f) - 1
    BY <1>4, <1>5 DEF Payload
  <2>2. Carried(f) = IF f.udpLen < 8 \/ f.cap < start + (f.udpLen - 8)
                     THEN f.cap - start ELSE f.udpLen - 8
    <3>1. UDPBytes(f) = f.cap - start + 8 /\ start \in Nat
      BY <1>4, <1>5
    <3> HIDE DEF start
    <3> QED
      BY <1>1, <3>1 DEF Carried, payloadLen
  <2>3. CapturedBody(f) = {i \in (IF f.udpLen >= 8 THEN start .. start + f.udpLen - 9
                                  ELSE start .. f.cap - 1) : i < f.cap}
    BY <1>5 DEF CapturedBody, Body
  <2>4. start \in Nat
    BY <1>4, <1>5
  <2> HIDE DEF start
  <2> QED
    <3>1. PICK c, u, K : c = f.cap /\ u = f.udpLen /\ K = Carried(f)
      OBVIOUS
    <3>2. /\ c \in Nat /\ u \in Nat /\ c >= start
          /\ K = IF u < 8 \/ c < start + (u - 8) THEN c - start ELSE u - 8
      BY Zenon, <1>1, <1>5, <2>2, <3>1
    <3>3. \A i : i \in start .. start + K - 1 <=>
                   i \in (IF u >= 8 THEN start .. start + u - 9 ELSE start .. c - 1) /\ i < c
      BY <2>4, <3>2
    <3>4. start .. start + K - 1
            = {i \in (IF u >= 8 THEN start .. start + u - 9 ELSE start .. c - 1) : i < c}
      BY Zenon, <3>3
    <3> QED
      BY Zenon, <2>1, <2>3, <3>1, <3>4
<1>6. CASE IsDatagram(f) /\ ~(f.cap >= start)
  <2>1. Payload(f) = {}
    BY <1>4, <1>6 DEF Payload
  <2>2. start \in Nat
    BY <1>4, <1>6
  <2>3. CapturedBody(f) = {i \in (IF f.udpLen >= 8 THEN start .. start + f.udpLen - 9
                                  ELSE start .. f.cap - 1) : i < f.cap}
    BY <1>6 DEF CapturedBody, Body
  <2> HIDE DEF start
  <2> QED
    BY <1>1, <1>6, <2>1, <2>2, <2>3
<1> QED
  BY <1>2, <1>5, <1>6 DEF CapturedBody

(* A frame gets a handler iff the loop is for it, and the right one.       *)
LEMMA HandledIffWanted ==
    ASSUME NEW f, IsFrame(f), loop \in Loops
    PROVE  /\ Wanted(f) <=> Handler(f) # "none"
           /\ Handler(f) = "rtp" => f.first >= 128
           /\ Handler(f) = "sip" => f.first < 128
           /\ Handler(f) \in {"none", "rtp", "sip"}
<1>1. f.first \in Nat
  BY DEF IsFrame, UInt
<1>2. LooksLikeRTP(f.first) <=> f.first \in 128 .. 191
  BY <1>1 DEF LooksLikeRTP
<1>3. Payload(f) = CapturedBody(f)
  BY PayloadIsCapturedBody
<1> QED
  BY <1>1, <1>2, <1>3 DEF Wanted, Handler, HandlerOf, LooksLikeSIP, Loops

-----------------------------------------------------------------------------
(* What the handlers have been called with.                                *)

(* The one call that Handed makes of a frame that is wanted.               *)
Told(f) ==
    IF Handler(f) = "sip" THEN [to |-> "sip", payload |-> Payload(f), info |-> parseSIP(f.msg)]
                          ELSE [to |-> "rtp", payload |-> Payload(f)]

Tellable == {Told(frames[i][k]) : i \in DOMAIN files, k \in Nat}

(* Of the first d records of file i those that are wanted, and how many of *)
(* them come up to record k.                                               *)
WantedOf(i, d)  == {k \in 1 .. d : Wanted(frames[i][k])}
RankOf(W, k)    == Cardinality({j \in W : j <= k})

(* The calls h are those for the first d records, in their order.          *)
IsTold(h, i, d) ==
    /\ h \in Seq(Tellable) /\ Len(h) = Cardinality(WantedOf(i, d))
    /\ \A k \in WantedOf(i, d) : h[RankOf(WantedOf(i, d), k)] = Told(frames[i][k])

FramesKnown ==
    /\ loop \in Loops /\ DOMAIN frames = DOMAIN files
    /\ \A i \in DOMAIN files :
          /\ DOMAIN frames[i] = DOMAIN files[i].lens
          /\ \A k \in DOMAIN frames[i] :
                IsFrame(frames[i][k]) /\ frames[i][k].msg.body \in Seq(SdpLines)

HandedSoFar ==
    /\ DOMAIN handed = DOMAIN files /\ handed = [i \in DOMAIN files |-> handed[i]]
    /\ \A i \in DOMAIN files : IsTold(handed[i], i, delivered[i])

FeedInv == ReadInv /\ FramesKnown /\ HandedSoFar

(* The ranks of a set of numbers that a greater one joins.                 *)
LEMMA RankStep ==
    ASSUME NEW d \in Nat, NEW W, W \subseteq 1 .. d
    PROVE  /\ IsFiniteSet(W) /\ Cardinality(W) \in Nat
           /\ \A k \in W : RankOf(W, k) \in 1 .. Cardinality(W)
           /\ Cardinality(W \cup {d + 1}) = Cardinality(W) + 1
           /\ RankOf(W \cup {d + 1}, d + 1) = Cardinality(W) + 1
           /\ \A k \in W : RankOf(W \cup {d + 1}, k) = RankOf(W, k)
<1>1. IsFiniteSet(W) /\ Cardinality(W) \in Nat
  <2>1. IsFiniteSet(1 .. d)
    BY FS_Interval
  <2>2. W \in SUBSET (1 .. d)
    OBVIOUS
  <2>3. IsFiniteSet(W)
    BY <2>1, <2>2, FS_Subset
  <2> QED
    BY <2>3, FS_CardinalityType
<1>2. ASSUME NEW k \in W
      PROVE  RankOf(W, k) \in 1 .. Cardinality(W)
  <2> DEFINE V == {j \in W : j <= k}
  <2>1. V \subseteq W /\ k \in V
    OBVIOUS
  <2> HIDE DEF V
  <2>2. IsFiniteSet(V) /\ Cardinality(V) <= Cardinality(W)
    BY <1>1, <2>1, FS_Subset
  <2>3. Cardinality(V) \in Nat /\ Cardinality(V) # 0
    BY <2>1, <2>2, FS_CardinalityType, FS_EmptySet
  <2>4. Cardinality(V) \in 1 .. Cardinality(W)
    BY <1>1, <2>2, <2>3
  <2> QED
    BY <2>4 DEF RankOf, V
<1>3. Cardinality(W \cup {d + 1}) = Cardinality(W) + 1
  <2>1. d + 1 \notin W
    OBVIOUS
  <2> QED
    BY <1>1, <2>1, FS_AddElement
<1>4. RankOf(W \cup {d + 1}, d + 1) = Cardinality(W) + 1
  <2>1. \A j \in W \cup {d + 1} : j <= d + 1
    <3>1. \A j \in W : j \in 1 .. d
      OBVIOUS
    <3> QED
      BY <3>1
  <2> QED
    BY <1>3, <2>1 DEF RankOf
<1>5. ASSUME NEW k \in W
      PROVE  RankOf(W \cup {d + 1}, k) = RankOf(W, k)
  <2>1. {j \in W \cup {d + 1} : j <= k} = {j \in W : j <= k}
    OBVIOUS
  <2> QED
    BY <2>1 DEF RankOf
<1> QED
  BY <1>1, <1>2, <1>3, <1>4, <1>5

(* One record more: its frame is handed on iff it is wanted.               *)
LEMMA TellOne ==
    ASSUME FramesKnown, NEW i \in DOMAIN files, NEW d \in Nat, d + 1 \in DOMAIN frames[i],
           NEW h, IsTold(h, i, d)
    PROVE  IsTold(h \o Handed(frames[i][d + 1]), i, d + 1)
<1> DEFINE f == frames[i][d + 1]
           W == WantedOf(i, d)
<1>1. IsFrame(f) /\ loop \in Loops
  BY DEF FramesKnown
<1>2. /\ Wanted(f) <=> Handler(f) # "none"
      /\ Handler(f) \in {"none", "rtp", "sip"}
  BY <1>1, HandledIffWanted
<1>3. /\ h \in Seq(Tellable) /\ Len(h) = Cardinality(W)
      /\ \A k \in W : h[RankOf(W, k)] = Told(frames[i][k])
  BY DEF IsTold
<1>4. W \subseteq 1 .. d
  BY DEF WantedOf
<1>5. WantedOf(i, d + 1) = IF Wanted(f) THEN W \cup {d + 1} ELSE W
  <2>1. 1 .. d + 1 = (1 .. d) \cup {d + 1}
    OBVIOUS
  <2> QED
    BY <2>1 DEF WantedOf
<1>6. CASE ~Wanted(f)
  <2>1. Handed(f) = << >>
    BY <1>2, <1>6 DEF Handed
  <2>2. h \o << >> = h
    BY <1>3
  <2> QED
    BY <1>3, <1>5, <1>6, <2>1, <2>2 DEF IsTold
<1>7. CASE Wanted(f)
  <2>1. Handed(f) = <<Told(f)>>
    BY <1>2, <1>7 DEF Handed, Told
  <2>2. Told(f) \in Tellable
    BY DEF Tellable
  <2> DEFINE V == W \cup {d + 1}
             x == Told(f)
  <2>3. /\ Cardinality(W) \in Nat /\ Cardinality(V) = Cardinality(W) + 1
        /\ \A k \in W : RankOf(W, k) \in 1 .. Cardinality(W) /\ RankOf(V, k) = RankOf(W, k)
        /\ RankOf(V, d + 1) = Cardinality(W) + 1
    BY <1>4, RankStep
  <2> HIDE DEF x, W
  <2>4. /\ h \o <<x>> \in Seq(Tellable) /\ Len(h \o <<x>>) = Len(h) + 1
        /\ \A n \in 1 .. Len(h) : (h \o <<x>>)[n] = h[n]
        /\ (h \o <<x>>)[Len(h) + 1] = x
    BY <1>3, <2>2 DEF x
  <2>5. \A k \in V : (h \o <<x>>)[RankOf(V, k)] = Told(frames[i][k])
    <3>1. \A k \in W : (h \o <<x>>)[RankOf(V, k)] = Told(frames[i][k])
      BY <1>3, <2>3, <2>4
    <3>2. (h \o <<x>>)[RankOf(V, d + 1)] = Told(frames[i][d + 1])
      BY <1>3, <2>3, <2>4 DEF x
    <3> QED
      BY <3>1, <3>2
  <2>6. Len(h \o <<x>>) = Cardinality(V)
    BY <1>3, <2>3, <2>4
  <2>7. WantedOf(i, d + 1) = V
    BY <1>5, <1>7 DEF W
  <2> HIDE DEF V
  <2>8. IsTold(h \o <<x>>, i, d + 1)
    BY <2>4, <2>5, <2>6, <2>7 DEF IsTold
  <2> QED
    BY <2>1, <2>8 DEF x
<1> QED
  BY <1>6, <1>7

(* What was handed on stays what it was.                                   *)
LEMMA ToldStays ==
    ASSUME UNCHANGED <<files, frames, loop>>, NEW h, NEW i, NEW d, IsTold(h, i, d)
    PROVE  IsTold(h, i, d)'
<1>1. Tellable' = Tellable /\ WantedOf(i, d)' = WantedOf(i, d)
  BY DEF Tellable, Told, Handler, WantedOf, Wanted
<1>2. \A f : Told(f)' = Told(f)
  BY DEF Told, Handler
<1> QED
  BY <1>1, <1>2 DEF IsTold

(* Nothing is handed on before the first record.                           *)
LEMMA InitFeeds ==
    FeedInit => FeedInv
<1> SUFFICES ASSUME FeedInit
             PROVE  FeedInv
  OBVIOUS
<1>1. PICK feed \in Feeds : files = feed.files /\ frames = feed.frames /\ loop = feed.loop
  BY DEF FeedInit
<1>2. ReadInv
  <2>1. files \in Captures
    BY <1>1, FeedsAssumption
  <2> QED
    BY <2>1, InitReads DEF FeedInit, Init
<1>3. FramesKnown
  BY <1>1, FeedsAssumption DEF FramesKnown, IsCaptured
<1>4. handed = [i \in DOMAIN files |-> << >>] /\ delivered = [i \in DOMAIN files |-> 0]
  BY DEF FeedInit, Start
<1>5. \A i \in DOMAIN files : IsTold(<< >>, i, 0)
  <2>1. \A i : WantedOf(i, 0) = {}
    BY DEF WantedOf
  <2>2. Cardinality({}) = 0
    BY FS_EmptySet
  <2> QED
    BY <2>1, <2>2 DEF IsTold
<1>6. HandedSoFar
  BY <1>4, <1>5 DEF HandedSoFar
<1> QED
  BY <1>2, <1>3, <1>6 DEF FeedInv

(* Every iteration of a loop hands on what it read.                        *)
LEMMA FeedPacketTells ==
    ASSUME FeedInv, FeedPacket
    PROVE  HandedSoFar'
<1> DEFINE d == delivered[cur]
           more == Handed(frames[cur][d + 1])
<1>1. /\ pc = "next" /\ NextErr.is = "nil"
      /\ delivered' = [delivered EXCEPT ![cur] = d + 1]
      /\ handed' = [handed EXCEPT ![cur] = @ \o Handed(frames[cur][delivered'[cur]])]
      /\ UNCHANGED <<files, frames, loop, cur>>
  BY DEF FeedPacket, ReadPacket
<1>2. ReadInv /\ FramesKnown
  BY DEF FeedInv
<1>3. cur \in DOMAIN files /\ d \in 0 .. Len(files[cur].lens) /\ files[cur].lens \in Seq(Nat)
  BY <1>1, <1>2, Current DEF CaptureFile
<1>4. d < Len(files[cur].lens)
  BY <1>1, <1>2, ErrorMeans
<1>5. d \in Nat /\ d + 1 \in DOMAIN frames[cur]
  BY <1>2, <1>3, <1>4 DEF FramesKnown
<1>6. delivered \in [DOMAIN files -> Nat] /\ DOMAIN handed = DOMAIN files
  BY <1>2 DEF FeedInv, HandedSoFar, ReadInv, TypeOK
<1>7. /\ delivered'[cur] = d + 1 /\ handed'[cur] = handed[cur] \o more
      /\ \A i \in DOMAIN files : i # cur => /\ delivered'[i] = delivered[i]
                                             /\ handed'[i] = handed[i]
      /\ DOMAIN handed' = DOMAIN files /\ handed' = [i \in DOMAIN files |-> handed'[i]]
  BY <1>1, <1>3, <1>6
<1>8. \A i \in DOMAIN files : IsTold(handed[i], i, delivered[i])
  BY DEF FeedInv, HandedSoFar
<1>9. IsTold(handed[cur] \o more, cur, d + 1)
  <2>1. PICK h, n : h = handed[cur] /\ n = d
    OBVIOUS
  <2>2. IsTold(h, cur, n)
    BY <1>3, <1>8, <2>1
  <2>3. IsTold(h \o Handed(frames[cur][n + 1]), cur, n + 1)
    BY <1>2, <1>3, <1>5, <2>1, <2>2, TellOne
  <2> QED
    BY <2>1, <2>3
<1> HIDE DEF more, d
<1>10. ASSUME NEW i \in DOMAIN files
       PROVE  IsTold(handed[i], i, delivered[i])'
  <2>1. PICK h, n : h = handed'[i] /\ n = delivered'[i]
    OBVIOUS
  <2>2. IsTold(h, i, n)
    BY <1>7, <1>8, <1>9, <2>1
  <2>3. IsTold(h, i, n)'
    BY <1>1, <2>2, ToldStays
  <2> QED
    BY <2>1, <2>3 DEF IsTold
<1> QED
  BY <1>1, <1>7, <1>10 DEF HandedSoFar

(* Every step keeps what was handed on in step with what was read.         *)
LEMMA NextFeeds ==
    FeedInv /\ [FeedNext]_feedVars => FeedInv'
<1> SUFFICES ASSUME FeedInv, [FeedNext]_feedVars
             PROVE  FeedInv'
  OBVIOUS
<1>1. ReadInv'
  <2>1. [Next]_vars
    BY DEF FeedNext, FeedPacket, FeedOther, Next, feedVars
  <2> QED
    BY <2>1, NextReads DEF FeedInv
<1>2. UNCHANGED <<files, frames, loop>>
  BY DEF FeedNext, FeedPacket, FeedOther, feedVars, vars, ReadPacket, OpenFile, OpenFails,
         StopAtEnd, StopTruncated, NextFile, Abort, IoError
<1>3. FramesKnown'
  BY <1>2 DEF FeedInv, FramesKnown
<1>4. CASE FeedPacket
  BY <1>1, <1>3, <1>4, FeedPacketTells DEF FeedInv
<1>5. CASE ~FeedPacket
  <2>1. UNCHANGED <<handed, delivered>>
    BY <1>5 DEF FeedNext, FeedOther, feedVars, vars, OpenFile, OpenFails,
                StopAtEnd, StopTruncated, NextFile, Abort, IoError
  <2>2. ASSUME NEW i \in DOMAIN files
        PROVE  IsTold(handed[i], i, delivered[i])'
    <3>1. PICK h, n : h = handed[i] /\ n = delivered[i]
      OBVIOUS
    <3>2. IsTold(h, i, n)'
      BY <1>2, <3>1, ToldStays DEF FeedInv, HandedSoFar
    <3> QED
      BY <2>1, <3>1, <3>2 DEF IsTold
  <2>3. HandedSoFar'
    BY <1>2, <2>1, <2>2 DEF FeedInv, HandedSoFar
  <2> QED
    BY <1>1, <1>3, <2>3 DEF FeedInv
<1> QED
  BY <1>4, <1>5

(* The inductive invariant of the loops and their handlers.                *)
THEOREM FeedInvariant ==
    FeedSpec => []FeedInv
<1> QED
  BY InitFeeds, NextFeeds, PTL DEF FeedSpec

-----------------------------------------------------------------------------
(* Whichever loop runs, and whatever its handlers make of the packets, the *)
(* files are read as PcapReader says: handling a packet is no step of the  *)
(* reader's own.                                                           *)
THEOREM FeedImplementsReader ==
    FeedSpec => Spec
<1>1. FeedInit => Init
  BY FeedsAssumption DEF FeedInit, Init
<1>2. [FeedNext]_feedVars => [Next]_vars
  BY DEF FeedNext, FeedPacket, FeedOther, feedVars, Next
<1> QED
  BY <1>1, <1>2, PTL DEF FeedSpec, Spec

-----------------------------------------------------------------------------
(* Types of the reader, in any of the loops.                               *)
THEOREM ReaderTypes ==
    FeedSpec => []TypeOK
<1>1. FeedInv => TypeOK
  BY DEF FeedInv, ReadInv
<1> QED
  BY <1>1, FeedInvariant, PTL

(* PcapReader.Next and the loops over it: every record that is whole on    *)
(* disk is delivered, once, and nothing of one that is not.                *)
THEOREM WholeRecordsDelivered ==
    FeedSpec => []DeliversWholeRecords
<1>1. FeedInv => DeliversWholeRecords
  BY DEF FeedInv, ReadInv
<1> QED
  BY <1>1, FeedInvariant, PTL

(* warnTruncated is called exactly for files that end inside a record.     *)
THEOREM WarningsAreTrue ==
    FeedSpec => []WarnsIffCut
<1>1. FeedInv => WarnsIffCut
  BY DEF FeedInv, ReadInv
<1> QED
  BY <1>1, FeedInvariant, PTL

(* What a run can fail for.                                                *)
THEOREM AbortsHaveCause ==
    FeedSpec => []AbortsOnlyFor
<1>1. FeedInv => AbortsOnlyFor
  BY DEF FeedInv, ReadInv
<1> QED
  BY <1>1, FeedInvariant, PTL

(* In a file the loop is through with, the wanted records are those it has *)
(* counted as delivered.                                                   *)
LEMMA WantedAreDelivered ==
    ASSUME FeedInv, NEW i \in 1 .. cur - 1
    PROVE  /\ i \in DOMAIN files
           /\ WantedRecords(i) = WantedOf(i, delivered[i])
           /\ \A k : Rank(i, k) = RankOf(WantedOf(i, delivered[i]), k)
           /\ IsTold(handed[i], i, delivered[i])
           /\ \A k \in WantedRecords(i) :
                 IsFrame(frames[i][k]) /\ frames[i][k].msg.body \in Seq(SdpLines)
<1>1. cur \in 1 .. Len(files) + 1 /\ files \in Seq(CaptureFile)
  BY CapturesAssumption DEF FeedInv, ReadInv, TypeOK
<1>2. i \in DOMAIN files
  BY <1>1
<1>3. 1 .. delivered[i] = Complete(files[i])
  BY DEF FeedInv, ReadInv, DeliversWholeRecords
<1>4. WantedRecords(i) = WantedOf(i, delivered[i])
  BY <1>3 DEF WantedRecords, WantedOf
<1>5. \A k : Rank(i, k) = RankOf(WantedOf(i, delivered[i]), k)
  BY <1>4 DEF Rank, RankOf
<1>6. IsTold(handed[i], i, delivered[i])
  BY <1>2 DEF FeedInv, HandedSoFar
<1>7. \A k \in WantedRecords(i) : k \in DOMAIN frames[i]
  <2>1. files[i].lens \in Seq(Nat) /\ DOMAIN frames[i] = DOMAIN files[i].lens
    BY <1>2 DEF FeedInv, ReadInv, FilesKnown, CaptureFile, FramesKnown
  <2> QED
    BY <2>1 DEF WantedRecords, Complete
<1> QED
  BY <1>2, <1>4, <1>5, <1>6, <1>7 DEF FeedInv, FramesKnown

(* The loops of analyze, extractCalls and extractRTP: each handler gets    *)
(* the captured bytes of every datagram meant for it, in order, and        *)
(* nothing else, whatever frames the capture holds.                        *)
THEOREM DatagramsReachHandlers ==
    FeedSpec => []HandlersSeeDatagrams
<1>1. FeedInv => HandlersSeeDatagrams
  <2> SUFFICES ASSUME FeedInv, NEW i \in 1 .. cur - 1
               PROVE  /\ Len(handed[i]) = Cardinality(WantedRecords(i))
                      /\ \A k \in WantedRecords(i) :
                            LET frame == frames[i][k]
                                given == handed[i][Rank(i, k)]
                            IN  /\ given.payload = CapturedBody(frame)
                                /\ given.to = IF frame.first >= 128 THEN "rtp" ELSE "sip"
    BY DEF HandlersSeeDatagrams
  <2>1. Len(handed[i]) = Cardinality(WantedRecords(i))
    BY WantedAreDelivered DEF IsTold
  <2>2. ASSUME NEW k \in WantedRecords(i)
        PROVE  LET frame == frames[i][k]
                   given == handed[i][Rank(i, k)]
               IN  /\ given.payload = CapturedBody(frame)
                   /\ given.to = IF frame.first >= 128 THEN "rtp" ELSE "sip"
    <3>1. handed[i][Rank(i, k)] = Told(frames[i][k])
      BY WantedAreDelivered DEF IsTold
    <3>2. IsFrame(frames[i][k]) /\ Wanted(frames[i][k]) /\ loop \in Loops
      BY WantedAreDelivered DEF WantedRecords, FeedInv, FramesKnown
    <3>3. PICK f : f = frames[i][k]
      OBVIOUS
    <3>4. Payload(f) = CapturedBody(f) /\ f.first \in Nat
      BY <3>2, <3>3, PayloadIsCapturedBody DEF IsFrame, UInt
    <3>5. /\ Handler(f) \in {"rtp", "sip"}
          /\ Handler(f) = "rtp" => f.first >= 128
          /\ Handler(f) = "sip" => f.first < 128
      BY <3>2, <3>3, HandledIffWanted
    <3>6. Told(f).payload = CapturedBody(f) /\ Told(f).to = Handler(f)
      BY <3>4, <3>5 DEF Told
    <3>7. Told(f).to = IF f.first >= 128 THEN "rtp" ELSE "sip"
      BY <3>4, <3>5, <3>6
    <3> QED
      BY <3>1, <3>3, <3>6, <3>7
  <2> QED
    BY <2>1, <2>2
<1> QED
  BY <1>1, FeedInvariant, PTL

-----------------------------------------------------------------------------
(* The scanner of an SDP body.                                             *)

UpTo(S, i) == {j \in S : j <= i}

Numbers == SUBSET (Nat \ {0})

(* The numbers of a set up to i are those before the next one, n.          *)
LEMMA UpToBefore ==
    ASSUME NEW S \in Numbers, NEW i \in Nat, NEW n, n = i + 1
    PROVE  /\ Before(S, n) = UpTo(S, i) /\ UpTo(S, 0) = {}
           /\ UpTo(S, i) # {} => Max(UpTo(S, i)) \in S
<1>1. /\ \A j \in S : j \in Nat /\ j # 0
      /\ \A j \in Nat : /\ j < n <=> j <= i
                        /\ j <= 0 <=> j = 0
                        /\ j <= i => j \in 0 .. i
  BY DEF Numbers
<1>2. Before(S, n) = UpTo(S, i) /\ UpTo(S, 0) = {}
  BY Zenon, <1>1 DEF Before, UpTo
<1>3. PICK T : T = UpTo(S, i)
  OBVIOUS
<1>4. T \in SUBSET Nat /\ T \in SUBSET (0 .. i) /\ T \subseteq S
  BY Zenon, <1>1, <1>3 DEF UpTo
<1>5. ASSUME T # {}
      PROVE  Max(T) \in S
  <2>1. PICK m \in T : \A k \in T : m >= k
    BY <1>4, <1>5, GreatestElement
  <2> QED
    BY <1>4, <2>1, MaxIsGreatest
<1> QED
  BY Zenon, <1>2, <1>3, <1>5

(* The numbers of a set up to the next one.                                *)
LEMMA UpToNext ==
    ASSUME NEW S \in Numbers, NEW i \in Nat, NEW n, n = i + 1
    PROVE  /\ n \notin S => UpTo(S, n) = UpTo(S, i)
           /\ n \in S => /\ UpTo(S, n) = UpTo(S, i) \cup {n} /\ UpTo(S, n) # {}
                         /\ Max(UpTo(S, n)) = n
<1>1. /\ \A j \in S : j \in Nat
      /\ \A j \in Nat : /\ j <= n <=> (j <= i \/ j = n)
                        /\ j <= i => j < n
      /\ n \in Nat
  BY DEF Numbers
<1>2. n \notin S => UpTo(S, n) = UpTo(S, i)
  BY Zenon, <1>1 DEF UpTo
<1>3. n \in S => UpTo(S, n) = UpTo(S, i) \cup {n} /\ UpTo(S, n) # {}
  BY Zenon, <1>1 DEF UpTo
<1>4. PICK T : T = UpTo(S, i)
  OBVIOUS
<1>5. T \in SUBSET Nat /\ \A k \in T : k < n
  BY Zenon, <1>1, <1>4 DEF UpTo
<1>6. Max(T \cup {n}) = n
  BY <1>1, <1>5, NewGreatest
<1> QED
  BY Zenon, <1>2, <1>3, <1>4, <1>6

(* What the scanner can hold.                                              *)
ScannedEndpoints ==
    {[ip |-> addr, port |-> line.port % PortRange] : addr \in Addresses, line \in SdpLines}
ScannedMaps ==
    UNION {[pts -> {line.codec : line \in SdpLines}] : pts \in SUBSET {line.pt : line \in SdpLines}}

Scanner ==
    [sdpIP : Addresses \cup {NoAddr}, inAudio : BOOLEAN,
     endpoints : Seq(ScannedEndpoints), rtpMap : ScannedMaps]

(* One line, field by field.                                               *)
LEMMA OneLine ==
    ASSUME NEW s \in Scanner, NEW line \in SdpLines
    PROVE  /\ scanLine(s, line) \in Scanner
           /\ scanLine(s, line).sdpIP =
                IF line.kind = "c" /\ line.addr \notin HoldAddrs THEN line.addr ELSE s.sdpIP
           /\ scanLine(s, line).inAudio = IF line.kind = "m" THEN line.audio ELSE s.inAudio
           /\ scanLine(s, line).endpoints =
                IF line.kind = "m" /\ line.audio /\ s.sdpIP # NoAddr /\ line.port > 0
                THEN Append(s.endpoints, [ip |-> s.sdpIP, port |-> line.port % PortRange])
                ELSE s.endpoints
           /\ scanLine(s, line).rtpMap =
                IF line.kind = "rtpmap" /\ s.inAudio /\ line.pt # NoValue
                THEN Put(s.rtpMap, line.pt, line.codec) ELSE s.rtpMap
<1>1. /\ s.sdpIP \in Addresses \cup {NoAddr} /\ s.inAudio \in BOOLEAN
      /\ s.endpoints \in Seq(ScannedEndpoints) /\ s.rtpMap \in ScannedMaps
  BY DEF Scanner
<1>2. CASE line.kind = "c"
  <2>1. line.addr \in Addresses
    BY <1>2, AddressAssumption
  <2>2. scanLine(s, line) = [s EXCEPT !.sdpIP = IF line.addr \in HoldAddrs THEN @ ELSE line.addr]
    BY <1>2 DEF scanLine, scanConnection
  <2> QED
    BY <1>1, <1>2, <2>1, <2>2 DEF Scanner
<1>3. CASE line.kind = "m"
  <2> DEFINE ep  == [ip |-> s.sdpIP, port |-> line.port % PortRange]
             eps == IF line.audio /\ s.sdpIP # NoAddr /\ line.port > 0
                    THEN Append(s.endpoints, ep) ELSE s.endpoints
  <2>1. line.audio \in BOOLEAN
    BY <1>3, AddressAssumption
  <2>2. s.sdpIP # NoAddr => ep \in ScannedEndpoints
    BY <1>1 DEF ScannedEndpoints
  <2>3. scanLine(s, line) = [s EXCEPT !.inAudio = line.audio, !.endpoints = eps]
    BY <1>3 DEF scanLine, scanMedia
  <2> HIDE DEF ep
  <2>4. eps \in Seq(ScannedEndpoints)
    BY <1>1, <2>2
  <2> HIDE DEF eps
  <2>5. /\ scanLine(s, line) \in Scanner /\ scanLine(s, line).sdpIP = s.sdpIP
        /\ scanLine(s, line).inAudio = line.audio /\ scanLine(s, line).endpoints = eps
        /\ scanLine(s, line).rtpMap = s.rtpMap
    BY <1>1, <2>1, <2>3, <2>4 DEF Scanner
  <2> QED
    BY <1>3, <2>5 DEF eps, ep
<1>4. CASE line.kind = "rtpmap"
  <2> DEFINE map == IF s.inAudio /\ line.pt # NoValue
                    THEN Put(s.rtpMap, line.pt, line.codec) ELSE s.rtpMap
  <2>1. map \in ScannedMaps
    <3>1. PICK pts \in SUBSET {l.pt : l \in SdpLines} : s.rtpMap \in [pts -> {l.codec : l \in SdpLines}]
      BY <1>1 DEF ScannedMaps
    <3>2. pts \cup {line.pt} \in SUBSET {l.pt : l \in SdpLines}
      OBVIOUS
    <3>3. Put(s.rtpMap, line.pt, line.codec) \in [pts \cup {line.pt} -> {l.codec : l \in SdpLines}]
      BY <3>1 DEF Put
    <3>4. Put(s.rtpMap, line.pt, line.codec) \in ScannedMaps
      BY <3>2, <3>3 DEF ScannedMaps
    <3> QED
      BY <1>1, <3>4
  <2>2. scanLine(s, line) = IF s.inAudio /\ line.pt # NoValue
                            THEN [s EXCEPT !.rtpMap = Put(@, line.pt, line.codec)] ELSE s
    BY <1>4 DEF scanLine, scanRtpmap
  <2>3. scanLine(s, line) = [s EXCEPT !.rtpMap = map]
    BY <2>2 DEF Scanner
  <2> HIDE DEF map
  <2>4. /\ scanLine(s, line) \in Scanner /\ scanLine(s, line).sdpIP = s.sdpIP
        /\ scanLine(s, line).inAudio = s.inAudio /\ scanLine(s, line).endpoints = s.endpoints
        /\ scanLine(s, line).rtpMap = map
    BY <1>1, <2>1, <2>3 DEF Scanner
  <2> QED
    BY <1>4, <2>4 DEF map
<1>5. CASE line.kind \notin {"c", "m", "rtpmap"}
  <2>1. scanLine(s, line) = s
    BY <1>5 DEF scanLine
  <2> QED
    BY <1>5, <2>1
<1> QED
  BY <1>2, <1>3, <1>4, <1>5

(* The elements of a longer list.                                          *)
LEMMA ToSetAppend ==
    ASSUME NEW S, NEW list \in Seq(S), NEW e
    PROVE  ToSet(Append(list, e)) = ToSet(list) \cup {e}
<1>1. /\ DOMAIN Append(list, e) = DOMAIN list \cup {Len(list) + 1}
      /\ \A j \in DOMAIN list : Append(list, e)[j] = list[j]
      /\ Append(list, e)[Len(list) + 1] = e
  OBVIOUS
<1> QED
  BY Zenon, <1>1 DEF ToSet

(* The table behind a recursive function over the lines of a body.         *)
IsScan(body, g, n) ==
    g = [i \in 0 .. n |-> IF i = 0 THEN scanStart ELSE scanLine(g[i - 1], body[i])]

(* scanBody's loop is well defined: line by line from the start.           *)
LEMMA LineByLine ==
    ASSUME NEW body \in Seq(SdpLines)
    PROVE  /\ scanned(body)[0] = scanStart
           /\ \A i \in 0 .. Len(body) - 1 :
                 scanned(body)[i + 1] = scanLine(scanned(body)[i], body[i + 1])
<1> DEFINE G == {n \in Nat : \E g : IsScan(body, g, n)}
<1>1. 0 \in G
  <2>1. IsScan(body, [i \in 0 .. 0 |-> scanStart], 0)
    BY DEF IsScan
  <2> QED
    BY <2>1
<1>2. ASSUME NEW n \in Nat, n \in G
      PROVE  n + 1 \in G
  <2>1. PICK g : IsScan(body, g, n)
    BY <1>2
  <2> DEFINE next == scanLine(g[n], body[n + 1])
             h == [i \in 0 .. n + 1 |-> IF i = n + 1 THEN next ELSE g[i]]
  <2>2. \A i \in 0 .. n : g[i] = IF i = 0 THEN scanStart ELSE scanLine(g[i - 1], body[i])
    BY Zenon, <2>1 DEF IsScan
  <2>3. \A i \in 0 .. n + 1 : /\ i # n + 1 => i \in 0 .. n
                              /\ i # 0 => i - 1 \in 0 .. n + 1 /\ i - 1 # n + 1
                              /\ i = n + 1 => i # 0 /\ i - 1 = n
    OBVIOUS
  <2>4. ASSUME NEW i \in 0 .. n + 1
        PROVE  h[i] = IF i = 0 THEN scanStart ELSE scanLine(h[i - 1], body[i])
    <3>1. CASE i = n + 1
      <4>1. h[i] = next /\ h[i - 1] = g[n]
        BY <3>1, <2>3
      <4> QED
        BY Zenon, <3>1, <4>1, <2>3
    <3>2. CASE i # n + 1 /\ i = 0
      <4>1. h[i] = g[i] /\ i \in 0 .. n
        BY <3>2, <2>3
      <4> QED
        BY Zenon, <3>2, <4>1, <2>2
    <3>3. CASE i # n + 1 /\ i # 0
      <4>1. h[i] = g[i] /\ h[i - 1] = g[i - 1] /\ i \in 0 .. n
        BY <3>3, <2>3
      <4> QED
        BY Zenon, <3>3, <4>1, <2>2
    <3> QED
      BY <3>1, <3>2, <3>3
  <2> HIDE DEF next
  <2>5. h = [i \in 0 .. n + 1 |-> IF i = 0 THEN scanStart ELSE scanLine(h[i - 1], body[i])]
    BY Zenon, <2>4
  <2>6. \E e : IsScan(body, e, n + 1)
    BY Zenon, <2>5 DEF IsScan
  <2> QED
    BY <2>6
<1>3. Len(body) \in Nat
  OBVIOUS
<1>4. \E g : IsScan(body, g, Len(body))
  <2> HIDE DEF G
  <2>1. \A n \in Nat : n \in G
    BY <1>1, <1>2, NumberInduction
  <2> QED
    BY <2>1, <1>3 DEF G
<1>5. scanned(body) = CHOOSE g : IsScan(body, g, Len(body))
  BY Zenon DEF scanned, IsScan
<1>6. IsScan(body, scanned(body), Len(body))
  BY Zenon, <1>4, <1>5
<1>7. \A i \in 0 .. Len(body) :
         scanned(body)[i] = IF i = 0 THEN scanStart ELSE scanLine(scanned(body)[i - 1], body[i])
  BY Zenon, <1>6 DEF IsScan
<1>8. 0 \in 0 .. Len(body)
      /\ \A i \in 0 .. Len(body) - 1 : i + 1 \in 0 .. Len(body) /\ i + 1 # 0 /\ (i + 1) - 1 = i
  BY <1>3
<1> QED
  BY Zenon, <1>7, <1>8

EndpointAt(body, j) ==
    [ip |-> body[Max(Before(UsableAddrs(body), j))].addr, port |-> body[j].port % PortRange]
RtpmapsOf(body, pt) == {j \in AudioRtpmaps(body) : body[j].pt = pt}

(* s is what the first i lines of the body announce.                       *)
HeardAddress(body, s, i) ==
    s.sdpIP = IF UpTo(UsableAddrs(body), i) = {} THEN NoAddr
              ELSE body[Max(UpTo(UsableAddrs(body), i))].addr
HeardMedia(body, s, i) ==
    s.inAudio = IF UpTo(MediaLines(body), i) = {} THEN FALSE
                ELSE body[Max(UpTo(MediaLines(body), i))].audio
HeardEndpoints(body, s, i) ==
    ToSet(s.endpoints) = {EndpointAt(body, j) : j \in UpTo(AudioStreams(body), i)}
HeardCodecs(body, s, i) ==
    /\ DOMAIN s.rtpMap = {body[j].pt : j \in UpTo(AudioRtpmaps(body), i)}
    /\ \A pt \in DOMAIN s.rtpMap :
          s.rtpMap[pt] = body[Max(UpTo(RtpmapsOf(body, pt), i))].codec

Heard(body, s, i) ==
    /\ s \in Scanner
    /\ HeardAddress(body, s, i) /\ HeardMedia(body, s, i)
    /\ HeardEndpoints(body, s, i) /\ HeardCodecs(body, s, i)

(* The lines of each kind are lines of the body.                           *)
LEMMA LinesOfBody ==
    ASSUME NEW body \in Seq(SdpLines)
    PROVE  /\ UsableAddrs(body) \subseteq DOMAIN body /\ MediaLines(body) \subseteq DOMAIN body
           /\ AudioStreams(body) \subseteq DOMAIN body
           /\ AudioRtpmaps(body) \subseteq DOMAIN body
           /\ \A pt : RtpmapsOf(body, pt) \subseteq DOMAIN body
           /\ \A S : S \subseteq DOMAIN body => S \in Numbers
           /\ DOMAIN body = 1 .. Len(body)
           /\ Len(body) \in Nat /\ \A j \in DOMAIN body : body[j] \in SdpLines
<1>1. /\ UsableAddrs(body) \subseteq DOMAIN body /\ MediaLines(body) \subseteq DOMAIN body
      /\ AudioStreams(body) \subseteq DOMAIN body
      /\ AudioRtpmaps(body) \subseteq DOMAIN body
      /\ \A pt : RtpmapsOf(body, pt) \subseteq DOMAIN body
  BY Zenon DEF UsableAddrs, MediaLines, AudioStreams, AudioRtpmaps, RtpmapsOf
<1>2. /\ DOMAIN body \subseteq Nat \ {0} /\ DOMAIN body = 1 .. Len(body)
      /\ Len(body) \in Nat /\ \A j \in DOMAIN body : body[j] \in SdpLines
  OBVIOUS
<1>3. \A S : S \subseteq DOMAIN body => S \in Numbers
  BY Zenon, <1>2 DEF Numbers
<1> QED
  BY Zenon, <1>1, <1>2, <1>3

(* What is known of the next line.                                         *)
LEMMA NextLine ==
    ASSUME NEW body \in Seq(SdpLines), NEW i \in Nat, i < Len(body),
           NEW s, Heard(body, s, i)
    PROVE  LET line == body[i + 1]
           IN  /\ line \in SdpLines /\ i + 1 \in DOMAIN body
               /\ i + 1 \in UsableAddrs(body) <=> (line.kind = "c" /\ line.addr \notin HoldAddrs)
               /\ i + 1 \in MediaLines(body) <=> line.kind = "m"
               /\ i + 1 \in AudioStreams(body) <=>
                    (line.kind = "m" /\ line.audio /\ s.sdpIP # NoAddr /\ line.port > 0)
               /\ i + 1 \in AudioStreams(body) =>
                    EndpointAt(body, i + 1) = [ip |-> s.sdpIP, port |-> line.port % PortRange]
               /\ i + 1 \in AudioRtpmaps(body) <=>
                    (line.kind = "rtpmap" /\ s.inAudio /\ line.pt # NoValue)
<1> DEFINE U == UsableAddrs(body)
           M == MediaLines(body)
<1>1. i + 1 \in DOMAIN body /\ body[i + 1] \in SdpLines
  BY LinesOfBody
<1>2. U \in Numbers /\ M \in Numbers /\ U \subseteq DOMAIN body
  BY Zenon, LinesOfBody
<1>3. /\ i + 1 \in U <=> (body[i + 1].kind = "c" /\ body[i + 1].addr \notin HoldAddrs)
      /\ i + 1 \in M <=> body[i + 1].kind = "m"
  BY Zenon, <1>1 DEF UsableAddrs, MediaLines
<1>4. /\ s.sdpIP = IF UpTo(U, i) = {} THEN NoAddr ELSE body[Max(UpTo(U, i))].addr
      /\ s.inAudio = IF UpTo(M, i) = {} THEN FALSE ELSE body[Max(UpTo(M, i))].audio
  BY Zenon DEF Heard, HeardAddress, HeardMedia
<1>5. \A j \in U : body[j].kind = "c" /\ body[j] \in SdpLines
  BY <1>2, LinesOfBody DEF UsableAddrs
<1> HIDE DEF U, M
<1>6. /\ Before(U, i + 1) = UpTo(U, i) /\ Before(M, i + 1) = UpTo(M, i)
      /\ UpTo(U, i) # {} => Max(UpTo(U, i)) \in U
  BY Zenon, <1>2, UpToBefore
<1>7. s.sdpIP # NoAddr <=> Before(U, i + 1) # {}
  <2>1. UpTo(U, i) # {} => body[Max(UpTo(U, i))].addr \in Addresses
    BY Zenon, <1>5, <1>6, AddressAssumption
  <2> QED
    BY Zenon, <1>4, <1>6, <2>1, AddressAssumption
<1>8. s.inAudio <=> (Before(M, i + 1) # {} /\ body[Max(Before(M, i + 1))].audio)
  BY Zenon, <1>4, <1>6
<1>9. i + 1 \in AudioStreams(body) <=>
        (body[i + 1].kind = "m" /\ body[i + 1].audio /\ s.sdpIP # NoAddr /\ body[i + 1].port > 0)
  BY Zenon, <1>3, <1>7 DEF AudioStreams, U, M
<1>10. i + 1 \in AudioStreams(body) =>
         EndpointAt(body, i + 1) = [ip |-> s.sdpIP, port |-> body[i + 1].port % PortRange]
  BY Zenon, <1>4, <1>6, <1>7, <1>9 DEF EndpointAt, U
<1>11. i + 1 \in AudioRtpmaps(body) <=>
         (body[i + 1].kind = "rtpmap" /\ s.inAudio /\ body[i + 1].pt # NoValue)
  BY Zenon, <1>1, <1>8 DEF AudioRtpmaps, M
<1> QED
  BY Zenon, <1>1, <1>3, <1>9, <1>10, <1>11 DEF U, M

(* One more line heard.                                                    *)
LEMMA HeardStep ==
    ASSUME NEW body \in Seq(SdpLines), NEW i \in Nat, i < Len(body),
           NEW s, Heard(body, s, i)
    PROVE  Heard(body, scanLine(s, body[i + 1]), i + 1)
<1>1. PICK line, t, n : line = body[i + 1] /\ t = scanLine(s, body[i + 1]) /\ n = i + 1
  OBVIOUS
<1>2. n = i + 1
  BY <1>1
<1>3. s \in Scanner /\ line \in SdpLines
  BY <1>1, NextLine DEF Heard
<1>4. /\ t \in Scanner
      /\ t.sdpIP = IF line.kind = "c" /\ line.addr \notin HoldAddrs THEN line.addr ELSE s.sdpIP
      /\ t.inAudio = IF line.kind = "m" THEN line.audio ELSE s.inAudio
      /\ t.rtpMap = IF line.kind = "rtpmap" /\ s.inAudio /\ line.pt # NoValue
                    THEN Put(s.rtpMap, line.pt, line.codec) ELSE s.rtpMap
  <2>1. t = scanLine(s, line)
    BY <1>1
  <2> QED
    BY ZenonT(30), <1>3, <2>1, OneLine
<1>5. /\ n \in UsableAddrs(body) <=> (line.kind = "c" /\ line.addr \notin HoldAddrs)
      /\ n \in MediaLines(body) <=> line.kind = "m"
      /\ n \in AudioRtpmaps(body) <=> (line.kind = "rtpmap" /\ s.inAudio /\ line.pt # NoValue)
  BY ZenonT(30), <1>1, NextLine
<1>6. HeardAddress(body, t, n)
  <2> DEFINE U == UsableAddrs(body)
  <2>1. t.sdpIP = IF n \in U THEN line.addr ELSE s.sdpIP
    BY ZenonT(30), <1>4, <1>5
  <2>2. s.sdpIP = IF UpTo(U, i) = {} THEN NoAddr ELSE body[Max(UpTo(U, i))].addr
    BY DEF Heard, HeardAddress
  <2>3. U \in Numbers
    BY ZenonT(30), LinesOfBody
  <2> HIDE DEF U
  <2>4. /\ n \notin U => UpTo(U, n) = UpTo(U, i)
        /\ n \in U => UpTo(U, n) # {} /\ Max(UpTo(U, n)) = n
    BY ZenonT(30), <1>2, <2>3, UpToNext
  <2>5. t.sdpIP = IF UpTo(U, n) = {} THEN NoAddr ELSE body[Max(UpTo(U, n))].addr
    BY ZenonT(30), <1>1, <2>1, <2>2, <2>4
  <2> QED
    BY ZenonT(30), <2>5 DEF HeardAddress, U
<1>7. HeardMedia(body, t, n)
  <2> DEFINE M == MediaLines(body)
  <2>1. t.inAudio = IF n \in M THEN line.audio ELSE s.inAudio
    BY ZenonT(30), <1>4, <1>5
  <2>2. s.inAudio = IF UpTo(M, i) = {} THEN FALSE ELSE body[Max(UpTo(M, i))].audio
    BY DEF Heard, HeardMedia
  <2>3. M \in Numbers
    BY ZenonT(30), LinesOfBody
  <2> HIDE DEF M
  <2>4. /\ n \notin M => UpTo(M, n) = UpTo(M, i)
        /\ n \in M => UpTo(M, n) # {} /\ Max(UpTo(M, n)) = n
    BY ZenonT(30), <1>2, <2>3, UpToNext
  <2>5. t.inAudio = IF UpTo(M, n) = {} THEN FALSE ELSE body[Max(UpTo(M, n))].audio
    BY ZenonT(30), <1>1, <2>1, <2>2, <2>4
  <2> QED
    BY ZenonT(30), <2>5 DEF HeardMedia, M
<1>8. HeardEndpoints(body, t, n)
  <2> DEFINE A == AudioStreams(body)
             e == [ip |-> s.sdpIP, port |-> line.port % PortRange]
  <2>1. t.endpoints = IF n \in A THEN Append(s.endpoints, e) ELSE s.endpoints
    BY <1>1, <1>3, OneLine, NextLine
  <2>2. n \in A => EndpointAt(body, n) = e
    BY <1>1, NextLine
  <2>3. A \in Numbers
    BY ZenonT(30), LinesOfBody
  <2>4. ToSet(s.endpoints) = {EndpointAt(body, j) : j \in UpTo(A, i)}
    BY DEF Heard, HeardEndpoints
  <2>5. s.endpoints \in Seq(ScannedEndpoints)
    BY <1>3 DEF Scanner
  <2> HIDE DEF A, e
  <2>6. /\ n \notin A => UpTo(A, n) = UpTo(A, i)
        /\ n \in A => UpTo(A, n) = UpTo(A, i) \cup {n}
    BY ZenonT(30), <1>2, <2>3, UpToNext
  <2>7. ToSet(Append(s.endpoints, e)) = ToSet(s.endpoints) \cup {e}
    BY <2>5, ToSetAppend
  <2>8. ToSet(t.endpoints) = {EndpointAt(body, j) : j \in UpTo(A, n)}
    <3>1. CASE n \in A
      <4>1. {EndpointAt(body, j) : j \in UpTo(A, n)}
              = {EndpointAt(body, j) : j \in UpTo(A, i)} \cup {EndpointAt(body, n)}
        BY ZenonT(30), <3>1, <2>6
      <4> QED
        BY ZenonT(30), <3>1, <4>1, <2>1, <2>2, <2>4, <2>7
    <3>2. CASE n \notin A
      BY ZenonT(30), <3>2, <2>1, <2>4, <2>6
    <3> QED
      BY <3>1, <3>2
  <2> QED
    BY ZenonT(30), <2>8 DEF HeardEndpoints, A
<1>9. HeardCodecs(body, t, n)
  <2> DEFINE A == AudioRtpmaps(body)
             R(pt) == RtpmapsOf(body, pt)
  <2>1. t.rtpMap = IF n \in A THEN Put(s.rtpMap, line.pt, line.codec) ELSE s.rtpMap
    BY ZenonT(30), <1>4, <1>5
  <2>2. A \in Numbers /\ \A pt : R(pt) \in Numbers
    BY ZenonT(30), LinesOfBody
  <2>3. /\ DOMAIN s.rtpMap = {body[j].pt : j \in UpTo(A, i)}
        /\ \A pt \in DOMAIN s.rtpMap : s.rtpMap[pt] = body[Max(UpTo(R(pt), i))].codec
    BY DEF Heard, HeardCodecs
  <2>4. \A pt : n \in R(pt) <=> (n \in A /\ pt = line.pt)
    BY ZenonT(30), <1>1 DEF RtpmapsOf
  <2> HIDE DEF A, R
  <2>5. /\ n \notin A => UpTo(A, n) = UpTo(A, i)
        /\ n \in A => UpTo(A, n) = UpTo(A, i) \cup {n}
    BY ZenonT(30), <1>2, <2>2, UpToNext
  <2>6. \A pt : /\ n \notin R(pt) => UpTo(R(pt), n) = UpTo(R(pt), i)
                /\ n \in R(pt) => Max(UpTo(R(pt), n)) = n
    BY ZenonT(30), <1>2, <2>2, UpToNext
  <2>7. /\ DOMAIN t.rtpMap = {body[j].pt : j \in UpTo(A, n)}
        /\ \A pt \in DOMAIN t.rtpMap : t.rtpMap[pt] = body[Max(UpTo(R(pt), n))].codec
    <3>1. CASE n \in A
      <4>1. /\ DOMAIN t.rtpMap = DOMAIN s.rtpMap \cup {line.pt}
            /\ \A pt \in DOMAIN t.rtpMap :
                  t.rtpMap[pt] = IF pt = line.pt THEN line.codec ELSE s.rtpMap[pt]
        BY ZenonT(30), <3>1, <2>1 DEF Put
      <4>2. {body[j].pt : j \in UpTo(A, n)} = {body[j].pt : j \in UpTo(A, i)} \cup {line.pt}
        BY ZenonT(30), <3>1, <1>1, <2>5
      <4>3. ASSUME NEW pt \in DOMAIN t.rtpMap
            PROVE  t.rtpMap[pt] = body[Max(UpTo(R(pt), n))].codec
        <5>1. CASE pt = line.pt
          BY ZenonT(30), <5>1, <3>1, <4>1, <1>1, <2>4, <2>6
        <5>2. CASE pt # line.pt
          BY ZenonT(30), <5>2, <4>1, <2>3, <2>4, <2>6
        <5> QED
          BY <5>1, <5>2
      <4> QED
        BY ZenonT(30), <4>1, <4>2, <4>3, <2>3
    <3>2. CASE n \notin A
      BY ZenonT(30), <3>2, <2>1, <2>3, <2>4, <2>5, <2>6
    <3> QED
      BY <3>1, <3>2
  <2> QED
    BY ZenonT(30), <2>7 DEF HeardCodecs, A, R
<1> QED
  BY <1>1, <1>4, <1>6, <1>7, <1>8, <1>9 DEF Heard

(* parseSIP's body scan hears the whole body.                              *)
LEMMA BodyHeard ==
    ASSUME NEW body \in Seq(SdpLines)
    PROVE  Heard(body, scanBody(body), Len(body))
<1> DEFINE G == {n \in Nat : n <= Len(body) => Heard(body, scanned(body)[n], n)}
<1>1. 0 \in G
  <2>1. \A S \in Numbers : UpTo(S, 0) = {}
    <3>1. 0 \in Nat /\ 1 = 0 + 1
      OBVIOUS
    <3> QED
      BY Zenon, <3>1, UpToBefore
  <2>2. /\ UpTo(UsableAddrs(body), 0) = {} /\ UpTo(MediaLines(body), 0) = {}
        /\ UpTo(AudioStreams(body), 0) = {} /\ UpTo(AudioRtpmaps(body), 0) = {}
    BY Zenon, <2>1, LinesOfBody
  <2>3. scanned(body)[0] = scanStart
    BY LineByLine
  <2>4. /\ scanStart.sdpIP = NoAddr /\ scanStart.inAudio = FALSE
        /\ scanStart.endpoints = << >> /\ scanStart.rtpMap = << >>
        /\ scanStart \in Scanner
    <3>1. << >> \in ScannedMaps
      <4>1. << >> \in [{} -> {line.codec : line \in SdpLines}]
        OBVIOUS
      <4>2. {} \in SUBSET {line.pt : line \in SdpLines}
        OBVIOUS
      <4> QED
        BY Zenon, <4>1, <4>2 DEF ScannedMaps
    <3> QED
      BY <3>1 DEF scanStart, Scanner
  <2>5. ToSet(<< >>) = {} /\ DOMAIN << >> = {}
    BY DEF ToSet
  <2>6. Heard(body, scanStart, 0)
    BY Zenon, <2>2, <2>4, <2>5
       DEF Heard, HeardAddress, HeardMedia, HeardEndpoints, HeardCodecs
  <2> QED
    BY <2>3, <2>6
<1>2. ASSUME NEW n \in Nat, n \in G
      PROVE  n + 1 \in G
  <2> SUFFICES ASSUME n + 1 <= Len(body)
               PROVE  Heard(body, scanned(body)[n + 1], n + 1)
    OBVIOUS
  <2>1. n < Len(body) /\ n <= Len(body) /\ n \in 0 .. Len(body) - 1 /\ Len(body) \in Nat
    BY LinesOfBody
  <2>2. Heard(body, scanned(body)[n], n)
    BY <1>2, <2>1
  <2>3. scanned(body)[n + 1] = scanLine(scanned(body)[n], body[n + 1])
    BY <2>1, LineByLine
  <2> QED
    BY <2>1, <2>2, <2>3, HeardStep
<1>3. Len(body) \in G
  <2>1. Len(body) \in Nat
    BY LinesOfBody
  <2> HIDE DEF G
  <2> QED
    BY <1>1, <1>2, <2>1, NumberInduction
<1> QED
  BY <1>3, LinesOfBody DEF scanBody

(* The whole body heard is what the reference says of it.                  *)
LEMMA AnnouncedIsHeard ==
    ASSUME NEW body \in Seq(SdpLines)
    PROVE  /\ ToSet(scanBody(body).endpoints) = AnnouncedEndpoints(body)
           /\ scanBody(body).rtpMap = AnnouncedCodecs(body)
<1> DEFINE s == scanBody(body)
<1>1. \A S : S \subseteq DOMAIN body => UpTo(S, Len(body)) = S
  BY LinesOfBody DEF UpTo
<1>2. /\ UpTo(AudioStreams(body), Len(body)) = AudioStreams(body)
      /\ UpTo(AudioRtpmaps(body), Len(body)) = AudioRtpmaps(body)
      /\ \A pt : UpTo(RtpmapsOf(body, pt), Len(body)) = RtpmapsOf(body, pt)
  BY Zenon, <1>1, LinesOfBody
<1>3. ToSet(s.endpoints) = {EndpointAt(body, j) : j \in AudioStreams(body)}
  BY Zenon, <1>2, BodyHeard DEF Heard, HeardEndpoints
<1>4. /\ DOMAIN s.rtpMap = {body[j].pt : j \in AudioRtpmaps(body)}
      /\ \A pt \in DOMAIN s.rtpMap : s.rtpMap[pt] = body[Max(RtpmapsOf(body, pt))].codec
  BY Zenon, <1>2, BodyHeard DEF Heard, HeardCodecs
<1>5. s \in Scanner
  BY BodyHeard DEF Heard
<1> HIDE DEF s
<1>6. s.rtpMap = [pt \in DOMAIN s.rtpMap |-> s.rtpMap[pt]]
  <2>1. s.rtpMap \in ScannedMaps
    BY <1>5 DEF Scanner
  <2> QED
    BY <2>1 DEF ScannedMaps
<1>7. s.rtpMap = AnnouncedCodecs(body)
  BY Zenon, <1>4, <1>6 DEF AnnouncedCodecs, CodecOf, RtpmapsOf
<1>8. ToSet(s.endpoints) = AnnouncedEndpoints(body)
  BY Zenon, <1>3 DEF AnnouncedEndpoints, EndpointAt
<1> QED
  BY <1>7, <1>8 DEF s

(* parseSIP on the datagrams of a capture: whatever lines the SDP has and  *)
(* in whatever order, the endpoints and codecs a message reports to the    *)
(* call table are those of its audio lines, and a message cut before its   *)
(* empty line reports none.                                                *)
THEOREM MediaFound ==
    FeedSpec => []MediaAsAnnounced
<1>1. FeedInv => MediaAsAnnounced
  <2> SUFFICES ASSUME FeedInv, NEW i \in 1 .. cur - 1, NEW k \in WantedRecords(i),
                      handed[i][Rank(i, k)].to = "sip"
               PROVE  LET msg   == frames[i][k].msg
                          given == handed[i][Rank(i, k)]
                          body  == IF msg.split THEN msg.body ELSE << >>
                      IN  /\ ToSet(given.info.SDPEndpoints) = AnnouncedEndpoints(body)
                          /\ given.info.RTPMap = AnnouncedCodecs(body)
    BY Zenon DEF MediaAsAnnounced
  <2>1. handed[i][Rank(i, k)] = Told(frames[i][k])
    BY WantedAreDelivered DEF IsTold
  <2>2. PICK f : f = frames[i][k]
    OBVIOUS
  <2>3. f.msg.body \in Seq(SdpLines)
    BY <2>2, WantedAreDelivered DEF WantedRecords, FeedInv, FramesKnown
  <2> DEFINE body == IF f.msg.split THEN f.msg.body ELSE << >>
  <2>4. body \in Seq(SdpLines)
    BY <2>3
  <2>5. Told(f).to = "sip" => Told(f).info = parseSIP(f.msg)
    BY DEF Told
  <2>6. /\ parseSIP(f.msg).SDPEndpoints = scanBody(body).endpoints
        /\ parseSIP(f.msg).RTPMap = scanBody(body).rtpMap
    BY DEF parseSIP
  <2> HIDE DEF body
  <2>7. /\ ToSet(parseSIP(f.msg).SDPEndpoints) = AnnouncedEndpoints(body)
        /\ parseSIP(f.msg).RTPMap = AnnouncedCodecs(body)
    BY Zenon, <2>4, <2>6, AnnouncedIsHeard
  <2> QED
    BY Zenon, <2>1, <2>2, <2>5, <2>7 DEF body
<1> QED
  BY <1>1, FeedInvariant, PTL

=============================================================================
