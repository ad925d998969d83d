------------------------ MODULE SessionWritesLemmas ------------------------
(***************************************************************************)
(* Facts about the operators of SessionWrites that the proofs about the    *)
(* coordinator rest on.  They make three things independent of how         *)
(* sequences are built: a legal log is open or closed by its length, the   *)
(* positions a controller queues are consecutive, and an operation is on   *)
(* the chain once, or not, and before another one or not.                  *)
(***************************************************************************)
EXTENDS SessionWrites, SequenceTheorems, TLAPS

-----------------------------------------------------------------------------
(* Logs *)

Logs == Seq({"start", "end", "closer"})

\* A legal log is open exactly when its length is odd.
LEMMA OpenIsOdd == ASSUME NEW s \in Logs, Legal(s) PROVE Open(s) <=> Len(s) % 2 = 1
<1>1. Len(s) \in Nat /\ DOMAIN s = 1..Len(s) /\ (s # <<>> => Len(s) # 0)
  BY LenProperties, EmptySeq DEF Logs
<1>2. CASE s = <<>>
  BY <1>2 DEF Open
<1>3. CASE s # <<>>
  BY <1>1, <1>3 DEF Open, Legal, Last
<1>. QED BY <1>2, <1>3

\* A legal log stays legal when its next boundary is the one its length calls for.
LEMMA LegalAppends ==
    ASSUME NEW s \in Logs, Legal(s), NEW e \in {"start", "end", "closer"},
           (e = "start") <=> ~Open(s)
    PROVE  /\ Append(s, e) \in Logs /\ Legal(Append(s, e)) /\ Len(Append(s, e)) = Len(s) + 1
           /\ (e = "start") <=> Open(Append(s, e))
<1>1. /\ Append(s, e) \in Logs /\ Len(Append(s, e)) = Len(s) + 1 /\ Len(s) \in Nat
      /\ \A i \in 1..Len(s) : Append(s, e)[i] = s[i]
      /\ Append(s, e)[Len(s) + 1] = e /\ DOMAIN s = 1..Len(s)
      /\ DOMAIN Append(s, e) = 1..(Len(s) + 1)
  BY AppendProperties, LenProperties DEF Logs
<1>2. (e = "start") <=> ~(Len(s) % 2 = 1)
  BY OpenIsOdd
<1>3. ((Len(s) + 1) % 2 = 1) <=> ~(Len(s) % 2 = 1)
  BY <1>1
<1>4. ASSUME NEW i \in 1..(Len(s) + 1) PROVE (Append(s, e)[i] = "start") = (i % 2 = 1)
  <2>1. CASE i \in 1..Len(s)
    BY <1>1, <2>1 DEF Legal
  <2>2. CASE i = Len(s) + 1
    BY <1>1, <1>2, <1>3, <2>2
  <2>. QED BY <1>1, <2>1, <2>2
<1>5. Legal(Append(s, e))
  BY <1>1, <1>4 DEF Legal
<1>. QED BY <1>1, <1>2, <1>3, <1>5, OpenIsOdd

\* A prefix of a legal log is legal.
LEMMA LegalPrefix ==
    ASSUME NEW s \in Logs, Legal(s), NEW n \in Nat, n <= Len(s)
    PROVE  SubSeq(s, 1, n) \in Logs /\ Legal(SubSeq(s, 1, n)) /\ Len(SubSeq(s, 1, n)) = n
<1>1. Len(s) \in Nat /\ DOMAIN s = 1..Len(s)
  BY LenProperties DEF Logs
<1>2. /\ SubSeq(s, 1, n) \in Logs /\ Len(SubSeq(s, 1, n)) = n
      /\ \A i \in 1..n : SubSeq(s, 1, n)[i] = s[i]
  BY <1>1, SubSeqProperties, ElementOfSeq DEF Logs
<1>3. DOMAIN SubSeq(s, 1, n) = 1..n
  BY <1>2, LenProperties DEF Logs
<1>. QED BY <1>1, <1>2, <1>3 DEF Legal

\* A log is a prefix of another if it is shorter and agrees with it.
LEMMA PrefixIs ==
    ASSUME NEW s \in Logs, NEW t \in Logs
    PROVE  IsPrefix(s, t) <=> Len(s) <= Len(t) /\ \A i \in 1..Len(s) : s[i] = t[i]
<1>1. Len(s) \in Nat /\ Len(t) \in Nat
  BY LenProperties DEF Logs
<1>2. SubSeq(s, 1, Len(s)) = s
  BY SubSeqFull DEF Logs
<1>3. ASSUME Len(s) <= Len(t)
      PROVE  /\ SubSeq(t, 1, Len(s)) \in Logs /\ Len(SubSeq(t, 1, Len(s))) = Len(s)
             /\ \A i \in 1..Len(s) : SubSeq(t, 1, Len(s))[i] = t[i]
  BY <1>1, <1>3, SubSeqProperties, ElementOfSeq DEF Logs
<1>4. Len(s) <= Len(t) => (s = SubSeq(t, 1, Len(s)) <=> \A i \in 1..Len(s) : s[i] = t[i])
  BY <1>1, <1>3, SeqEqual DEF Logs
<1>. QED BY <1>2, <1>4 DEF IsPrefix

\* A prefix stays one when the log grows, and is legal if the log is.
LEMMA PrefixGrows ==
    ASSUME NEW s \in Logs, NEW t \in Logs, NEW e \in {"start", "end", "closer"}, IsPrefix(s, t)
    PROVE  IsPrefix(s, Append(t, e))
<1>1. /\ Append(t, e) \in Logs /\ Len(Append(t, e)) = Len(t) + 1 /\ Len(t) \in Nat /\ Len(s) \in Nat
      /\ \A i \in 1..Len(t) : Append(t, e)[i] = t[i]
  BY AppendProperties, LenProperties DEF Logs
<1>2. Len(s) <= Len(t) /\ \A i \in 1..Len(s) : s[i] = t[i]
  BY PrefixIs
<1>3. Len(s) <= Len(Append(t, e)) /\ \A i \in 1..Len(s) : s[i] = Append(t, e)[i]
  BY <1>1, <1>2
<1>. QED BY <1>1, <1>3, PrefixIs

\* A prefix of a legal log is a legal log.
LEMMA PrefixIsLegal ==
    ASSUME NEW s \in Logs, NEW t \in Logs, IsPrefix(s, t), Legal(t)
    PROVE  Legal(s) /\ Len(s) <= Len(t)
<1>1. Len(s) \in Nat /\ Len(t) \in Nat /\ DOMAIN s = 1..Len(s) /\ DOMAIN t = 1..Len(t)
  BY LenProperties DEF Logs
<1>. QED BY <1>1, PrefixIs DEF Legal

\* The empty log and the log itself are prefixes of a log.
LEMMA PrefixItself == ASSUME NEW s \in Logs PROVE IsPrefix(s, s) /\ IsPrefix(<<>>, s)
<1>1. <<>> \in Logs /\ Len(<<>>) = 0 /\ Len(s) \in Nat
  BY EmptySeq, LenProperties DEF Logs
<1>. QED BY <1>1, PrefixIs

\* A log is a prefix of it and the rest.
LEMMA PrefixAndRest ==
    ASSUME NEW s \in Logs, NEW t \in Logs, IsPrefix(s, t)
    PROVE  s \o SubSeq(t, Len(s) + 1, Len(t)) = t
<1>. DEFINE n == Len(s)  m == Len(t)  f == SubSeq(t, n + 1, m)
<1>1. n \in Nat /\ m \in Nat /\ n <= m /\ \A i \in 1..n : s[i] = t[i]
  BY LenProperties, PrefixIs DEF Logs
<1>2. \A i \in 1..m : t[i] \in {"start", "end", "closer"}
  BY ElementOfSeq DEF Logs
<1>3. f \in Logs /\ Len(f) = m - n /\ \A i \in 1..(m - n) : f[i] = t[n + i]
  <2>1. \A i \in (n + 1)..m : t[i] \in {"start", "end", "closer"}
    BY <1>1, <1>2
  <2>2. n + 1 \in Nat /\ (IF n + 1 <= m THEN m - (n + 1) + 1 ELSE 0) = m - n
    BY <1>1
  <2>3. \A i \in 1..(m - n) : (n + 1) + i - 1 = n + i
    BY <1>1
  <2>. HIDE DEF n, m
  <2>. QED BY <1>1, <2>1, <2>2, <2>3, SubSeqProperties DEF Logs
<1>. HIDE DEF f
<1>4. /\ s \o f \in Logs /\ Len(s \o f) = n + (m - n)
      /\ \A i \in 1..(n + (m - n)) : (s \o f)[i] = IF i <= n THEN s[i] ELSE f[i - n]
  BY <1>3, ConcatProperties DEF Logs
<1>. HIDE DEF n, m
<1>5. \A i \in 1..m : (s \o f)[i] = t[i]
  <2>1. SUFFICES ASSUME NEW i \in 1..m PROVE (s \o f)[i] = t[i]
    OBVIOUS
  <2>2. CASE i <= n
    BY <1>1, <1>4, <2>2
  <2>3. CASE ~(i <= n)
    <3>1. i - n \in 1..(m - n) /\ n + (i - n) = i /\ i \in 1..(n + (m - n))
      BY <1>1, <2>3
    <3>. QED BY <1>3, <1>4, <2>3, <3>1
  <2>. QED BY <2>2, <2>3
<1>6. Len(s \o f) = Len(t)
  BY <1>1, <1>4 DEF m
<1>. QED BY <1>4, <1>5, <1>6, SeqEqual DEF f, n, m, Logs

\* A log is its front and its last event.
LEMMA FrontAndLast ==
    ASSUME NEW s \in Logs, NEW e \in {"start", "end", "closer"}
    PROVE  /\ Append(s, e) # <<>> /\ SubSeq(Append(s, e), 1, Len(Append(s, e)) - 1) = s
           /\ s # <<>> => Append(SubSeq(s, 1, Len(s) - 1), Last(s)) = s
<1>1. /\ Append(s, e) \in Logs /\ Append(s, e) # <<>> /\ Len(Append(s, e)) = Len(s) + 1 /\ Len(s) \in Nat
      /\ \A i \in 1..Len(s) : Append(s, e)[i] = s[i]
  BY AppendProperties, LenProperties DEF Logs
<1>2. SubSeq(Append(s, e), 1, Len(Append(s, e)) - 1) = s
  <2>1. Len(Append(s, e)) - 1 = Len(s)
    BY <1>1
  <2>2. /\ SubSeq(Append(s, e), 1, Len(s)) \in Logs /\ Len(SubSeq(Append(s, e), 1, Len(s))) = Len(s)
        /\ \A i \in 1..Len(s) : SubSeq(Append(s, e), 1, Len(s))[i] = Append(s, e)[i]
    BY <1>1, SubSeqProperties, ElementOfSeq DEF Logs
  <2>. QED BY <1>1, <2>1, <2>2, SeqEqual DEF Logs
<1>3. ASSUME s # <<>> PROVE Append(SubSeq(s, 1, Len(s) - 1), Last(s)) = s
  <2>1. Len(s) \in Nat /\ Len(s) # 0 /\ Len(s) \in 1..Len(s) /\ Last(s) = s[Len(s)]
    BY <1>1, <1>3, EmptySeq DEF Last, Logs
  <2>. DEFINE n == Len(s) - 1  f == SubSeq(s, 1, n)
  <2>2. n \in Nat /\ n + 1 = Len(s) /\ \A i \in 1..n : i \in 1..Len(s)
    BY <2>1
  <2>3. s[Len(s)] \in {"start", "end", "closer"} /\ \A i \in 1..n : s[i] \in {"start", "end", "closer"}
    BY <2>1, <2>2, ElementOfSeq DEF Logs
  <2>4. f \in Logs /\ Len(f) = n /\ \A i \in 1..n : f[i] = s[i]
    BY <2>2, <2>3, SubSeqProperties DEF Logs
  <2>. HIDE DEF n, f
  <2>5. /\ Append(f, s[Len(s)]) \in Logs /\ Len(Append(f, s[Len(s)])) = n + 1
        /\ \A i \in 1..n : Append(f, s[Len(s)])[i] = s[i]
        /\ Append(f, s[Len(s)])[n + 1] = s[Len(s)]
    BY <2>3, <2>4, AppendProperties DEF Logs
  <2>6. \A i \in 1..(n + 1) : i \in 1..n \/ i = n + 1
    BY <2>2
  <2>7. \A i \in 1..(n + 1) : Append(f, s[Len(s)])[i] = s[i]
    BY <2>2, <2>5, <2>6
  <2>8. Append(f, s[Len(s)]) = s
    BY <2>2, <2>5, <2>7, SeqEqual DEF Logs
  <2>. QED BY <2>1, <2>8 DEF f, n
<1>. QED BY <1>1, <1>2, <1>3

\* A repair closes the open turn and leaves a closed log alone.
LEMMA RepairCloses ==
    ASSUME NEW s \in Logs, Legal(s)
    PROVE  /\ Repaired(s) \in Logs /\ Legal(Repaired(s)) /\ ~Open(Repaired(s))
           /\ Len(Repaired(s)) = IF Open(s) THEN Len(s) + 1 ELSE Len(s)
           /\ ~Open(s) => Repaired(s) = s
BY LegalAppends DEF Repaired

\* What a stored log can be: legal, and longer than any session's only by a repair.
Storable(s) ==
    /\ s \in Logs /\ Legal(s)
    /\ Len(s) <= MaxLog \/ (Len(s) = MaxLog + 1 /\ ~Open(s))

\* A repair keeps a stored log storable.
LEMMA RepairIsStorable == ASSUME NEW s, Storable(s) PROVE Storable(Repaired(s))
<1>1. Len(s) \in Nat
  BY LenProperties DEF Storable, Logs
<1>. QED BY <1>1, RepairCloses, BoundsAssumption DEF Storable

\* What a crash leaves of a stored log is storable.
LEMMA PrefixIsStorable ==
    ASSUME NEW s, Storable(s), NEW n \in Nat, n <= Len(s) PROVE Storable(SubSeq(s, 1, n))
<1>1. Len(s) \in Nat /\ (n = Len(s) => SubSeq(s, 1, n) = s)
  BY LenProperties, SubSeqFull DEF Storable, Logs
<1>2. SubSeq(s, 1, n) \in Logs /\ Legal(SubSeq(s, 1, n)) /\ Len(SubSeq(s, 1, n)) = n
  BY LegalPrefix DEF Storable
<1>3. CASE n = Len(s)
  BY <1>1, <1>3
<1>4. CASE n < Len(s)
  <2>1. n <= MaxLog
    BY <1>1, <1>4, BoundsAssumption DEF Storable
  <2>. QED BY <1>2, <2>1 DEF Storable
<1>. QED BY <1>1, <1>3, <1>4

-----------------------------------------------------------------------------
(* Queued positions *)

Positions == Seq(1..MaxLog)

\* The positions up to `last`, without a gap.
Consecutive(s, last) == \A i \in DOMAIN s : s[i] + Len(s) = last + i

\* Consecutive positions in front of consecutive positions are consecutive.
LEMMA ConsecutiveJoins ==
    ASSUME NEW b \in Positions, NEW p \in Positions, NEW last \in Int,
           Consecutive(p, last), Consecutive(b, last - Len(p))
    PROVE  b \o p \in Positions /\ Len(b \o p) = Len(b) + Len(p) /\ Consecutive(b \o p, last)
<1>1. /\ Len(b) \in Nat /\ Len(p) \in Nat /\ DOMAIN b = 1..Len(b) /\ DOMAIN p = 1..Len(p)
      /\ \A i \in 1..Len(b) : b[i] \in Nat
      /\ \A i \in 1..Len(p) : p[i] \in Nat
  BY LenProperties, ElementOfSeq, BoundsAssumption DEF Positions
<1>2. /\ b \o p \in Positions
      /\ Len(b \o p) = Len(b) + Len(p) /\ DOMAIN (b \o p) = 1..(Len(b) + Len(p))
      /\ \A i \in 1..(Len(b) + Len(p)) : (b \o p)[i] = IF i <= Len(b) THEN b[i] ELSE p[i - Len(b)]
  BY ConcatProperties, LenProperties DEF Positions
<1>. DEFINE m == Len(b)  n == Len(p)
<1>3. ASSUME NEW i \in 1..(m + n) PROVE (b \o p)[i] + (m + n) = last + i
  <2>1. CASE i <= m
    <3>1. i \in 1..m
      BY <1>1, <2>1
    <3>2. (b \o p)[i] = b[i] /\ b[i] \in Nat
      BY <1>1, <1>2, <2>1, <3>1
    <3>3. b[i] + m = (last - n) + i
      BY <1>1, <3>1 DEF Consecutive
    <3>. DEFINE x == b[i]
    <3>4. m \in Nat /\ n \in Nat /\ x \in Nat /\ x + m = (last - n) + i /\ (b \o p)[i] = x
      BY <1>1, <3>2, <3>3
    <3>. HIDE DEF m, n, x
    <3>5. x + (m + n) = last + i
      BY <3>4
    <3>. QED BY <3>4, <3>5
  <2>2. CASE ~(i <= m)
    <3>1. i - m \in 1..n
      BY <1>1, <2>2
    <3>2. (b \o p)[i] = p[i - m] /\ p[i - m] + n = last + (i - m) /\ p[i - m] \in Nat
      BY <1>1, <1>2, <2>2, <3>1 DEF Consecutive
    <3>. DEFINE x == p[i - m]
    <3>3. m \in Nat /\ n \in Nat /\ x \in Nat /\ x + n = last + (i - m) /\ (b \o p)[i] = x
      BY <1>1, <3>2
    <3>. HIDE DEF m, n, x
    <3>4. x + (m + n) = last + i
      BY <3>3
    <3>. QED BY <3>3, <3>4
  <2>. QED BY <2>1, <2>2
<1>. QED BY <1>2, <1>3 DEF Consecutive

\* The next position keeps a sequence consecutive.
LEMMA ConsecutiveGrows ==
    ASSUME NEW s \in Positions, NEW last \in Nat, Consecutive(s, last), last + 1 <= MaxLog
    PROVE  Append(s, last + 1) \in Positions /\ Consecutive(Append(s, last + 1), last + 1)
<1>1. last + 1 \in 1..MaxLog
  BY BoundsAssumption
<1>2. /\ Append(s, last + 1) \in Positions /\ Len(Append(s, last + 1)) = Len(s) + 1 /\ Len(s) \in Nat
      /\ \A i \in 1..Len(s) : Append(s, last + 1)[i] = s[i] /\ s[i] \in Nat
      /\ Append(s, last + 1)[Len(s) + 1] = last + 1 /\ DOMAIN s = 1..Len(s)
      /\ DOMAIN Append(s, last + 1) = 1..(Len(s) + 1)
  BY <1>1, AppendProperties, LenProperties, ElementOfSeq, BoundsAssumption DEF Positions
<1>3. ASSUME NEW i \in 1..(Len(s) + 1)
      PROVE  Append(s, last + 1)[i] + (Len(s) + 1) = (last + 1) + i
  <2>1. CASE i \in 1..Len(s)
    <3>1. s[i] + Len(s) = last + i
      BY <1>2, <2>1 DEF Consecutive
    <3>. QED BY <1>2, <2>1, <3>1
  <2>2. CASE i = Len(s) + 1
    BY <1>2, <2>2
  <2>. QED BY <1>2, <2>1, <2>2
<1>. QED BY <1>2, <1>3 DEF Consecutive

\* What lies beyond a position of a consecutive sequence is its end.
LEMMA BeyondIs ==
    ASSUME NEW s \in Positions, NEW last \in Int, Consecutive(s, last), NEW n \in Nat
    PROVE  /\ Beyond(s, n) \in Positions /\ Consecutive(Beyond(s, n), last)
           /\ Len(Beyond(s, n)) = IF last <= n THEN 0 ELSE IF last - n <= Len(s) THEN last - n ELSE Len(s)
<1>1. /\ Len(s) \in Nat /\ DOMAIN s = 1..Len(s) /\ (s # <<>> => Len(s) # 0)
      /\ \A i \in 1..Len(s) : s[i] \in 1..MaxLog
  BY LenProperties, EmptySeq, ElementOfSeq DEF Positions
<1>2. \A i \in 1..Len(s) : s[i] = (last - Len(s)) + i
  BY <1>1, BoundsAssumption DEF Consecutive
<1>e. <<>> \in Positions /\ Len(<<>>) = 0 /\ Consecutive(<<>>, last)
  BY EmptySeq DEF Positions, Consecutive
<1>. DEFINE above == {i \in DOMAIN s : s[i] > n}
<1>3. CASE last <= n \/ s = <<>>
  <2>1. above = {}
    BY <1>1, <1>2, <1>3
  <2>2. Len(s) = 0 \/ last <= n
    BY <1>e, <1>3
  <2>. QED BY <1>e, <1>1, <2>1, <2>2 DEF Beyond
<1>4. CASE last > n /\ s # <<>>
  <2>. DEFINE k == IF last - n <= Len(s) THEN (Len(s) - (last - n)) + 1 ELSE 1
  <2>1. k \in 1..Len(s) /\ k \in above /\ \A i \in above : k <= i
    BY <1>1, <1>2, <1>4
  <2>2. k \in Nat /\ above \subseteq Nat
    BY <1>1, <2>1
  <2>. HIDE DEF k, above
  <2>3. Min(above) \in above /\ \A i \in above : Min(above) <= i
    BY <2>1 DEF Min
  <2>4. Min(above) = k
    <3>1. Min(above) \in Nat /\ Min(above) <= k /\ k <= Min(above)
      BY <2>1, <2>2, <2>3
    <3>. QED BY <2>2, <3>1
  <2>5. Beyond(s, n) = SubSeq(s, k, Len(s))
    BY <2>1, <2>4 DEF Beyond, above
  <2>6. /\ SubSeq(s, k, Len(s)) \in Positions /\ Len(SubSeq(s, k, Len(s))) = Len(s) - k + 1
        /\ \A i \in 1..(Len(s) - k + 1) : SubSeq(s, k, Len(s))[i] = s[k + i - 1]
    BY <1>1, <2>1, SubSeqProperties DEF Positions
  <2>7. DOMAIN SubSeq(s, k, Len(s)) = 1..(Len(s) - k + 1)
    BY <2>6, LenProperties DEF Positions
  <2>8. ASSUME NEW i \in 1..(Len(s) - k + 1)
        PROVE  SubSeq(s, k, Len(s))[i] + (Len(s) - k + 1) = last + i
    <3>1. k + i - 1 \in 1..Len(s)
      BY <1>1, <2>1
    <3>2. s[k + i - 1] = (last - Len(s)) + (k + i - 1)
      BY <1>2, <3>1
    <3>. QED BY <1>1, <2>1, <2>6, <3>2
  <2>9. Len(s) - k + 1 = IF last - n <= Len(s) THEN last - n ELSE Len(s)
    BY <1>1 DEF k
  <2>. DEFINE t == SubSeq(s, k, Len(s))  n1 == Len(s) - k + 1
  <2>10. /\ t \in Positions /\ Len(t) = n1 /\ DOMAIN t = 1..n1 /\ Beyond(s, n) = t
         /\ \A i \in 1..n1 : t[i] + n1 = last + i
    <3>1. Len(s) - k + 1 = IF k <= Len(s) THEN Len(s) - k + 1 ELSE 0
      BY <1>1, <2>1
    <3>. QED BY <2>5, <2>6, <2>7, <2>8
  <2>11. n1 = IF last - n <= Len(s) THEN last - n ELSE Len(s)
    BY <2>9
  <2>. HIDE DEF t, n1
  <2>12. Consecutive(t, last)
    BY <2>10 DEF Consecutive
  <2>. QED BY <1>4, <2>10, <2>11, <2>12
<1>. QED BY <1>3, <1>4

\* Consecutive positions ascend.
LEMMA ConsecutiveAscends ==
    ASSUME NEW s \in Positions, NEW last \in Int, Consecutive(s, last)
    PROVE  \A i \in 2..Len(s) : s[i] > s[i - 1]
<1>1. /\ Len(s) \in Nat /\ DOMAIN s = 1..Len(s) /\ \A i \in 1..Len(s) : s[i] \in 1..MaxLog
  BY LenProperties, ElementOfSeq DEF Positions
<1>2. \A i \in 1..Len(s) : s[i] = (last - Len(s)) + i
  BY <1>1, BoundsAssumption DEF Consecutive
<1>. QED BY <1>1, <1>2

-----------------------------------------------------------------------------
(* The chain *)

\* Some of these operations are queued; at most one is; and whoever commits goes
\* before what its session and its successor will queue.
Queues(c, ops) == \E i \in DOMAIN c : c[i] \in ops
Once(c, ops) == \A i, j \in DOMAIN c : c[i] \in ops /\ c[j] \in ops => i = j
AfterCommit == {"init", "suffix", "write", "prepare"}
Ordered(c) == \A i, j \in DOMAIN c : i < j /\ c[j] = "commit" => c[i] \notin AfterCommit

\* An operation queued last is on the chain, and nothing else changes there.
LEMMA ChainAppends ==
    ASSUME NEW c \in Seq(Ops), NEW op \in Ops
    PROVE  /\ Append(c, op) \in Seq(Ops)
           /\ \A ops : Queues(Append(c, op), ops) <=> Queues(c, ops) \/ op \in ops
           /\ \A ops : Once(c, ops) /\ (op \in ops => ~Queues(c, ops)) => Once(Append(c, op), ops)
           /\ Ordered(c) /\ (op = "commit" => ~Queues(c, AfterCommit)) => Ordered(Append(c, op))
<1>1. /\ Append(c, op) \in Seq(Ops) /\ Len(c) \in Nat /\ DOMAIN c = 1..Len(c)
      /\ DOMAIN Append(c, op) = 1..(Len(c) + 1)
      /\ \A i \in 1..Len(c) : Append(c, op)[i] = c[i]
      /\ Append(c, op)[Len(c) + 1] = op
  BY AppendProperties, LenProperties
<1>2. \A i \in 1..(Len(c) + 1) : i \in 1..Len(c) \/ i = Len(c) + 1
  BY <1>1
<1>3. \A i \in 1..Len(c) : i < Len(c) + 1 /\ ~(Len(c) + 1 < i) /\ i \in 1..(Len(c) + 1)
  BY <1>1
<1>4. Len(c) + 1 \in 1..(Len(c) + 1) /\ ~(Len(c) + 1 < Len(c) + 1)
  BY <1>1
<1>. DEFINE n == Len(c) + 1
<1>5. /\ DOMAIN Append(c, op) = 1..n /\ Append(c, op)[n] = op /\ n \in 1..n
      /\ \A i \in 1..n : i \in DOMAIN c \/ i = n
      /\ \A i \in DOMAIN c : i \in 1..n /\ i < n /\ ~(n < i) /\ Append(c, op)[i] = c[i]
      /\ ~(n < n)
  BY <1>1, <1>2, <1>3, <1>4
<1>. HIDE DEF n
<1>6. ASSUME NEW ops PROVE Queues(Append(c, op), ops) <=> Queues(c, ops) \/ op \in ops
  BY <1>5 DEF Queues
<1>7. ASSUME NEW ops, Once(c, ops), op \in ops => ~Queues(c, ops) PROVE Once(Append(c, op), ops)
  BY <1>5, <1>7 DEF Queues, Once
<1>8. ASSUME Ordered(c), op = "commit" => ~Queues(c, AfterCommit) PROVE Ordered(Append(c, op))
  BY <1>5, <1>8 DEF Queues, Ordered
<1>. QED BY <1>1, <1>6, <1>7, <1>8

\* An operation that ends, or is taken off the chain, leaves the others as they were.
Thins(c, d) ==
    \E f \in [DOMAIN d -> DOMAIN c] :
        /\ \A i \in DOMAIN d : d[i] = c[f[i]]
        /\ \A i, j \in DOMAIN d : i < j => f[i] < f[j]
        /\ \A i, j \in DOMAIN d : f[i] = f[j] => i = j

\* What holds of a chain holds of what is left of it.
LEMMA ChainThins ==
    ASSUME NEW c \in Seq(Ops), NEW d \in Seq(Ops), Thins(c, d)
    PROVE  /\ \A ops : Queues(d, ops) => Queues(c, ops)
           /\ \A ops : Once(c, ops) => Once(d, ops)
           /\ Ordered(c) => Ordered(d)
<1>1. PICK f \in [DOMAIN d -> DOMAIN c] :
          /\ \A i \in DOMAIN d : d[i] = c[f[i]]
          /\ \A i, j \in DOMAIN d : i < j => f[i] < f[j]
          /\ \A i, j \in DOMAIN d : f[i] = f[j] => i = j
  BY DEF Thins
<1>2. \A i \in DOMAIN d : f[i] \in DOMAIN c
  OBVIOUS
<1>3. ASSUME NEW ops PROVE Queues(d, ops) => Queues(c, ops)
  BY <1>1, <1>2 DEF Queues
<1>4. ASSUME NEW ops PROVE Once(c, ops) => Once(d, ops)
  BY <1>1, <1>2 DEF Once
<1>5. Ordered(c) => Ordered(d)
  BY <1>1, <1>2 DEF Ordered
<1>. QED BY <1>3, <1>4, <1>5

\* The head leaves the chain.
LEMMA ChainTail ==
    ASSUME NEW c \in Seq(Ops), c # <<>>
    PROVE  /\ Tail(c) \in Seq(Ops) /\ Thins(c, Tail(c))
           /\ \A ops : Queues(c, ops) => Queues(Tail(c), ops) \/ Head(c) \in ops
           /\ \A ops : Once(c, ops) /\ Head(c) \in ops => ~Queues(Tail(c), ops)
           /\ Queues(c, {Head(c)})
           /\ Ordered(c) /\ Head(c) \in AfterCommit => ~Queues(c, {"commit"})
<1>1. /\ Tail(c) \in Seq(Ops) /\ Len(Tail(c)) = Len(c) - 1 /\ Len(c) \in Nat /\ Len(c) # 0
      /\ DOMAIN c = 1..Len(c) /\ DOMAIN Tail(c) = 1..(Len(c) - 1)
      /\ \A i \in 1..(Len(c) - 1) : Tail(c)[i] = c[i + 1]
  BY HeadTailProperties, LenProperties, EmptySeq
<1>2. Head(c) = c[1]
  OBVIOUS
<1>3. /\ 1 \in DOMAIN c
      /\ \A i \in DOMAIN Tail(c) : i + 1 \in DOMAIN c /\ i + 1 # 1 /\ Tail(c)[i] = c[i + 1]
      /\ \A i, j \in DOMAIN Tail(c) : (i < j => i + 1 < j + 1) /\ (i + 1 = j + 1 => i = j)
      /\ \A i \in DOMAIN c : i = 1 \/ (1 < i /\ \E j \in DOMAIN Tail(c) : i = j + 1)
  <2>1. ASSUME NEW i \in 1..Len(c), i # 1 PROVE i - 1 \in 1..(Len(c) - 1) /\ i = (i - 1) + 1 /\ 1 < i
    BY <1>1, <2>1
  <2>. DEFINE n == Len(c)  t == Tail(c)
  <2>2. /\ n \in Nat /\ n # 0 /\ DOMAIN c = 1..n /\ DOMAIN t = 1..(n - 1)
        /\ \A i \in 1..(n - 1) : t[i] = c[i + 1]
        /\ \A i \in 1..n : i # 1 => i - 1 \in 1..(n - 1) /\ i = (i - 1) + 1 /\ 1 < i
    BY <1>1, <2>1
  <2>. HIDE DEF n, t
  <2>3. 1 \in DOMAIN c /\ \A i \in DOMAIN t : i + 1 \in DOMAIN c /\ i + 1 # 1
    BY <2>2
  <2>4. \A i, j \in DOMAIN t : (i < j => i + 1 < j + 1) /\ (i + 1 = j + 1 => i = j)
    BY <2>2
  <2>5. \A i \in DOMAIN c : i = 1 \/ (1 < i /\ \E j \in DOMAIN t : i = j + 1)
    BY <2>2
  <2>. QED BY <2>2, <2>3, <2>4, <2>5 DEF t
<1>4. Thins(c, Tail(c))
  <2>. DEFINE f == [i \in DOMAIN Tail(c) |-> i + 1]
  <2>1. f \in [DOMAIN Tail(c) -> DOMAIN c] /\ \A i \in DOMAIN Tail(c) : f[i] = i + 1
    BY <1>3
  <2>. HIDE DEF f
  <2>. QED BY <1>3, <2>1 DEF Thins
<1>5. ASSUME NEW ops, Queues(c, ops) PROVE Queues(Tail(c), ops) \/ Head(c) \in ops
  BY <1>2, <1>3, <1>5 DEF Queues
<1>6. ASSUME NEW ops, Once(c, ops), Head(c) \in ops PROVE ~Queues(Tail(c), ops)
  BY <1>2, <1>3, <1>6 DEF Queues, Once
<1>7. Queues(c, {Head(c)})
  BY <1>2, <1>3 DEF Queues
<1>8. ASSUME Ordered(c), Head(c) \in AfterCommit PROVE ~Queues(c, {"commit"})
  <2>1. Head(c) # "commit"
    BY <1>8 DEF AfterCommit
  <2>. QED BY <1>2, <1>3, <1>8, <2>1 DEF Queues, Ordered
<1>. QED BY <1>1, <1>4, <1>5, <1>6, <1>7, <1>8

\* An aborted operation leaves the chain.
LEMMA ChainRemoves ==
    ASSUME NEW c \in Seq(Ops), NEW k \in DOMAIN c
    PROVE  RemoveAt(c, k) \in Seq(Ops) /\ Thins(c, RemoveAt(c, k))
<1>1. Len(c) \in Nat /\ DOMAIN c = 1..Len(c) /\ k \in 1..Len(c) /\ \A i \in 1..Len(c) : c[i] \in Ops
  BY LenProperties, ElementOfSeq
<1>. DEFINE before == SubSeq(c, 1, k - 1)  after == SubSeq(c, k + 1, Len(c))  d == RemoveAt(c, k)
<1>2. before \in Seq(Ops) /\ Len(before) = k - 1 /\ \A i \in 1..(k - 1) : before[i] = c[i]
  <2>1. \A i \in 1..(k - 1) : c[i] \in Ops
    BY <1>1
  <2>2. /\ SubSeq(c, 1, k - 1) \in Seq(Ops)
        /\ Len(SubSeq(c, 1, k - 1)) = IF 1 <= k - 1 THEN (k - 1) - 1 + 1 ELSE 0
        /\ \A i \in 1..((k - 1) - 1 + 1) : SubSeq(c, 1, k - 1)[i] = c[1 + i - 1]
    BY <1>1, <2>1, SubSeqProperties
  <2>. QED BY <1>1, <2>2
<1>3. after \in Seq(Ops) /\ Len(after) = Len(c) - k /\ \A i \in 1..(Len(c) - k) : after[i] = c[k + i]
  <2>1. \A i \in (k + 1)..Len(c) : c[i] \in Ops
    BY <1>1
  <2>2. /\ SubSeq(c, k + 1, Len(c)) \in Seq(Ops)
        /\ Len(SubSeq(c, k + 1, Len(c))) = IF k + 1 <= Len(c) THEN Len(c) - (k + 1) + 1 ELSE 0
        /\ \A i \in 1..(Len(c) - (k + 1) + 1) : SubSeq(c, k + 1, Len(c))[i] = c[(k + 1) + i - 1]
    BY <1>1, <2>1, SubSeqProperties
  <2>3. /\ (Len(c) - (k + 1)) + 1 = Len(c) - k
        /\ Len(c) - k = IF k + 1 <= Len(c) THEN Len(c) - (k + 1) + 1 ELSE 0
        /\ \A i \in 1..(Len(c) - k) : (k + 1) + i - 1 = k + i
    BY <1>1
  <2>. QED BY <2>2, <2>3
<1>4. d = before \o after
  BY DEF RemoveAt
<1>. HIDE DEF before, after, d
<1>5. /\ d \in Seq(Ops) /\ Len(d) = Len(c) - 1 /\ DOMAIN d = 1..(Len(c) - 1)
      /\ \A i \in 1..(Len(c) - 1) : d[i] = IF i <= k - 1 THEN before[i] ELSE after[i - (k - 1)]
  <2>1. /\ d \in Seq(Ops) /\ Len(d) = (k - 1) + (Len(c) - k)
        /\ \A i \in 1..((k - 1) + (Len(c) - k)) : d[i] = IF i <= k - 1 THEN before[i] ELSE after[i - (k - 1)]
    <3>1. /\ d \in Seq(Ops) /\ Len(d) = Len(before) + Len(after)
          /\ \A i \in 1..(Len(before) + Len(after)) :
                d[i] = IF i <= Len(before) THEN before[i] ELSE after[i - Len(before)]
      BY <1>2, <1>3, <1>4, ConcatProperties
    <3>. QED BY <1>2, <1>3, <3>1
  <2>2. (k - 1) + (Len(c) - k) = Len(c) - 1
    BY <1>1
  <2>. QED BY <2>1, <2>2, LenProperties
<1>. DEFINE f == [i \in 1..(Len(c) - 1) |-> IF i < k THEN i ELSE i + 1]
<1>6. ASSUME NEW i \in 1..(Len(c) - 1) PROVE f[i] \in 1..Len(c) /\ d[i] = c[f[i]]
  <2>1. CASE i < k
    BY <1>1, <1>2, <1>5, <2>1
  <2>2. CASE ~(i < k)
    <3>1. i - (k - 1) \in 1..(Len(c) - k) /\ k + (i - (k - 1)) = i + 1 /\ ~(i <= k - 1)
      BY <1>1, <2>2
    <3>2. after[i - (k - 1)] = c[i + 1]
      BY <1>3, <3>1
    <3>. QED BY <1>1, <1>5, <2>2, <3>1, <3>2
  <2>. QED BY <2>1, <2>2
<1>7. \A i, j \in 1..(Len(c) - 1) : (i < j => f[i] < f[j]) /\ (f[i] = f[j] => i = j)
  BY <1>1
<1>8. f \in [1..(Len(c) - 1) -> 1..Len(c)]
  BY <1>6
<1>9. \A i \in 1..(Len(c) - 1) : d[i] = c[f[i]]
  BY <1>6
<1>. DEFINE m == 1..(Len(c) - 1)
<1>10. /\ DOMAIN d = m /\ f \in [m -> DOMAIN c] /\ \A i \in m : d[i] = c[f[i]]
       /\ \A i, j \in m : (i < j => f[i] < f[j]) /\ (f[i] = f[j] => i = j)
  BY <1>1, <1>5, <1>7, <1>8, <1>9
<1>. HIDE DEF f, m
<1>11. Thins(c, d)
  BY <1>10 DEF Thins
<1>. QED BY <1>5, <1>11 DEF d
=============================================================================
