-------------------------- MODULE HpConfig_proofs --------------------------
(***************************************************************************)
(* What get() returns is what the file says, for every file.  A line is    *)
(* blank around what is inked of it, so that trimming first and searching  *)
(* afterwards finds the same bracket, '=' and comment as the line itself:  *)
(* the lemmas of the first four parts.  With them every round of the loop  *)
(* keeps ConfigInv.                                                        *)
(***************************************************************************)
EXTENDS HpConfig, TLAPS, WellFoundedInduction, SequenceTheorems

Line == Seq(STRING)

-----------------------------------------------------------------------------
(* First and last positions.                                               *)

\* A set of natural numbers has a least one.
LEMMA MinIs ==
  ASSUME NEW S \in SUBSET Nat, S # {}
  PROVE  Min(S) \in S /\ \A k \in S : Min(S) <= k
<1> DEFINE R == OpToRel(<, Nat)
<1>1. \A x, y \in Nat : <<x, y>> \in R <=> x < y
  BY DEF OpToRel
<1>2. IsWellFoundedOn(R, Nat)
  BY NatLessThanWellFounded
<1> HIDE DEF R
<1>3. PICK m \in S : \A k \in S : ~(<<k, m>> \in R)
  BY <1>2, WFMin, Zenon
<1>4. ASSUME NEW k \in S PROVE m <= k
  <2>1. ~(k < m)
    BY <1>1, <1>3, Zenon
  <2> QED
    BY <2>1, SMT
<1> QED
  BY <1>4, Zenon DEF Min

\* A set of positions has a greatest one.
LEMMA MaxIs ==
  ASSUME NEW n \in Nat, NEW S \in SUBSET (1..n), S # {}
  PROVE  Max(S) \in S /\ \A k \in S : k <= Max(S)
<1> DEFINE r == {n - k : k \in S}
<1>1. r \in SUBSET Nat /\ r # {}
  <2>1. \A k \in S : n - k \in Nat
    BY SMT
  <2> QED
    BY <2>1, Zenon
<1>2. Min(r) \in r /\ \A k \in r : Min(r) <= k
  <2> HIDE DEF r
  <2> QED BY <1>1, MinIs
<1>3. PICK a \in S : Min(r) = n - a
  BY <1>2
<1>4. \A k \in S : n - k \in r
  OBVIOUS
<1> HIDE DEF r
<1>5. ASSUME NEW k \in S PROVE k <= a
  <2>1. n - a <= n - k
    BY <1>2, <1>3, <1>4, Zenon
  <2> QED
    BY <2>1, SMT
<1>6. \A k \in S : a >= k
  BY <1>5, SMT
<1>7. \E x \in S : \A y \in S : x >= y
  BY <1>6
<1>8. Max(S) \in S /\ \A y \in S : Max(S) >= y
  BY <1>7, Zenon DEF Max
<1> QED
  BY <1>8, SMT

-----------------------------------------------------------------------------
(* The stretch of a line from m to n and what is inked of it.              *)

Stretch(s, m, n) == 1 <= m /\ m <= n + 1 /\ n <= Len(s)

Inked(s, m, n, a, b) ==
  /\ m <= a /\ a <= b /\ b <= n /\ s[a] # Blank /\ s[b] # Blank
  /\ \A k \in m..n : k < a \/ k > b => s[k] = Blank

\* What a stretch is made of.
LEMMA Stretched ==
  ASSUME NEW s \in Line, NEW m \in Int, NEW n \in Int, Stretch(s, m, n)
  PROVE  /\ SubSeq(s, m, n) \in Line
         /\ Len(SubSeq(s, m, n)) = n - m + 1
         /\ DOMAIN SubSeq(s, m, n) = 1..n - m + 1
         /\ \A k \in 1..n - m + 1 : SubSeq(s, m, n)[k] = s[m + k - 1]
<1>1. \A k \in m..n : s[k] \in STRING
  BY ElementOfSeq, SMT DEF Line, Stretch
<1>2. /\ SubSeq(s, m, n) \in Line
      /\ Len(SubSeq(s, m, n)) = IF m <= n THEN n - m + 1 ELSE 0
      /\ \A k \in 1..n - m + 1 : SubSeq(s, m, n)[k] = s[m + k - 1]
  BY <1>1, SubSeqProperties DEF Line
<1>3. Len(SubSeq(s, m, n)) = n - m + 1
  BY <1>2, SMT DEF Stretch, Line
<1> QED
  BY <1>2, <1>3, LenProperties DEF Line

\* t is the stretch of s from m to n.
Piece(t, s, m, n) == t = SubSeq(s, m, n)

\* A piece of a piece.
LEMMA PieceOf ==
  ASSUME NEW s \in Line, NEW m \in Int, NEW n \in Int, NEW t, NEW u,
         NEW a \in Int, NEW b \in Int, NEW c \in Int, NEW d \in Int,
         Stretch(s, m, n), Piece(t, s, m, n),
         Stretch(t, a, b), Piece(u, t, a, b),
         c = m + a - 1, d = m + b - 1
  PROVE  Stretch(s, c, d) /\ Piece(u, s, c, d)
<1> DEFINE x == SubSeq(s, c, d)
<1>1. /\ t \in Line /\ Len(t) = n - m + 1
      /\ \A k \in 1..n - m + 1 : t[k] = s[m + k - 1]
  BY Stretched DEF Piece
<1>2. 1 <= a /\ a <= b + 1 /\ b <= n - m + 1
  BY <1>1 DEF Stretch
<1>3. Stretch(s, c, d)
  BY <1>2, LenProperties, SMT DEF Stretch, Line
<1>4. /\ u \in Line /\ Len(u) = b - a + 1
      /\ \A k \in 1..b - a + 1 : u[k] = t[a + k - 1]
  <2>1. /\ SubSeq(t, a, b) \in Line /\ Len(SubSeq(t, a, b)) = b - a + 1
        /\ \A k \in 1..b - a + 1 : SubSeq(t, a, b)[k] = t[a + k - 1]
    BY <1>1, Stretched
  <2>2. u = SubSeq(t, a, b)
    BY DEF Piece
  <2> QED
    BY <2>1, <2>2
<1>5. /\ x \in Line /\ Len(x) = d - c + 1
      /\ \A k \in 1..d - c + 1 : x[k] = s[c + k - 1]
  BY <1>3, Stretched
<1>6. d - c + 1 = b - a + 1
  BY SMT
<1> HIDE DEF x
<1>7. ASSUME NEW k \in 1..Len(u) PROVE u[k] = x[k]
  <2>1. a + k - 1 \in 1..n - m + 1 /\ k \in 1..b - a + 1
    BY <1>2, <1>4, SMT
  <2>2. m + (a + k - 1) - 1 = c + k - 1
    BY SMT
  <2> QED
    BY <1>1, <1>4, <1>5, <1>6, <2>1, <2>2
<1>8. u = x
  BY <1>4, <1>5, <1>6, <1>7, SeqEqual DEF Line
<1> QED
  BY <1>3, <1>8 DEF x, Piece

-----------------------------------------------------------------------------
(* trim.                                                                   *)

\* A stretch is blank, or one part of it is inked.
LEMMA InkedOrNot ==
  ASSUME NEW s \in Line, NEW m \in Int, NEW n \in Int, Stretch(s, m, n)
  PROVE  \/ AllBlank(s, m..n)
         \/ \E a, b \in m..n : Inked(s, m, n, a, b)
<1> DEFINE S == {k \in m..n : s[k] # Blank}
<1>0. Len(s) \in Nat
  BY LenProperties DEF Line
<1>1. CASE S = {}
  BY <1>1 DEF AllBlank
<1>2. CASE S # {}
  <2>1. S \in SUBSET Nat /\ S \in SUBSET (1..Len(s))
    BY <1>0, SMT DEF Stretch
  <2>2. Min(S) \in S /\ \A k \in S : Min(S) <= k
    BY <1>2, <2>1, MinIs
  <2>3. Max(S) \in S /\ \A k \in S : k <= Max(S)
    BY <1>0, <1>2, <2>1, MaxIs
  <2>4. PICK a \in m..n : a = Min(S) /\ a \in S
    BY <2>2
  <2>5. PICK b \in m..n : b = Max(S) /\ b \in S
    BY <2>3
  <2>6. \A k \in m..n : s[k] # Blank => k \in S
    OBVIOUS
  <2>7. \A k \in m..n : k < a \/ k > b => s[k] = Blank
    <3> SUFFICES ASSUME NEW k \in m..n, k < a \/ k > b, s[k] # Blank
                 PROVE  FALSE
      OBVIOUS
    <3>1. a <= k /\ k <= b
      BY <2>2, <2>3, <2>4, <2>5, <2>6
    <3> HIDE DEF S
    <3> QED
      BY <3>1, SMT
  <2>8. a <= b /\ m <= a /\ b <= n
    <3>1. a <= b
      BY <2>2, <2>4, <2>5
    <3> HIDE DEF S
    <3> QED
      BY <3>1, SMT
  <2> QED
    BY <2>4, <2>5, <2>7, <2>8 DEF Inked
<1> QED
  BY <1>1, <1>2

\* Trimming takes what is inked.
LEMMA TrimIs ==
  ASSUME NEW s \in Line
  PROVE  /\ AllBlank(s, 1..Len(s)) => Trim(s) = <<>>
         /\ \A a, b \in 1..Len(s) :
              Inked(s, 1, Len(s), a, b) => Trim(s) = SubSeq(s, a, b)
<1> DEFINE S == {k \in DOMAIN s : s[k] # Blank}
<1>0. Len(s) \in Nat /\ DOMAIN s = 1..Len(s)
  BY LenProperties DEF Line
<1>1. ASSUME AllBlank(s, 1..Len(s)) PROVE Trim(s) = <<>>
  <2>1. S = {}
    BY <1>0, <1>1 DEF AllBlank
  <2> QED
    BY <2>1 DEF Trim
<1>2. ASSUME NEW a \in 1..Len(s), NEW b \in 1..Len(s),
             Inked(s, 1, Len(s), a, b)
      PROVE  Trim(s) = SubSeq(s, a, b)
  <2>1. a \in S /\ b \in S /\ S # {} /\ S \in SUBSET Nat /\ S \in SUBSET (1..Len(s))
    BY <1>0, <1>2 DEF Inked
  <2>2. \A k \in S : a <= k /\ k <= b
    <3> SUFFICES ASSUME NEW k \in S PROVE a <= k /\ k <= b
      OBVIOUS
    <3>1. k \in 1..Len(s) /\ s[k] # Blank
      BY <1>0
    <3>2. ~(k < a \/ k > b)
      BY <1>2, <3>1 DEF Inked
    <3> HIDE DEF S
    <3> QED
      BY <3>1, <3>2, SMT
  <2>3. Min(S) \in S /\ \A k \in S : Min(S) <= k
    BY <2>1, MinIs
  <2>4. Max(S) \in S /\ \A k \in S : k <= Max(S)
    BY <1>0, <2>1, MaxIs
  <2>5. Trim(s) = SubSeq(s, Min(S), Max(S))
    BY <2>1 DEF Trim
  <2> HIDE DEF S
  <2>6. Min(S) = a
    <3>1. Min(S) <= a /\ a <= Min(S) /\ Min(S) \in Nat
      BY <2>1, <2>2, <2>3
    <3> QED
      BY <3>1, SMT
  <2>7. Max(S) = b
    <3>1. Max(S) <= b /\ b <= Max(S) /\ Max(S) \in Nat
      BY <2>1, <2>2, <2>4
    <3> QED
      BY <3>1, SMT
  <2> QED
    BY <2>5, <2>6, <2>7
<1> QED
  BY <1>1, <1>2

\* The same of a stretch of a line.
LEMMA TrimStretch ==
  ASSUME NEW s \in Line, NEW m \in Int, NEW n \in Int, Stretch(s, m, n)
  PROVE  /\ AllBlank(s, m..n) => Trim(SubSeq(s, m, n)) = <<>>
         /\ \A a, b \in m..n :
              Inked(s, m, n, a, b) => Trim(SubSeq(s, m, n)) = SubSeq(s, a, b)
<1> DEFINE t == SubSeq(s, m, n)
<1>1. /\ t \in Line /\ Len(t) = n - m + 1
      /\ \A k \in 1..n - m + 1 : t[k] = s[m + k - 1]
  BY Stretched
<1> HIDE DEF t
<1>2. ASSUME AllBlank(s, m..n) PROVE Trim(t) = <<>>
  <2>1. ASSUME NEW k \in 1..Len(t) PROVE t[k] = Blank
    <3>1. m + k - 1 \in m..n /\ k \in 1..n - m + 1
      BY <1>1, SMT
    <3> QED
      BY <1>1, <1>2, <3>1 DEF AllBlank
  <2> QED
    BY <1>1, <2>1, TrimIs DEF AllBlank
<1>3. ASSUME NEW a \in m..n, NEW b \in m..n, Inked(s, m, n, a, b)
      PROVE  Trim(t) = SubSeq(s, a, b)
  <2>1. PICK c \in 1..Len(t), d \in 1..Len(t) :
          c <= d /\ m + c - 1 = a /\ m + d - 1 = b
    <3>1. /\ a - m + 1 \in 1..Len(t) /\ b - m + 1 \in 1..Len(t)
          /\ a - m + 1 <= b - m + 1
          /\ m + (a - m + 1) - 1 = a /\ m + (b - m + 1) - 1 = b
      BY <1>1, <1>3, SMT DEF Inked
    <3> QED
      BY <3>1
  <2>2. t[c] # Blank /\ t[d] # Blank
    BY <1>1, <1>3, <2>1 DEF Inked
  <2>3. ASSUME NEW k \in 1..Len(t), k < c \/ k > d PROVE t[k] = Blank
    <3>1. /\ m + k - 1 \in m..n /\ k \in 1..n - m + 1
          /\ m + k - 1 < a \/ m + k - 1 > b
      BY <1>1, <2>1, <2>3, SMT
    <3> QED
      BY <1>1, <1>3, <3>1 DEF Inked
  <2>4. Inked(t, 1, Len(t), c, d)
    BY <1>1, <2>1, <2>2, <2>3, SMT DEF Inked
  <2>5. Trim(t) = SubSeq(t, c, d)
    BY <1>1, <2>1, <2>4, TrimIs
  <2>6. Stretch(t, c, d) /\ c \in Int /\ d \in Int
    BY <1>1, <2>1, SMT DEF Stretch
  <2>7. Piece(t, s, m, n) /\ Piece(SubSeq(t, c, d), t, c, d)
    BY DEF t, Piece
  <2>8. Piece(SubSeq(t, c, d), s, a, b) /\ a \in Int /\ b \in Int
    BY <2>1, <2>6, <2>7, PieceOf
  <2> QED
    BY <2>5, <2>8 DEF Piece
<1> QED
  BY <1>2, <1>3 DEF t

\* A line is a stretch of itself.
LEMMA WholeStretch ==
  ASSUME NEW s \in Line
  PROVE  /\ Len(s) \in Nat /\ DOMAIN s = 1..Len(s) /\ Stretch(s, 1, Len(s))
         /\ SubSeq(s, 1, Len(s)) = s
         /\ s # <<>> => Len(s) > 0
         /\ Len(s) = 0 => s = <<>>
<1>1. Len(s) \in Nat /\ DOMAIN s = 1..Len(s)
  BY LenProperties DEF Line
<1>2. SubSeq(s, 1, Len(s)) = s
  BY SubSeqFull DEF Line
<1>3. s # <<>> => Len(s) > 0
  BY EmptySeq, SMT DEF Line
<1> QED
  BY <1>1, <1>2, <1>3, SMT DEF Stretch

\* Blanks around a stretch do not matter.
LEMMA SameTrim ==
  ASSUME NEW s \in Line, NEW m \in Int, NEW n \in Int, NEW k \in Int, NEW l \in Int,
         Stretch(s, k, l), Stretch(s, m, n), m <= k, l <= n,
         AllBlank(s, m..k - 1), AllBlank(s, l + 1..n)
  PROVE  Trim(SubSeq(s, k, l)) = Trim(SubSeq(s, m, n))
<1>1. \A j \in m..n : j \notin k..l => s[j] = Blank
  <2> SUFFICES ASSUME NEW j \in m..n, j \notin k..l PROVE s[j] = Blank
    OBVIOUS
  <2>1. j \in m..k - 1 \/ j \in l + 1..n
    BY SMT
  <2> QED
    BY <2>1 DEF AllBlank
<1>2. CASE AllBlank(s, k..l)
  <2>1. AllBlank(s, m..n)
    BY <1>1, <1>2 DEF AllBlank
  <2> QED
    BY <1>2, <2>1, TrimStretch
<1>3. CASE \E a, b \in k..l : Inked(s, k, l, a, b)
  <2>1. PICK a \in k..l, b \in k..l : Inked(s, k, l, a, b)
    BY <1>3
  <2>2. a \in m..n /\ b \in m..n
    BY SMT
  <2>3. ASSUME NEW j \in m..n, j < a \/ j > b PROVE s[j] = Blank
    BY <1>1, <2>1, <2>3 DEF Inked
  <2>4. Inked(s, m, n, a, b)
    BY <2>1, <2>2, <2>3, SMT DEF Inked
  <2>5. Trim(SubSeq(s, k, l)) = SubSeq(s, a, b)
    BY <2>1, TrimStretch
  <2>6. Trim(SubSeq(s, m, n)) = SubSeq(s, a, b)
    BY <2>2, <2>4, TrimStretch
  <2> QED
    BY <2>5, <2>6
<1> QED
  BY <1>2, <1>3, InkedOrNot

\* What a trimmed line is, and where it is found.
LEMMA TrimFound ==
  ASSUME NEW s \in Line
  PROVE  /\ Trim(s) \in Line
         /\ \/ Trim(s) = <<>> /\ AllBlank(s, 1..Len(s))
            \/ \E a, b \in 1..Len(s) :
                 /\ Inked(s, 1, Len(s), a, b) /\ Stretch(s, a, b)
                 /\ Trim(s) = SubSeq(s, a, b)
                 /\ Len(Trim(s)) = b - a + 1
                 /\ DOMAIN Trim(s) = 1..b - a + 1
                 /\ \A k \in 1..b - a + 1 : Trim(s)[k] = s[a + k - 1]
<1>1. CASE AllBlank(s, 1..Len(s))
  BY <1>1, TrimIs, EmptySeq DEF Line
<1>2. CASE \E a, b \in 1..Len(s) : Inked(s, 1, Len(s), a, b)
  <2>1. PICK a \in 1..Len(s), b \in 1..Len(s) : Inked(s, 1, Len(s), a, b)
    BY <1>2
  <2>2. Trim(s) = SubSeq(s, a, b)
    BY <2>1, TrimIs
  <2>3. Stretch(s, a, b) /\ a \in Int /\ b \in Int
    BY <2>1, WholeStretch, SMT DEF Stretch, Inked
  <2> QED
    BY <2>1, <2>2, <2>3, Stretched
<1>3. Len(s) \in Int /\ 1 \in Int /\ Stretch(s, 1, Len(s))
  BY WholeStretch, SMT
<1> QED
  BY <1>1, <1>2, <1>3, InkedOrNot

\* A trimmed line is the only one that the line trims to.
LEMMA TrimsToTrim ==
  ASSUME NEW s \in Line, NEW t \in Line
  PROVE  TrimsTo(s, t) <=> t = Trim(s)
<1>0. /\ Len(s) \in Nat /\ DOMAIN s = 1..Len(s)
      /\ Len(t) \in Nat /\ DOMAIN t = 1..Len(t)
  BY WholeStretch
<1>1. ASSUME TrimsTo(s, t) PROVE t = Trim(s)
  <2>1. PICK o \in 0..Len(s) - Len(t) :
          /\ SubSeq(s, o + 1, o + Len(t)) = t
          /\ AllBlank(s, DOMAIN s \ (o + 1..o + Len(t)))
    BY <1>1 DEF TrimsTo
  <2>2. CASE Len(t) = 0
    <3>1. \A k \in 1..Len(s) : k \notin o + 1..o + Len(t)
      BY <2>2, SMT
    <3>2. AllBlank(s, 1..Len(s))
      BY <1>0, <2>1, <3>1 DEF AllBlank
    <3> QED
      BY <2>2, <3>2, TrimIs, WholeStretch
  <2>3. CASE Len(t) > 0
    <3>1. PICK a \in 1..Len(s), b \in 1..Len(s) :
            a = o + 1 /\ b = o + Len(t) /\ a <= b
      BY <1>0, <2>3, SMT
    <3>2. Stretch(s, a, b)
      BY <1>0, <3>1, SMT DEF Stretch
    <3>3. SubSeq(s, a, b) = t
      BY <2>1, <3>1
    <3>4. 1 \in 1..b - a + 1 /\ b - a + 1 \in 1..b - a + 1 /\ Len(t) = b - a + 1
      BY <3>1, SMT
    <3>5. t[1] = s[a + 1 - 1] /\ t[Len(t)] = s[a + (b - a + 1) - 1]
      <4>1. a \in Int /\ b \in Int
        OBVIOUS
      <4>2. \A k \in 1..b - a + 1 : SubSeq(s, a, b)[k] = s[a + k - 1]
        BY <3>2, <4>1, Stretched
      <4>3. \A k \in 1..b - a + 1 : t[k] = s[a + k - 1]
        BY <3>3, <4>2
      <4> QED
        BY <3>4, <4>3
    <3>6. a + 1 - 1 = a /\ a + (b - a + 1) - 1 = b
      BY SMT
    <3>7. t[1] # Blank /\ t[Len(t)] # Blank
      <4>1. t # <<>>
        BY <2>3, SMT
      <4>2. Head(t) = t[1] /\ Last(t) = t[Len(t)]
        BY <4>1, SMT DEF Last, Line
      <4> QED
        BY <1>1, <4>1, <4>2 DEF TrimsTo
    <3>8. \A k \in 1..Len(s) : k < a \/ k > b => s[k] = Blank
      <4> SUFFICES ASSUME NEW k \in 1..Len(s), k < a \/ k > b
                   PROVE  s[k] = Blank
        OBVIOUS
      <4>1. k \notin o + 1..o + Len(t)
        BY <3>1, SMT
      <4> QED
        BY <1>0, <2>1, <4>1 DEF AllBlank
    <3>9. Inked(s, 1, Len(s), a, b)
      <4>1. 1 <= a /\ a <= b /\ b <= Len(s)
        BY <3>1, SMT
      <4> QED
        BY <3>5, <3>6, <3>7, <3>8, <4>1 DEF Inked
    <3> QED
      BY <3>3, <3>9, TrimIs
  <2> QED
    BY <1>0, <2>2, <2>3, SMT
<1>2. TrimsTo(s, Trim(s))
  <2>1. CASE Trim(s) = <<>> /\ AllBlank(s, 1..Len(s))
    <3>1. Len(Trim(s)) = 0
      BY <2>1, EmptySeq
    <3>2. 0 \in 0..Len(s) - Len(Trim(s)) /\ 0 + Len(Trim(s)) = 0 /\ 0 + 1 = 1
      BY <1>0, <3>1, SMT
    <3>3. SubSeq(s, 0 + 1, 0 + Len(Trim(s))) = Trim(s)
      <4>1. SubSeq(s, 1, 0) = <<>>
        BY SubSeqEmpty, SMT
      <4> QED
        BY <2>1, <3>2, <4>1
    <3>4. AllBlank(s, DOMAIN s \ (0 + 1..0 + Len(Trim(s))))
      BY <1>0, <2>1 DEF AllBlank
    <3> QED
      BY <2>1, <3>2, <3>3, <3>4 DEF TrimsTo
  <2>2. CASE ~(Trim(s) = <<>> /\ AllBlank(s, 1..Len(s)))
    <3> DEFINE u == Trim(s)
    <3>1. PICK a \in 1..Len(s), b \in 1..Len(s) :
             /\ Inked(s, 1, Len(s), a, b) /\ Stretch(s, a, b)
             /\ u = SubSeq(s, a, b) /\ Len(u) = b - a + 1
             /\ \A k \in 1..b - a + 1 : u[k] = s[a + k - 1]
      BY <2>2, TrimFound
    <3>2. u \in Line
      BY TrimFound
    <3> HIDE DEF u
    <3>3. /\ a <= b /\ a - 1 \in 0..Len(s) - Len(u)
          /\ (a - 1) + 1 = a /\ (a - 1) + Len(u) = b
      <4>1. a <= b /\ Len(u) = b - a + 1 /\ Len(s) \in Nat
        BY <1>0, <3>1 DEF Inked
      <4> QED
        BY <4>1, SMT
    <3>4. SubSeq(s, (a - 1) + 1, (a - 1) + Len(u)) = u
      BY <3>1, <3>3
    <3>5. ASSUME NEW k \in DOMAIN s, k \notin a..b PROVE s[k] = Blank
      <4>1. k < a \/ k > b
        BY <1>0, <3>5, SMT
      <4> QED
        BY <1>0, <3>1, <4>1 DEF Inked
    <3>6. AllBlank(s, DOMAIN s \ ((a - 1) + 1..(a - 1) + Len(u)))
      BY <3>3, <3>5 DEF AllBlank
    <3>7. u # <<>> => Head(u) # Blank /\ Last(u) # Blank
      <4>1. 1 \in 1..b - a + 1 /\ b - a + 1 \in 1..b - a + 1
            /\ a + 1 - 1 = a /\ a + (b - a + 1) - 1 = b
        BY <3>3, SMT
      <4>2. u[1] = s[a] /\ u[Len(u)] = s[b]
        BY <3>1, <4>1
      <4>3. u[1] # Blank /\ u[Len(u)] # Blank
        BY <3>1, <4>2 DEF Inked
      <4>4. u # <<>> => Head(u) = u[1] /\ Last(u) = u[Len(u)]
        BY <3>2, SMT DEF Last, Line
      <4> QED
        BY <4>3, <4>4
    <3>8. TrimsTo(s, u)
      BY <3>3, <3>4, <3>6, <3>7 DEF TrimsTo
    <3> QED
      BY <3>8 DEF u
  <2> QED
    BY <2>1, <2>2
<1> QED
  BY <1>1, <1>2

-----------------------------------------------------------------------------
(* The kinds of lines.                                                     *)

\* There is one inked part.
LEMMA InkedOnce ==
  ASSUME NEW s \in Line, NEW a \in 1..Len(s), NEW b \in 1..Len(s),
         NEW p \in 1..Len(s), NEW q \in 1..Len(s),
         Inked(s, 1, Len(s), a, b), Inked(s, 1, Len(s), p, q)
  PROVE  p = a /\ q = b
<1>1. s[a] # Blank /\ s[b] # Blank /\ s[p] # Blank /\ s[q] # Blank
  BY DEF Inked
<1>2. ~(p < a) /\ ~(q > b) /\ ~(a < p) /\ ~(b > q)
  BY <1>1 DEF Inked
<1> QED
  BY <1>2, SMT

\* The first and the last character of a trimmed line.
LEMMA Ends ==
  ASSUME NEW s \in Line, NEW a \in 1..Len(s), NEW b \in 1..Len(s),
         Inked(s, 1, Len(s), a, b)
  PROVE  /\ Trim(s) = SubSeq(s, a, b) /\ Stretch(s, a, b)
         /\ Trim(s) \in Line /\ Trim(s) # <<>> /\ a <= b
         /\ Len(Trim(s)) = b - a + 1
         /\ DOMAIN Trim(s) = 1..b - a + 1
         /\ \A k \in 1..b - a + 1 : Trim(s)[k] = s[a + k - 1]
         /\ Head(Trim(s)) = s[a] /\ Last(Trim(s)) = s[b]
<1> DEFINE t == Trim(s)
<1>1. t = SubSeq(s, a, b)
  BY TrimIs
<1>2. Stretch(s, a, b) /\ a \in Int /\ b \in Int /\ a <= b
  BY WholeStretch, SMT DEF Stretch, Inked
<1>3. /\ t \in Line /\ Len(t) = b - a + 1 /\ DOMAIN t = 1..b - a + 1
      /\ \A k \in 1..b - a + 1 : t[k] = s[a + k - 1]
  BY <1>1, <1>2, Stretched
<1> HIDE DEF t
<1>4. t # <<>> /\ 1 \in 1..b - a + 1 /\ b - a + 1 \in 1..b - a + 1
      /\ a + 1 - 1 = a /\ a + (b - a + 1) - 1 = b
  BY <1>2, <1>3, SMT DEF Line
<1>5. t[1] = s[a] /\ t[Len(t)] = s[b]
  BY <1>3, <1>4
<1>6. Head(t) = t[1] /\ Last(t) = t[Len(t)]
  BY <1>3, <1>4, SMT DEF Last, Line
<1> QED
  BY <1>1, <1>2, <1>3, <1>4, <1>5, <1>6 DEF t

\* The two cases of a line.
LEMMA BlankOrInked ==
  ASSUME NEW s \in Line
  PROVE  \/ AllBlank(s, 1..Len(s)) /\ Trim(s) = <<>>
         \/ \E a, b \in 1..Len(s) : Inked(s, 1, Len(s), a, b)
BY TrimFound

\* The loop skips the comment lines, and the lines with nothing on them.
LEMMA CommentIs ==
  ASSUME NEW s \in Line
  PROVE  CommentLine(s) <=> Ignored(Trim(s))
<1>0. DOMAIN s = 1..Len(s) /\ Len(s) \in Nat
  BY WholeStretch
<1>1. CASE AllBlank(s, 1..Len(s)) /\ Trim(s) = <<>>
  BY <1>0, <1>1 DEF CommentLine, Ignored
<1>2. CASE \E a, b \in 1..Len(s) : Inked(s, 1, Len(s), a, b)
  <2>1. PICK a \in 1..Len(s), b \in 1..Len(s) : Inked(s, 1, Len(s), a, b)
    BY <1>2
  <2>2. Trim(s) # <<>> /\ Head(Trim(s)) = s[a]
    BY <2>1, Ends
  <2>3. s[a] # Blank /\ \A k \in 1..a - 1 : s[k] = Blank
    <3>1. \A k \in 1..a - 1 : k \in 1..Len(s) /\ k < a
      BY <1>0, SMT
    <3> QED
      BY <2>1, <3>1 DEF Inked
  <2>4. ASSUME CommentLine(s) PROVE s[a] \in Comment
    <3>1. ~AllBlank(s, DOMAIN s)
      BY <1>0, <2>3 DEF AllBlank
    <3>2. PICK k \in 1..Len(s) : s[k] \in Comment /\ AllBlank(s, 1..k - 1)
      BY <1>0, <2>4, <3>1 DEF CommentLine
    <3>3. s[k] # Blank
      BY <3>2 DEF Comment, Blank
    <3>4. ~(k \in 1..a - 1) /\ ~(a \in 1..k - 1)
      BY <2>3, <3>2, <3>3 DEF AllBlank
    <3>5. k = a
      BY <1>0, <3>4, SMT
    <3> QED
      BY <3>2, <3>5
  <2>5. ASSUME s[a] \in Comment PROVE CommentLine(s)
    BY <1>0, <2>3, <2>5 DEF CommentLine, AllBlank
  <2> QED
    BY <2>2, <2>4, <2>5 DEF Ignored, StartsWith
<1> QED
  BY <1>1, <1>2, BlankOrInked

\* The brackets are the ends of the inked part.
LEMMA BracketedIs ==
  ASSUME NEW s \in Line, NEW p \in 1..Len(s), NEW q \in 1..Len(s)
  PROVE  Bracketed(s, p, q) <=>
           /\ Inked(s, 1, Len(s), p, q) /\ s[p] = "[" /\ s[q] = "]"
<1>0. DOMAIN s = 1..Len(s) /\ Len(s) \in Nat
  BY WholeStretch
<1>1. ASSUME Bracketed(s, p, q) PROVE Inked(s, 1, Len(s), p, q)
  <2>1. s[p] # Blank /\ s[q] # Blank
    BY <1>1 DEF Bracketed, Blank
  <2>2. ASSUME NEW k \in 1..Len(s), k < p \/ k > q PROVE s[k] = Blank
    <3>1. k \notin p..q
      BY <2>2, SMT
    <3> QED
      BY <1>0, <1>1, <3>1 DEF Bracketed, AllBlank
  <2>3. 1 <= p /\ p <= q /\ q <= Len(s)
    BY <1>0, <1>1, SMT DEF Bracketed
  <2> QED
    BY <2>1, <2>2, <2>3 DEF Inked
<1>2. ASSUME Inked(s, 1, Len(s), p, q), s[p] = "[", s[q] = "]"
      PROVE  Bracketed(s, p, q)
  <2>1. p <= q /\ p # q
    BY <1>2 DEF Inked
  <2>2. ASSUME NEW k \in 1..Len(s), k \notin p..q PROVE s[k] = Blank
    <3>1. k < p \/ k > q
      BY <2>2, SMT
    <3> QED
      BY <1>2, <3>1 DEF Inked
  <2>3. p < q
    BY <2>1, SMT
  <2> QED
    BY <1>0, <1>2, <2>2, <2>3 DEF Bracketed, AllBlank
<1> QED
  BY <1>1, <1>2 DEF Bracketed

\* It takes the header lines for headers.
LEMMA IsHeaderIs ==
  ASSUME NEW s \in Line
  PROVE  /\ IsHeader(s) <=> InBrackets(Trim(s))
         /\ InBrackets(Trim(s)) => ~Ignored(Trim(s))
<1>0. DOMAIN s = 1..Len(s)
  BY WholeStretch
<1>1. CASE AllBlank(s, 1..Len(s)) /\ Trim(s) = <<>>
  <2>1. \A p \in 1..Len(s) : s[p] # "["
    BY <1>1 DEF AllBlank, Blank
  <2> QED
    BY <1>0, <1>1, <2>1 DEF IsHeader, Bracketed, InBrackets, StartsWith
<1>2. CASE \E a, b \in 1..Len(s) : Inked(s, 1, Len(s), a, b)
  <2>1. PICK a \in 1..Len(s), b \in 1..Len(s) : Inked(s, 1, Len(s), a, b)
    BY <1>2
  <2>2. Trim(s) # <<>> /\ Head(Trim(s)) = s[a] /\ Last(Trim(s)) = s[b]
    BY <2>1, Ends
  <2>3. IsHeader(s) <=> s[a] = "[" /\ s[b] = "]"
    BY <1>0, <2>1, BracketedIs, InkedOnce DEF IsHeader
  <2>4. InBrackets(Trim(s)) <=> s[a] = "[" /\ s[b] = "]"
    BY <2>2 DEF InBrackets, StartsWith
  <2>5. s[a] = "[" => ~Ignored(Trim(s))
    BY <2>2 DEF Ignored, StartsWith, Comment
  <2> QED
    BY <2>3, <2>4, <2>5
<1> QED
  BY <1>1, <1>2, BlankOrInked

\* The section it opens is the one the header names.
LEMMA HeaderIs ==
  ASSUME NEW s \in Line, NEW name \in Line, IsHeader(s)
  PROVE  Header(s, name) <=> name = Trim(SubSeq(Trim(s), 2, Len(Trim(s)) - 1))
<1>0. DOMAIN s = 1..Len(s) /\ Len(s) \in Nat
  BY WholeStretch
<1>1. PICK a \in 1..Len(s), b \in 1..Len(s) : Bracketed(s, a, b)
  BY <1>0 DEF IsHeader
<1>2. Inked(s, 1, Len(s), a, b) /\ a < b
  BY <1>1, BracketedIs DEF Bracketed
<1> DEFINE t == Trim(s)
           inner == SubSeq(s, a + 1, b - 1)
<1>3. t = SubSeq(s, a, b) /\ Stretch(s, a, b) /\ Len(t) = b - a + 1
  BY <1>2, Ends
<1> HIDE DEF t
<1>4. SubSeq(t, 2, Len(t) - 1) = inner /\ Stretch(s, a + 1, b - 1)
  <2>1. PICK l \in Int, c \in Int, d \in Int :
          l = Len(t) - 1 /\ c = a + 1 /\ d = b - 1
    BY <1>3, SMT
  <2>2. /\ Stretch(t, 2, l) /\ a \in Int /\ b \in Int /\ 2 \in Int
        /\ c = a + 2 - 1 /\ d = a + l - 1
    BY <1>2, <1>3, <2>1, SMT DEF Stretch
  <2>3. Piece(t, s, a, b) /\ Piece(SubSeq(t, 2, l), t, 2, l)
    BY <1>3 DEF Piece
  <2>4. Stretch(s, c, d) /\ Piece(SubSeq(t, 2, l), s, c, d)
    BY <1>3, <2>2, <2>3, PieceOf
  <2> QED
    BY <2>1, <2>4 DEF inner, Piece
<1>5. inner \in Line
  <2>1. a + 1 \in Int /\ b - 1 \in Int
    BY SMT
  <2> QED
    BY <1>4, <2>1, Stretched
<1> HIDE DEF inner
<1>6. TrimsTo(inner, name) <=> name = Trim(inner)
  BY <1>5, TrimsToTrim
<1>7. \A p, q \in 1..Len(s) : Bracketed(s, p, q) => p = a /\ q = b
  BY <1>2, BracketedIs, InkedOnce
<1>8. Header(s, name) <=> TrimsTo(inner, name)
  BY <1>0, <1>1, <1>7 DEF Header, inner
<1> QED
  BY <1>4, <1>6, <1>8 DEF t

\* The round of the loop that keeps a value.
Keeps(t) == ~Ignored(t) /\ ~InBrackets(t) /\ EqualSigns(t) # {}

\* What it finds: the first '=' of the line, and what lies on both sides.
LEMMA AssignsIs ==
  ASSUME NEW s \in Line
  PROVE  /\ ~Keeps(Trim(s)) => \A p \in DOMAIN s : ~Assigns(s, p)
         /\ Keeps(Trim(s)) =>
              \E p \in DOMAIN s :
                /\ \A q \in DOMAIN s : Assigns(s, q) <=> q = p
                /\ LET eq == Min(EqualSigns(Trim(s)))
                   IN /\ Trim(Before(Trim(s), eq)) = Trim(Before(s, p))
                      /\ Trim(After(Trim(s), eq)) = Trim(After(s, p))
<1> DEFINE t == Trim(s)
           S == EqualSigns(t)
           eq == Min(S)
<1>0. DOMAIN s = 1..Len(s) /\ Len(s) \in Nat /\ t \in Line
  BY WholeStretch, TrimFound
<1>1. CASE AllBlank(s, 1..Len(s)) /\ t = <<>>
  BY <1>0, <1>1, CommentIs DEF Keeps, Assigns, Ignored
<1>2. CASE \E a, b \in 1..Len(s) : Inked(s, 1, Len(s), a, b)
  <2>1. PICK a \in 1..Len(s), b \in 1..Len(s) : Inked(s, 1, Len(s), a, b)
    BY <1>2
  <2>2. /\ t = SubSeq(s, a, b) /\ Stretch(s, a, b) /\ t # <<>> /\ a <= b
        /\ Len(t) = b - a + 1 /\ DOMAIN t = 1..b - a + 1
        /\ \A k \in 1..b - a + 1 : t[k] = s[a + k - 1]
    BY <2>1, Ends
  <2>3. /\ CommentLine(s) <=> Ignored(t)
        /\ IsHeader(s) <=> InBrackets(t)
    BY CommentIs, IsHeaderIs
  <2> HIDE DEF t
  <2>4. ASSUME NEW p \in 1..Len(s), s[p] = "="
        PROVE  \E k \in S : p = a + k - 1
    <3>1. s[p] # Blank
      BY <2>4 DEF Blank
    <3>2. ~(p < a \/ p > b)
      BY <2>1, <3>1 DEF Inked
    <3>3. PICK k \in 1..b - a + 1 : p = a + k - 1
      <4>1. p - a + 1 \in 1..b - a + 1 /\ p = a + (p - a + 1) - 1
        BY <3>2, SMT
      <4> QED
        BY <4>1
    <3> QED
      BY <2>2, <2>4, <3>3 DEF EqualSigns
  <2>5. CASE ~Keeps(t)
    <3>1. ASSUME NEW p \in 1..Len(s), Assigns(s, p) PROVE FALSE
      <4>1. S = {}
        BY <2>3, <2>5, <3>1 DEF Keeps, Assigns
      <4> QED
        BY <2>4, <3>1, <4>1 DEF Assigns
    <3> QED
      BY <1>0, <2>5, <3>1 DEF t
  <2>6. CASE Keeps(t)
    <3>1. S \in SUBSET (1..b - a + 1) /\ S \in SUBSET Nat /\ S # {}
      <4>1. S \in SUBSET (1..b - a + 1)
        BY <2>2 DEF EqualSigns
      <4>2. \A k \in 1..b - a + 1 : k \in Nat
        BY SMT
      <4> QED
        BY <2>6, <4>1, <4>2 DEF Keeps
    <3>2. eq \in S /\ \A k \in S : eq <= k
      <4> HIDE DEF S
      <4> QED
        BY <3>1, MinIs
    <3>3. eq \in 1..b - a + 1 /\ t[eq] = "="
      BY <2>2, <3>2 DEF EqualSigns
    <3> HIDE DEF eq, S
    <3>4. PICK p \in 1..Len(s) : p = a + eq - 1 /\ p \in a..b
      BY <1>0, <2>1, <3>3, SMT DEF Inked
    <3>5. s[p] = "="
      BY <2>2, <3>3, <3>4
    <3>6. ASSUME NEW q \in 1..Len(s), s[q] = "=" PROVE p <= q
      <4>1. PICK k \in S : q = a + k - 1
        BY <2>4, <3>6
      <4>2. eq <= k /\ k \in Nat /\ eq \in Nat
        BY <3>1, <3>2
      <4> QED
        BY <3>4, <4>1, <4>2, SMT
    <3>7. ASSUME NEW k \in 1..p - 1 PROVE s[k] # "="
      <4>1. k \in 1..Len(s) /\ ~(p <= k)
        BY <1>0, SMT
      <4> QED
        BY <3>6, <4>1
    <3>8. Assigns(s, p)
      BY <2>3, <2>6, <3>5, <3>7 DEF Assigns, Keeps
    <3>9. ASSUME NEW q \in 1..Len(s), Assigns(s, q) PROVE q = p
      <4>1. p <= q
        BY <3>6, <3>9 DEF Assigns
      <4>2. ~(p \in 1..q - 1)
        BY <3>5, <3>9 DEF Assigns
      <4> QED
        BY <4>1, <4>2, SMT
    <3>10. Trim(Before(t, eq)) = Trim(Before(s, p))
      <4>1. PICK m \in Int, l \in Int : m = eq - 1 /\ l = p - 1
        <5>1. eq - 1 \in Int /\ p - 1 \in Int
          BY <3>3, SMT
        <5> QED
          BY <5>1
      <4>2. /\ Stretch(t, 1, m) /\ a \in Int /\ b \in Int /\ 1 \in Int
            /\ a = a + 1 - 1 /\ l = a + m - 1 /\ 1 <= a /\ l <= l
            /\ Stretch(s, 1, l)
        BY <1>0, <2>2, <3>3, <3>4, <4>1, SMT DEF Stretch
      <4>3. Piece(t, s, a, b) /\ Piece(SubSeq(t, 1, m), t, 1, m)
        BY <2>2 DEF Piece
      <4>4. Stretch(s, a, l) /\ Piece(SubSeq(t, 1, m), s, a, l)
        BY <2>2, <4>2, <4>3, PieceOf
      <4>5. AllBlank(s, 1..a - 1) /\ AllBlank(s, l + 1..l)
        <5>1. \A k \in 1..a - 1 : k \in 1..Len(s) /\ k < a
          BY <1>0, SMT
        <5>2. l + 1..l = {}
          BY SMT
        <5> QED
          BY <2>1, <5>1, <5>2 DEF Inked, AllBlank
      <4>6. Trim(SubSeq(s, a, l)) = Trim(SubSeq(s, 1, l))
        BY <4>2, <4>4, <4>5, SameTrim
      <4> QED
        BY <4>1, <4>4, <4>6 DEF Before, Piece
    <3>11. Trim(After(t, eq)) = Trim(After(s, p))
      <4>1. PICK m \in Int, l \in Int, k \in Int, n \in Int :
              m = eq + 1 /\ l = p + 1 /\ k = Len(t) /\ n = Len(s)
        <5>1. eq + 1 \in Int /\ p + 1 \in Int /\ Len(t) \in Int /\ Len(s) \in Int
          BY <1>0, <2>2, <3>3, SMT
        <5> QED
          BY <5>1
      <4>2. /\ Stretch(t, m, k) /\ a \in Int /\ b \in Int
            /\ l = a + m - 1 /\ b = a + k - 1 /\ l <= l /\ b <= n
            /\ Stretch(s, l, n)
        BY <1>0, <2>2, <3>3, <3>4, <4>1, SMT DEF Stretch
      <4>3. Piece(t, s, a, b) /\ Piece(SubSeq(t, m, k), t, m, k)
        BY <2>2 DEF Piece
      <4>4. Stretch(s, l, b) /\ Piece(SubSeq(t, m, k), s, l, b)
        BY <2>2, <4>2, <4>3, PieceOf
      <4>5. AllBlank(s, l..l - 1) /\ AllBlank(s, b + 1..n)
        <5>1. \A j \in b + 1..n : j \in 1..Len(s) /\ j > b
          BY <1>0, <4>1, SMT
        <5>2. l..l - 1 = {}
          BY SMT
        <5> QED
          BY <2>1, <5>1, <5>2 DEF Inked, AllBlank
      <4>6. Trim(SubSeq(s, l, b)) = Trim(SubSeq(s, l, n))
        BY <4>2, <4>4, <4>5, SameTrim
      <4> QED
        BY <4>1, <4>4, <4>6 DEF After, Piece
    <3> QED
      BY <1>0, <2>6, <3>8, <3>9, <3>10, <3>11 DEF t, eq, S
  <2> QED
    BY <2>5, <2>6
<1> QED
  BY <1>1, <1>2, BlankOrInked

\* What is left of the part after the '=' without a comment.
LEMMA CutIs ==
  ASSUME NEW s \in Line, NEW p \in 1..Len(s)
  PROVE  \E q \in 1..Len(s) + 1 :
           /\ q > p /\ \A k \in p + 1..q - 1 : s[k] \notin Comment
           /\ q <= Len(s) => s[q] \in Comment
           /\ SubSeq(s, p + 1, q - 1) \in Line
           /\ CutComment(Trim(After(s, p))) = Trim(SubSeq(s, p + 1, q - 1))
<1>0. DOMAIN s = 1..Len(s) /\ Len(s) \in Nat
  BY WholeStretch
<1>1. PICK m \in Int, n \in Int : m = p + 1 /\ n = Len(s)
  <2>1. p + 1 \in Int /\ Len(s) \in Int
    BY <1>0, SMT
  <2> QED
    BY <2>1
<1>2. Stretch(s, m, n)
  BY <1>0, <1>1, SMT DEF Stretch
<1> DEFINE v == Trim(After(s, p))
           P == {k \in DOMAIN v : v[k] \in Comment}
<1>3. After(s, p) = SubSeq(s, m, n) /\ After(s, p) \in Line
  BY <1>1, <1>2, Stretched DEF After
<1>4. ASSUME \A k \in m..n : s[k] \notin Comment, P = {}
      PROVE  \E q \in 1..Len(s) + 1 :
               /\ q > p /\ \A k \in p + 1..q - 1 : s[k] \notin Comment
               /\ q <= Len(s) => s[q] \in Comment
               /\ SubSeq(s, p + 1, q - 1) \in Line
               /\ CutComment(v) = Trim(SubSeq(s, p + 1, q - 1))
  <2>1. PICK q \in 1..Len(s) + 1 : q = n + 1 /\ q - 1 = n /\ q > p /\ ~(q <= Len(s))
    <3>1. n + 1 \in 1..Len(s) + 1 /\ (n + 1) - 1 = n /\ n + 1 > p /\ ~(n + 1 <= Len(s))
      BY <1>0, <1>1, SMT
    <3> QED
      BY <3>1
  <2>2. CutComment(v) = v
    BY <1>4 DEF CutComment
  <2> QED
    BY <1>1, <1>3, <1>4, <2>1, <2>2
<1>5. CASE AllBlank(s, m..n)
  <2>1. v = <<>>
    BY <1>2, <1>3, <1>5, TrimStretch
  <2>2. P = {}
    BY <2>1
  <2>3. \A k \in m..n : s[k] \notin Comment
    BY <1>5 DEF AllBlank, Blank, Comment
  <2> QED
    BY <1>4, <2>2, <2>3
<1>6. CASE \E c, d \in m..n : Inked(s, m, n, c, d)
  <2>1. PICK c \in m..n, d \in m..n : Inked(s, m, n, c, d)
    BY <1>6
  <2>2. v = SubSeq(s, c, d)
    BY <1>2, <1>3, <2>1, TrimStretch
  <2>3. Stretch(s, c, d) /\ c \in Int /\ d \in Int
    BY <1>2, <2>1, SMT DEF Stretch, Inked
  <2>4. /\ v \in Line /\ Len(v) = d - c + 1 /\ DOMAIN v = 1..d - c + 1
        /\ \A k \in 1..d - c + 1 : v[k] = s[c + k - 1]
    BY <2>2, <2>3, Stretched
  <2> HIDE DEF v
  <2>5. ASSUME NEW k \in m..n, s[k] \in Comment
        PROVE  \E j \in P : k = c + j - 1
    <3>1. s[k] # Blank
      BY <2>5 DEF Comment, Blank
    <3>2. ~(k < c \/ k > d)
      BY <2>1, <3>1 DEF Inked
    <3>3. PICK j \in 1..d - c + 1 : k = c + j - 1
      <4>1. k - c + 1 \in 1..d - c + 1 /\ k = c + (k - c + 1) - 1
        BY <3>2, SMT
      <4> QED
        BY <4>1
    <3> QED
      BY <2>4, <2>5, <3>3
  <2>6. CASE P = {}
    BY <1>4, <2>5, <2>6 DEF v
  <2>7. CASE P # {}
    <3>1. P \in SUBSET (1..d - c + 1) /\ P \in SUBSET Nat
      <4>1. P \in SUBSET (1..d - c + 1)
        BY <2>4
      <4>2. \A k \in 1..d - c + 1 : k \in Nat
        BY SMT
      <4> QED
        BY <4>1, <4>2
    <3> DEFINE first == Min(P)
    <3>2. first \in P /\ \A j \in P : first <= j
      <4> HIDE DEF P
      <4> QED
        BY <2>7, <3>1, MinIs
    <3>3. first \in 1..d - c + 1 /\ v[first] \in Comment
      BY <2>4, <3>2
    <3>4. CutComment(v) = Trim(SubSeq(v, 1, first - 1))
      BY <2>7 DEF CutComment, Before
    <3> HIDE DEF first, P
    <3>5. PICK q \in 1..Len(s) + 1, l \in Int, f \in Int :
            q = c + first - 1 /\ q \in c..d /\ q > p /\ l = q - 1 /\ f = first - 1
      <4>1. /\ c + first - 1 \in 1..Len(s) + 1 /\ c + first - 1 \in c..d
            /\ c + first - 1 > p /\ (c + first - 1) - 1 \in Int /\ first - 1 \in Int
        BY <1>0, <1>1, <2>1, <3>3, SMT DEF Inked
      <4> QED
        BY <4>1
    <3>6. s[q] \in Comment
      BY <2>4, <3>3, <3>5
    <3>7. ASSUME NEW k \in p + 1..q - 1 PROVE s[k] \notin Comment
      <4>1. k \in m..n /\ k < q
        BY <1>1, <2>3, <3>5, SMT DEF Stretch
      <4>2. ASSUME s[k] \in Comment PROVE FALSE
        <5>1. PICK j \in P : k = c + j - 1
          BY <2>5, <4>1, <4>2
        <5>2. first <= j /\ j \in Nat /\ first \in Nat
          BY <3>1, <3>2
        <5> QED
          BY <3>5, <4>1, <5>1, <5>2, SMT
      <4> QED
        BY <4>2
    <3>8. Trim(SubSeq(v, 1, f)) = Trim(SubSeq(s, m, l))
      <4>1. /\ Stretch(v, 1, f) /\ 1 \in Int
            /\ c = c + 1 - 1 /\ l = c + f - 1 /\ m <= c /\ l <= l
            /\ Stretch(s, m, l)
        BY <1>0, <1>1, <1>2, <2>4, <3>3, <3>5, SMT DEF Stretch
      <4>2. Piece(v, s, c, d) /\ Piece(SubSeq(v, 1, f), v, 1, f)
        BY <2>2 DEF Piece
      <4>3. Stretch(s, c, l) /\ Piece(SubSeq(v, 1, f), s, c, l)
        BY <2>3, <4>1, <4>2, PieceOf
      <4>4. AllBlank(s, m..c - 1) /\ AllBlank(s, l + 1..l)
        <5>1. \A k \in m..c - 1 : k \in m..n /\ k < c
          BY SMT
        <5>2. l + 1..l = {}
          BY SMT
        <5> QED
          BY <2>1, <5>1, <5>2 DEF Inked, AllBlank
      <4>5. Trim(SubSeq(s, c, l)) = Trim(SubSeq(s, m, l))
        BY <2>3, <4>1, <4>3, <4>4, SameTrim
      <4> QED
        BY <4>3, <4>5 DEF Piece
    <3>9. SubSeq(s, m, l) \in Line
      <4>1. Stretch(s, m, l)
        BY <1>0, <1>1, <1>2, <2>4, <3>3, <3>5, SMT DEF Stretch
      <4> QED
        BY <4>1, Stretched
    <3>10. CutComment(v) = Trim(SubSeq(s, p + 1, q - 1))
      BY <1>1, <3>4, <3>5, <3>8
    <3> QED
      BY <1>1, <3>5, <3>6, <3>7, <3>9, <3>10 DEF v
  <2> QED
    BY <2>6, <2>7
<1> QED
  BY <1>2, <1>5, <1>6, InkedOrNot DEF v

\* What the loop makes of a line is what the line says.
LEMMA PairIs ==
  ASSUME NEW s \in Line
  PROVE  /\ ~Keeps(Trim(s)) => \A key : ~IsPair(s, key)
         /\ Keeps(Trim(s)) =>
              LET eq == Min(EqualSigns(Trim(s)))
                  name == Trim(Before(Trim(s), eq))
              IN /\ name \in Line
                 /\ \A key \in Line : IsPair(s, key) <=> key = name
                 /\ Pair(s, name, CutComment(Trim(After(Trim(s), eq))))
<1>0. DOMAIN s = 1..Len(s) /\ Len(s) \in Nat
  BY WholeStretch
<1>1. CASE ~Keeps(Trim(s))
  BY <1>1, AssignsIs DEF IsPair
<1>2. CASE Keeps(Trim(s))
  <2> DEFINE eq == Min(EqualSigns(Trim(s)))
             name == Trim(Before(Trim(s), eq))
             value == CutComment(Trim(After(Trim(s), eq)))
  <2>1. PICK p \in 1..Len(s) :
          /\ \A q \in 1..Len(s) : Assigns(s, q) <=> q = p
          /\ name = Trim(Before(s, p))
          /\ Trim(After(Trim(s), eq)) = Trim(After(s, p))
    BY <1>0, <1>2, AssignsIs
  <2>2. value = CutComment(Trim(After(s, p)))
    BY <2>1
  <2> HIDE DEF name, value
  <2>3. Before(s, p) \in Line
    <3>1. PICK l \in Int : l = p - 1
      <4>1. p - 1 \in Int
        BY SMT
      <4> QED
        BY <4>1
    <3>2. Stretch(s, 1, l) /\ 1 \in Int
      BY <1>0, <3>1, SMT DEF Stretch
    <3>3. SubSeq(s, 1, l) \in Line
      BY <3>2, Stretched
    <3> QED
      BY <3>1, <3>3 DEF Before
  <2>4. name \in Line
    BY <2>1, <2>3, TrimFound
  <2>5. \A key \in Line : TrimsTo(Before(s, p), key) <=> key = name
    BY <2>1, <2>3, TrimsToTrim
  <2>6. \A key \in Line : IsPair(s, key) <=> key = name
    BY <1>0, <2>1, <2>5 DEF IsPair
  <2>7. PICK q \in 1..Len(s) + 1 :
          /\ q > p /\ \A k \in p + 1..q - 1 : s[k] \notin Comment
          /\ q <= Len(s) => s[q] \in Comment
          /\ SubSeq(s, p + 1, q - 1) \in Line
          /\ value = Trim(SubSeq(s, p + 1, q - 1))
    BY <2>2, CutIs
  <2>8. TrimsTo(SubSeq(s, p + 1, q - 1), value)
    BY <2>7, TrimsToTrim, TrimFound
  <2>9. Assigns(s, p) /\ TrimsTo(Before(s, p), name)
    BY <2>1, <2>4, <2>5
  <2>10. Pair(s, name, value)
    BY <1>0, <2>7, <2>8, <2>9 DEF Pair
  <2> QED
    BY <1>2, <2>4, <2>6, <2>10 DEF name, value
<1> QED
  BY <1>1, <1>2

-----------------------------------------------------------------------------
(* Sections.                                                               *)

\* A header has one name.
LEMMA HeaderOnce ==
  ASSUME NEW s \in Line, NEW m \in Line, NEW n \in Line,
         Header(s, m), Header(s, n)
  PROVE  m = n
<1>1. IsHeader(s)
  BY DEF Header, IsHeader
<1> QED
  BY <1>1, HeaderIs

\* A line lies in one section.
LEMMA SectionOnce ==
  ASSUME file \in Seq(Line), NEW j \in 1..Len(file) + 1,
         NEW m \in Line, NEW n \in Line, InSection(j, m), InSection(j, n)
  PROVE  m = n
<1>0. /\ Len(file) \in Nat
      /\ \A k \in 1..j - 1 : k \in 1..Len(file) /\ file[k] \in Line
  <2>1. Len(file) \in Nat /\ \A k \in 1..Len(file) : file[k] \in Line
    BY LenProperties, ElementOfSeq
  <2>2. \A k \in 1..j - 1 : k \in 1..Len(file)
    BY <2>1, SMT
  <2> QED
    BY <2>1, <2>2
<1>1. \A k, name : Header(file[k], name) => IsHeader(file[k])
  BY DEF Header, IsHeader
<1>2. ASSUME NEW h \in 1..j - 1, Header(file[h], m),
             \A k \in h + 1..j - 1 : ~IsHeader(file[k])
      PROVE  m = n
  <2>1. PICK g \in 1..j - 1 :
          /\ Header(file[g], n)
          /\ \A k \in g + 1..j - 1 : ~IsHeader(file[k])
    BY <1>1, <1>2 DEF InSection
  <2>2. ~(g \in h + 1..j - 1) /\ ~(h \in g + 1..j - 1)
    BY <1>1, <1>2, <2>1
  <2>3. g = h
    BY <2>2, SMT
  <2> QED
    BY <1>0, <1>2, <2>1, <2>3, HeaderOnce
<1>3. CASE m = <<>> /\ \A k \in 1..j - 1 : ~IsHeader(file[k])
  BY <1>1, <1>3 DEF InSection
<1> QED
  BY <1>2, <1>3 DEF InSection

\* The section of the next line.
LEMMA SectionNext ==
  ASSUME NEW j \in Nat, j >= 1, NEW n
  PROVE  /\ ~IsHeader(file[j]) /\ InSection(j, n) => InSection(j + 1, n)
         /\ Header(file[j], n) => InSection(j + 1, n)
<1>1. (j + 1) - 1 = j /\ j \in 1..j /\ j + 1..j = {}
  BY SMT
<1>2. \A k \in 1..j : k \in 1..j - 1 \/ k = j
  BY SMT
<1>3. \A h \in 1..j - 1 : /\ h \in 1..j
                         /\ \A k \in h + 1..j : k \in h + 1..j - 1 \/ k = j
  BY SMT
<1>4. ASSUME Header(file[j], n) PROVE InSection(j + 1, n)
  BY <1>1, <1>4 DEF InSection
<1>5. ASSUME ~IsHeader(file[j]), InSection(j, n) PROVE InSection(j + 1, n)
  <2>1. CASE n = <<>> /\ \A k \in 1..j - 1 : ~IsHeader(file[k])
    BY <1>1, <1>2, <1>5, <2>1 DEF InSection
  <2>2. CASE \E h \in 1..j - 1 :
               /\ Header(file[h], n)
               /\ \A k \in h + 1..j - 1 : ~IsHeader(file[k])
    <3>1. PICK h \in 1..j - 1 :
               /\ Header(file[h], n)
               /\ \A k \in h + 1..j - 1 : ~IsHeader(file[k])
      BY <2>2
    <3>2. h \in 1..j /\ \A k \in h + 1..j : ~IsHeader(file[k])
      BY <1>3, <1>5, <3>1
    <3> QED
      BY <1>1, <3>1, <3>2 DEF InSection
  <2> QED
    BY <1>5, <2>1, <2>2 DEF InSection
<1> QED
  BY <1>4, <1>5

-----------------------------------------------------------------------------
(* The invariant.  After each round the section is the one in which the    *)
(* next line lies, every value kept is what the lines read say of its key, *)
(* and no key a line gives a value is missing.                             *)

ConfigType ==
  /\ file \in Seq(Line) /\ lineno \in 0..Len(file) /\ section \in Line
  /\ DOMAIN data_ \subseteq Line \X Line

KeptIsSaid == \A e \in DOMAIN data_ : Says(e[1], e[2], data_[e])
SaidIsKept ==
  \A j \in 1..lineno, key \in Line :
    IsPair(file[j], key) =>
      \E e \in DOMAIN data_ : e[2] = key /\ InSection(j, e[1])

ConfigInv ==
  /\ ConfigType /\ InSection(lineno + 1, section) /\ KeptIsSaid /\ SaidIsKept

\* The invariant is strong enough.
LEMMA InvMeans == ConfigInv => ConfigMeansTheFile
<1> SUFFICES ASSUME ConfigInv PROVE ConfigMeansTheFile
  OBVIOUS
<1>1. ASSUME NEW e \in DOMAIN data_
      PROVE  Says(e[1], e[2], get(e[1], e[2], "default"))
  <2>1. <<e[1], e[2]>> = e
    BY DEF ConfigInv, ConfigType
  <2>2. get(e[1], e[2], "default") = data_[e]
    BY <2>1 DEF get
  <2> QED
    BY <2>2 DEF ConfigInv, KeptIsSaid
<1>2. ASSUME NEW j \in 1..lineno, NEW key \in Names(file[j]),
             IsPair(file[j], key)
      PROVE  \E e \in DOMAIN data_ : e[2] = key /\ InSection(j, e[1])
  <2>1. file[j] \in Line
    <3>1. j \in 1..Len(file)
      BY LenProperties, SMT DEF ConfigInv, ConfigType
    <3> QED
      BY <3>1, ElementOfSeq DEF ConfigInv, ConfigType
  <2>2. key \in Line
    <3>1. CASE key = <<>>
      BY <3>1, EmptySeq DEF Line
    <3>2. CASE \E a, b \in DOMAIN file[j] : key = SubSeq(file[j], a, b)
      <4>1. PICK a \in 1..Len(file[j]), b \in 1..Len(file[j]) :
              key = SubSeq(file[j], a, b)
        BY <2>1, <3>2, WholeStretch
      <4>2. Len(file[j]) \in Nat
        BY <2>1, WholeStretch
      <4>3. \A k \in a..b : file[j][k] \in STRING
        <5>1. \A k \in a..b : k \in 1..Len(file[j])
          BY <4>2, SMT
        <5> QED
          BY <2>1, <5>1, ElementOfSeq DEF Line
      <4>4. a \in Int /\ b \in Int
        BY <4>2, SMT
      <4>5. SubSeq(file[j], a, b) \in Seq(STRING)
        BY <4>3, <4>4, SubSeqProperties
      <4> QED
        BY <4>1, <4>5 DEF Line
    <3> QED
      BY <3>1, <3>2 DEF Names
  <2> QED
    BY <1>2, <2>2 DEF ConfigInv, SaidIsKept
<1> QED
  BY <1>1, <1>2 DEF ConfigMeansTheFile

\* It holds of the empty configuration.
LEMMA InvInit == LoadInit => ConfigInv
<1> SUFFICES ASSUME LoadInit PROVE ConfigInv
  OBVIOUS
<1>1. file \in Seq(Line) /\ Len(file) \in Nat /\ lineno = 0 /\ section = <<>>
  <2>1. file \in Seq(Line) /\ lineno = 0 /\ section = <<>>
    BY FilesAssumption DEF LoadInit, Line
  <2> QED
    BY <2>1, LenProperties
<1>2. DOMAIN data_ = {}
  BY DEF LoadInit
<1>3. <<>> \in Line /\ 0 \in 0..Len(file)
  BY <1>1, EmptySeq, SMT DEF Line
<1>4. ConfigType
  BY <1>1, <1>2, <1>3 DEF ConfigType
<1>5. InSection(lineno + 1, section)
  <2>1. 1..(lineno + 1) - 1 = {}
    BY <1>1, SMT
  <2> QED
    BY <1>1, <2>1 DEF InSection
<1>6. 1..lineno = {}
  BY <1>1, SMT
<1> QED
  BY <1>2, <1>4, <1>5, <1>6 DEF ConfigInv, KeptIsSaid, SaidIsKept

\* Every round of the loop keeps it.
LEMMA InvStep == ConfigInv /\ [ReadLine]_configVars => ConfigInv'
<1> SUFFICES ASSUME ConfigInv, [ReadLine]_configVars PROVE ConfigInv'
  OBVIOUS
<1>1. CASE UNCHANGED configVars
  <2>1. /\ file' = file /\ lineno' = lineno /\ section' = section
        /\ data_' = data_
    BY <1>1 DEF configVars
  <2>2. \A j, name : InSection(j, name)' <=> InSection(j, name)
    BY <2>1 DEF InSection
  <2>3. \A name, key, value : Says(name, key, value)' <=> Says(name, key, value)
    BY <2>1, <2>2 DEF Says
  <2> QED
    BY <2>1, <2>2, <2>3 DEF ConfigInv, ConfigType, KeptIsSaid, SaidIsKept
<1>2. CASE ReadLine
  <2> DEFINE s == file[lineno + 1]
             t == Trim(s)
             r == lineno + 1
  <2>1. file' = file /\ lineno' = r /\ lineno < Len(file)
    BY <1>2 DEF ReadLine
  <2>2. SkipLine(t) \/ OpenSection(t) \/ KeepValue(t)
    BY <1>2 DEF ReadLine
  <2>3. /\ Len(file) \in Nat /\ lineno \in Nat /\ r \in 1..Len(file)
        /\ r \in Nat /\ r >= 1 /\ r \in 1..Len(file) + 1 /\ r \in 0..Len(file)
    <3>1. Len(file) \in Nat /\ lineno \in 0..Len(file) /\ lineno < Len(file)
      BY <2>1, LenProperties DEF ConfigInv, ConfigType
    <3> QED
      BY <3>1, SMT
  <2>4. s \in Line /\ t \in Line
    <3>1. s \in Line
      BY <2>3, ElementOfSeq DEF ConfigInv, ConfigType
    <3> QED
      BY <3>1, TrimFound
  <2>5. file[r] = s
    OBVIOUS
  <2>6. \A j \in 1..r : j \in 1..lineno \/ j = r
    BY <2>3, SMT
  <2>7. /\ \A j \in 1..lineno : /\ j \in 1..r /\ j \in 1..Len(file) + 1
                                /\ \A k \in j + 1..r : k \in j + 1..lineno \/ k = r
        /\ r \in 1..r /\ r + 1..r = {}
    BY <2>3, SMT
  <2>8. InSection(r, section)
    BY DEF ConfigInv
  <2> HIDE DEF r, s, t
  <2>9. \A j, name : InSection(j, name)' <=> InSection(j, name)
    BY <2>1 DEF InSection
  <2>10. \A name, key, value :
           Says(name, key, value)' <=>
             \E j \in 1..r :
               /\ InSection(j, name) /\ Pair(file[j], key, value)
               /\ \A k \in j + 1..r :
                    ~(InSection(k, name) /\ IsPair(file[k], key))
    BY <2>1, <2>9 DEF Says
  <2>11. /\ IsHeader(s) <=> InBrackets(t)
         /\ InBrackets(t) => ~Ignored(t)
    BY <2>4, IsHeaderIs DEF t
  <2>12. section' \in Line /\ InSection(r + 1, section')
    <3>1. CASE ~InBrackets(t)
      <4>1. section' = section
        BY <2>2, <3>1 DEF SkipLine, OpenSection, KeepValue
      <4>2. InSection(r + 1, section)
        BY <2>3, <2>5, <2>8, <2>11, <3>1, SectionNext
      <4> QED
        BY <4>1, <4>2 DEF ConfigInv, ConfigType
    <3>2. CASE InBrackets(t)
      <4> DEFINE inner == SubSeq(t, 2, Len(t) - 1)
      <4>1. section' = Trim(inner)
        BY <2>2, <2>11, <3>2 DEF SkipLine, OpenSection, KeepValue
      <4>2. inner \in Line
        <5>1. Len(t) \in Nat /\ \A k \in 2..Len(t) - 1 : t[k] \in STRING
          <6>1. Len(t) \in Nat
            BY <2>4, WholeStretch
          <6>2. \A k \in 2..Len(t) - 1 : k \in 1..Len(t)
            BY <6>1, SMT
          <6> QED
            BY <2>4, <6>1, <6>2, ElementOfSeq DEF Line
        <5>2. PICK m \in Int, l \in Int : m = 2 /\ l = Len(t) - 1
          <6>1. 2 \in Int /\ Len(t) - 1 \in Int
            BY <5>1, SMT
          <6> QED
            BY <6>1
        <5>3. \A k \in m..l : t[k] \in STRING
          BY <5>1, <5>2
        <5>4. SubSeq(t, m, l) \in Seq(STRING)
          BY <5>3, SubSeqProperties
        <5> QED
          BY <5>2, <5>4 DEF Line
      <4> HIDE DEF inner
      <4>3. Trim(inner) \in Line
        BY <4>2, TrimFound
      <4>4. Header(s, Trim(inner))
        BY <2>4, <2>11, <3>2, <4>3, HeaderIs DEF inner, t
      <4> QED
        BY <2>3, <2>5, <4>1, <4>3, <4>4, SectionNext
    <3> QED
      BY <3>1, <3>2
  <2>13. ASSUME NEW name, NEW key, NEW value, Says(name, key, value),
                ~(InSection(r, name) /\ IsPair(s, key))
         PROVE  Says(name, key, value)'
    <3>1. PICK j \in 1..lineno :
            /\ InSection(j, name) /\ Pair(file[j], key, value)
            /\ \A k \in j + 1..lineno :
                 ~(InSection(k, name) /\ IsPair(file[k], key))
      BY <2>13 DEF Says
    <3>2. j \in 1..r
      BY <2>7
    <3>3. \A k \in j + 1..r : ~(InSection(k, name) /\ IsPair(file[k], key))
      BY <2>5, <2>7, <2>13, <3>1
    <3> QED
      BY <2>10, <3>1, <3>2, <3>3
  <2>14. CASE ~Keeps(t)
    <3>1. data_' = data_
      BY <2>2, <2>14 DEF SkipLine, OpenSection, KeepValue, Keeps
    <3>2. \A key : ~IsPair(s, key)
      BY <2>4, <2>14, PairIs DEF t
    <3>3. KeptIsSaid'
      BY <2>13, <3>1, <3>2 DEF ConfigInv, KeptIsSaid
    <3>4. SaidIsKept'
      <4> SUFFICES ASSUME NEW j \in 1..r, NEW key \in Line,
                          IsPair(file[j], key)
                   PROVE  \E e \in DOMAIN data_ : e[2] = key /\ InSection(j, e[1])
        BY <2>1, <2>9, <3>1 DEF SaidIsKept
      <4>1. j \in 1..lineno
        BY <2>5, <2>6, <3>2
      <4> QED
        BY <4>1 DEF ConfigInv, SaidIsKept
    <3>5. ConfigType'
      BY <2>1, <2>3, <2>12, <3>1 DEF ConfigInv, ConfigType
    <3>6. InSection(lineno + 1, section)'
      BY <2>1, <2>9, <2>12
    <3> QED
      BY <3>3, <3>4, <3>5, <3>6 DEF ConfigInv
  <2>15. CASE Keeps(t)
    <3> DEFINE eq == Min(EqualSigns(t))
               name == Trim(Before(t, eq))
               value == CutComment(Trim(After(t, eq)))
               entry == <<section, name>>
    <3>1. data_' = Stored(entry, value)
      <4>1. KeepValue(t)
        BY <2>2, <2>15 DEF SkipLine, OpenSection, Keeps
      <4> QED
        BY <4>1 DEF KeepValue
    <3>2. /\ name \in Line
          /\ \A key \in Line : IsPair(s, key) <=> key = name
          /\ Pair(s, name, value)
      BY <2>4, <2>15, PairIs DEF t
    <3> HIDE DEF name, value
    <3>3. section \in Line /\ entry \in Line \X Line
          /\ entry[1] = section /\ entry[2] = name
      BY <3>2 DEF ConfigInv, ConfigType
    <3>4. /\ DOMAIN data_' = DOMAIN data_ \cup {entry}
          /\ data_'[entry] = value
          /\ \A e \in DOMAIN data_ : e # entry => data_'[e] = data_[e]
      BY <3>1 DEF Stored
    <3>5. PICK old, left, right : old = section /\ left = name /\ right = value
      OBVIOUS
    <3>11. Says(old, left, right)'
      <4>1. InSection(r, old) /\ Pair(file[r], left, right)
        BY <2>5, <2>8, <3>2, <3>5
      <4>2. \A k \in r + 1..r : ~(InSection(k, old) /\ IsPair(file[k], left))
        BY <2>7
      <4> QED
        BY <2>7, <2>10, <4>1, <4>2
    <3>6. ASSUME NEW e \in DOMAIN data_, e # entry
          PROVE  Says(e[1], e[2], data_[e])'
      <4>1. e[1] \in Line /\ e[2] \in Line /\ e = <<e[1], e[2]>>
        BY DEF ConfigInv, ConfigType
      <4>2. ~(InSection(r, e[1]) /\ IsPair(s, e[2]))
        <5> SUFFICES ASSUME InSection(r, e[1]), IsPair(s, e[2]) PROVE FALSE
          OBVIOUS
        <5>1. e[2] = name
          BY <3>2, <4>1
        <5>2. e[1] = section
          BY <2>3, <2>8, <3>3, <4>1, SectionOnce DEF ConfigInv, ConfigType
        <5>3. e = entry
          BY <4>1, <5>1, <5>2
        <5> QED
          BY <3>6, <5>3
      <4>3. Says(e[1], e[2], data_[e])
        BY DEF ConfigInv, KeptIsSaid
      <4>4. PICK v : v = data_[e]
        OBVIOUS
      <4>5. Says(e[1], e[2], v)'
        BY <2>13, <4>2, <4>3, <4>4
      <4>6. data_'[e] = v
        BY <3>4, <3>6, <4>4
      <4> QED
        BY <4>5, <4>6
    <3>7. KeptIsSaid'
      <4> SUFFICES ASSUME NEW e \in DOMAIN data_'
                   PROVE  Says(e[1], e[2], data_[e])'
        BY DEF KeptIsSaid
      <4>1. CASE e \in DOMAIN data_ /\ e # entry
        BY <3>6, <4>1
      <4>2. CASE e = entry
        <5>1. e[1] = old /\ e[2] = left /\ data_'[e] = right
          BY <3>3, <3>4, <3>5, <4>2
        <5> QED
          BY <3>11, <5>1
      <4> QED
        BY <3>4, <4>1, <4>2
    <3>8. SaidIsKept'
      <4> SUFFICES ASSUME NEW j \in 1..r, NEW key \in Line,
                          IsPair(file[j], key)
                   PROVE  \E e \in DOMAIN data_' : e[2] = key /\ InSection(j, e[1])
        BY <2>1, <2>9 DEF SaidIsKept
      <4>1. CASE j \in 1..lineno
        BY <3>4, <4>1 DEF ConfigInv, SaidIsKept
      <4>2. CASE j = r
        <5>1. key = name
          BY <2>5, <3>2, <4>2
        <5> QED
          BY <2>8, <3>3, <3>4, <4>2, <5>1
      <4> QED
        BY <2>6, <4>1, <4>2
    <3>9. ConfigType'
      BY <2>1, <2>3, <2>12, <3>3, <3>4 DEF ConfigInv, ConfigType
    <3>12. InSection(lineno + 1, section)'
      BY <2>1, <2>9, <2>12
    <3> QED
      BY <3>7, <3>8, <3>9, <3>12 DEF ConfigInv
  <2> QED
    BY <2>14, <2>15
<1> QED
  BY <1>1, <1>2

\* Whatever the file, what get() returns is what the lines read say: the last
\* value of a key in its section, without blanks and comment, and none is
\* missing (config.cpp:37-101).
THEOREM ConfigTheorem == LoadSpec => []ConfigMeansTheFile
<1>1. LoadSpec => []ConfigInv
  BY InvInit, InvStep, PTL DEF LoadSpec
<1> QED
  BY <1>1, InvMeans, PTL
=============================================================================
